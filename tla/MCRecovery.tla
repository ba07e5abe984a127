----------------------------- MODULE MCRecovery -----------------------------
(***************************************************************************)
(* What must come to an end after a failure, each part explored by itself: *)
(* the re-opening of a killed server, a commit whose coordinator or        *)
(* participant dies, and the rebalancing that joining, draining and lost   *)
(* servers ask for.  A behaviour belongs to one of them, with the fairness *)
(* of that part; the others keep their initial state.                      *)
(***************************************************************************)
EXTENDS ShardStorage, Cluster, TLC

CONSTANTS serverA, serverC, tx1

VARIABLES rvPart, prepared, decisions, applied, status, nextId, co, rec, taken,
          calls, wait, inbox, snap, streams, faults, outcome

\* One transaction of serverA with a batch of its own and one of serverC.
TxCoord(t) == serverA
TxTargets(t) == <<serverA, serverC>>
Commit == INSTANCE TwoPhaseCommit WITH
    Server <- {serverA, serverC}, Tx <- {tx1}, Coord <- TxCoord, Targets <- TxTargets,
    Workers <- 1, Crasher <- {serverA, serverC}, TakeFaults <- FALSE, MaxFaults <- 3

txVars == <<prepared, decisions, applied, status, nextId, co, rec, taken, calls, wait,
            inbox, snap, streams, faults, outcome>>
rvVars == <<rvPart, vars, clVars, txVars>>

-----------------------------------------------------------------------------
ClSetting(placed, rf, ops, drains, abort, wipe, deaths) ==
    [placed |-> (0 :> placed), rf |-> rf, ops |-> ops, drains |-> drains,
     abort |-> abort, wipe |-> wipe, kills |-> deaths]

KillSetting ==
    ClSetting(<<1, 2>>, 3, {"register", "write", "cancel", "prepare"}, {}, FALSE, FALSE, 1)
const_ClConf ==
    {KillSetting,
     ClSetting(<<1, 2>>, 3, {"join", "write", "promote"}, {2}, FALSE, FALSE, 0),
     ClSetting(<<1, 2>>, 3, {"join", "drain", "write"}, {2}, FALSE, FALSE, 0),
     ClSetting(<<2, 1>>, 2, {"drain", "write", "join"}, {2}, FALSE, FALSE, 0),
     ClSetting(<<2, 1, 3>>, 3, {"drain", "register", "write"}, {3}, FALSE, TRUE, 0),
     ClSetting(<<2, 1>>, 2, {"register", "policy", "reject", "authority", "seed"}, {2},
               FALSE, FALSE, 0)}

-----------------------------------------------------------------------------
RecoveryInit ==
    /\ rvPart \in {"storage", "commit", "cluster"}
    /\ Init
    /\ ClusterInit
    /\ Commit!Init
    /\ rvPart # "cluster" => clConf = KillSetting

RecoveryNext ==
    /\ UNCHANGED rvPart
    /\ \/ rvPart = "storage" /\ Next /\ UNCHANGED <<clVars, txVars>>
       \/ rvPart = "commit" /\ Commit!Next /\ UNCHANGED <<vars, clVars>>
       \/ rvPart = "cluster" /\ ClusterNext /\ UNCHANGED <<vars, txVars>>

\* The fairness of each part (Fairness, ClusterFairness), where it runs.
StorageFairness ==
    /\ WF_vars(rvPart = "storage" /\ Step)
    /\ WF_vars(rvPart = "storage" /\ Open)
    /\ WF_vars(rvPart = "storage" /\ ReplayEntry)
    /\ WF_vars(rvPart = "storage" /\ OpenDone)
CommitFairness ==
    /\ WF_txVars(rvPart = "commit" /\ Commit!CoordStep(tx1))
    /\ \A s \in {serverA, serverC} :
          /\ WF_txVars(rvPart = "commit" /\ Commit!ReplayStep(s))
          /\ SF_txVars(rvPart = "commit" /\ Commit!Serving(s))
    /\ \A caller \in Commit!Caller :
          WF_txVars(rvPart = "commit" /\ Commit!PeerGone(caller) /\ Commit!LoseCall(caller))
RebalanceFairness ==
    /\ WF_clVars(rvPart = "cluster" /\ \E s \in ClServer : ExecuteCatchUp(s))
    /\ WF_clVars(rvPart = "cluster" /\ \E sh \in ClShard, s \in ClServer : MarkShardCaughtUp(sh, s))
    /\ []<>(rvPart # "cluster" \/ ~CanStart) \/ []<><<StartRebalancePlan>>_clVars
    /\ []<>(rvPart # "cluster" \/ ~CanAdvance) \/ []<><<AdvanceRebalance>>_clVars

RecoverySpec ==
    /\ RecoveryInit
    /\ [][RecoveryNext]_rvVars
    /\ StorageFairness
    /\ CommitFairness
    /\ RebalanceFairness

-----------------------------------------------------------------------------
\* What was decided reaches every participant, through lost answers and
\* deaths of the coordinator (recover_transaction_decisions).
CommitReachesAll == Commit!CommitReachesAll

\* A worker that started a commit answers its client or dies with its server:
\* no lost call and no death of a participant leaves it waiting for ever,
\* although request_remote_command reads the answer without a timeout.
CommitEnds == Commit!CommitEnds
=============================================================================
