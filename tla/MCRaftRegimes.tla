--------------------------- MODULE MCRaftRegimes ---------------------------
(***************************************************************************)
(* Regimes of one shard group from a fresh start.  In "elections" any      *)
(* server may campaign in the bootstrap term; in "steady" none does,       *)
(* operators catch replicas up and processes restart twice; in "failover"  *)
(* one replica campaigns, up to term 2, and replaces the routing-table     *)
(* primary.  A behaviour stays in its regime.                              *)
(***************************************************************************)
EXTENDS MCRaftShard

CONSTANT Regimes    \* the regimes a run explores

VARIABLE regime

Steady == INSTANCE RaftShard WITH
    Campaigner <- NoServer, OperatorCatchUp <- TRUE, MaxRestarts <- 2

Failover == INSTANCE RaftShard WITH
    Campaigner <- OneReplica, MaxTerm <- 2, MaxRestarts <- 0

RegimeNext ==
    /\ UNCHANGED regime
    /\ \/ regime = "elections" /\ Next
       \/ regime = "steady" /\ Steady!Next
       \/ regime = "failover" /\ Failover!Next

RegimeInit == Init /\ regime \in Regimes

RegimeSpec == RegimeInit /\ [][RegimeNext]_<<vars, regime>>

=============================================================================
