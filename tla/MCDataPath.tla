----------------------------- MODULE MCDataPath -----------------------------
(***************************************************************************)
(* The parts of a server that hold its data, each explored by itself: the  *)
(* graph store and its secondary indexes, the index catalog, snapshots and *)
(* restores, the log and state files, and Cypher writes.  A behaviour      *)
(* belongs to one of them; the others keep their initial state, so the     *)
(* state spaces add.                                                       *)
(***************************************************************************)
EXTENDS GraphStore, IndexCatalog, MCSnapshotRestore, MCLogFiles, MCCypherWrites

VARIABLE dpPart

dpVars == <<dpPart, graphVars, icVars, srVars, lfVars, cwVars>>

const_GraphConf ==
    {[partitions |-> 1, kills |-> 0, deletes |-> TRUE, batch |-> 2],
     [partitions |-> 2, kills |-> 0, deletes |-> TRUE, batch |-> 2],
     [partitions |-> 2, kills |-> 1, deletes |-> FALSE, batch |-> 1]}

DataPathInit ==
    /\ dpPart \in {"graph", "catalog", "restore", "files", "cypher"}
    /\ GraphInit
    /\ CatalogInit
    /\ SrInit
    /\ FilesInit
    /\ CwInit
    /\ dpPart # "graph" => gsConf.kills = 1
    /\ dpPart # "restore" => srConf = SrSetting({"install"}, 2)
    /\ dpPart # "files" => lfConf = SaveSetting
    /\ dpPart # "cypher" => cwPick = Len(CwConf)

DataPathNext ==
    /\ UNCHANGED dpPart
    /\ \/ dpPart = "graph" /\ GraphNext /\ UNCHANGED <<icVars, srVars, lfVars, cwVars>>
       \/ dpPart = "catalog" /\ CatalogNext /\ UNCHANGED <<graphVars, srVars, lfVars, cwVars>>
       \/ dpPart = "restore" /\ SrNext /\ UNCHANGED <<graphVars, icVars, lfVars, cwVars>>
       \/ dpPart = "files" /\ FilesNext /\ UNCHANGED <<graphVars, icVars, srVars, cwVars>>
       \/ dpPart = "cypher" /\ CwNext /\ UNCHANGED <<graphVars, icVars, srVars, lfVars>>

DataPathSpec == DataPathInit /\ [][DataPathNext]_dpVars
=============================================================================
