-------------------------- MODULE MCSnapshotRestore --------------------------
(***************************************************************************)
(* Instances of SnapshotRestore: restores of snapshots and of a point in   *)
(* time over a log that is checkpointed, and the installation of a peer's  *)
(* snapshot, each with one kill.                                           *)
(***************************************************************************)
EXTENDS SnapshotRestore

SrSetting(ops, every) == [ops |-> ops, every |-> every, kills |-> 1]

\* Every restored entry is checkpointed at once, or the log is compacted.
const_SrConf ==
    {SrSetting({"write", "snapshot"}, 1), SrSetting({"write", "pitr"}, 2),
     SrSetting({"install"}, 2)}

\* A snapshot restored over entries above the checkpoint.
UncheckpointedRestore == {SrSetting({"write", "snapshot"}, 2)}
=============================================================================
