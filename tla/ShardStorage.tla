---------------------------- MODULE ShardStorage ----------------------------
(***************************************************************************)
(* What one server keeps on disk for a shard and the order in which the    *)
(* write paths touch it: the segmented WAL (log.rs), the commit index      *)
(* (commit.rs), the checkpoint (checkpoint.rs) and the materialized graph  *)
(* store.  The process may be killed between any two file operations and   *)
(* opened again; files keep what was written to them (no power loss).      *)
(*                                                                         *)
(* The graph store is the set of commands applied to it: every command of  *)
(* the log is distinct, and applying one again changes nothing.            *)
(***************************************************************************)
EXTENDS Integers, FiniteSets

CONSTANTS Value,              \* commands
          None,
          CheckpointInterval, \* config.checkpoint_interval
          BatchSize,          \* most writes the writer actor takes at once
          MaxIndex,           \* bound on log indexes
          MaxKills,           \* bound on process kills
          ApplyFaults,        \* fail_after_commit_before_apply is switched on
          KillInRename        \* kills may hit between truncate_from's renames

ASSUME StorageAssumption ==
    /\ CheckpointInterval \in Nat \ {0} /\ BatchSize \in Nat \ {0}
    /\ MaxIndex \in Nat /\ MaxKills \in Nat
    /\ ApplyFaults \in BOOLEAN /\ KillInRename \in BOOLEAN

VARIABLES
    \* on disk
    seg,    \* the records of the segments directory: [indexes -> Value]
    com,    \* commit.bin
    ckpt,   \* checkpoint.bin: last applied index
    store,  \* the commands the graph store has applied
    \* in memory
    next,   \* next_log_indexes
    commit, \* commit_indexes
    op,     \* the operation that holds the database mutex
    kills

vars == <<seg, com, ckpt, store, next, commit, op, kills>>

\* An operation: its kind, the step it is at and the indexes it is about.
Doing(kind, at, from, to) ==
    [kind |-> kind, at |-> at, from |-> from, to |-> to, val |-> None]
Idle == Doing("idle", "start", 0, 0)
Down == Doing("down", "start", 0, 0)

Restrict1(f, S) == [i \in DOMAIN f \cap S |-> f[i]]
Put(f, i, v) == [j \in DOMAIN f \cup {i} |-> IF j = i THEN v ELSE f[j]]
Highest(S) == CHOOSE i \in S : \A j \in S : j <= i
LargerOf(a, b) == IF a >= b THEN a ELSE b

Unused == Value \ {seg[i] : i \in DOMAIN seg}

\* should_checkpoint, and the checkpoint a batch leaves behind: that of its
\* last index that is due, never a lower one than it finds due.
CheckpointIndexes(from, to) == {i \in from..to : i % CheckpointInterval = 0}
Checkpointed(from, to) ==
    IF CheckpointIndexes(from, to) = {} THEN ckpt ELSE Highest(CheckpointIndexes(from, to))

Init ==
    /\ seg = [i \in {} |-> None]
    /\ com = 0 /\ ckpt = 0 /\ store = {}
    /\ next = 1 /\ commit = 0 /\ kills = 0
    /\ op = Idle

-----------------------------------------------------------------------------
\* Local writes.

\* append_local_command for write_command: one record, then publish.
WriteCommand(v) ==
    /\ op = Idle /\ next <= MaxIndex /\ v \in Unused
    /\ seg' = Put(seg, next, v)
    /\ next' = next + 1
    /\ op' = Doing("single", "publish", next, next)
    /\ UNCHANGED <<com, ckpt, store, commit, kills>>

\* execute_write_batch: prepare_local_write appends each command of the batch
\* before any of them is published.
PrepareWrite(v) ==
    /\ \/ op = Idle
       \/ op.kind = "batch" /\ op.at = "publish" /\ op.to - op.from + 1 < BatchSize
    /\ next <= MaxIndex /\ v \in Unused
    /\ seg' = Put(seg, next, v)
    /\ next' = next + 1
    /\ op' = Doing("batch", "publish", IF op = Idle THEN next ELSE op.from, next)
    /\ UNCHANGED <<com, ckpt, store, commit, kills>>

\* publish fails its ack policy, or commit_entry / commit_entries refuses an
\* index that does not follow the commit index: the records stay behind.
GiveUp ==
    /\ op.at = "publish"
    /\ op' = Idle
    /\ UNCHANGED <<seg, com, ckpt, store, next, commit, kills>>

\* publish succeeded and the entries continue the commit index.
Published ==
    /\ op.at = "publish" /\ op.from = commit + 1
    /\ op' = Doing(op.kind, "save", op.from, op.to)
    /\ UNCHANGED <<seg, com, ckpt, store, next, commit, kills>>

\* CommitStore::save, atomic by rename.  commit_entries has raised the index
\* in memory before, commit_entry raises it after: nobody looks in between.
SaveCommit ==
    /\ op.at = "save"
    /\ com' = op.to /\ commit' = op.to
    /\ op' = Doing(op.kind, "apply", op.from, op.to)
    /\ UNCHANGED <<seg, ckpt, store, next, kills>>

\* store.apply / apply_batch: one RocksDB batch.  observe_entry also moves
\* next_log_index past what was applied.  write_command fails here, with the
\* commit index saved, when fail_after_commit_before_apply is set; the batch
\* paths have no such point.
Apply ==
    /\ op.at = "apply"
    /\ IF ApplyFaults /\ op.kind = "single"
       THEN op' = Idle /\ UNCHANGED <<store, next>>
       ELSE /\ store' = store \cup {seg[i] : i \in op.from..op.to}
            /\ next' = LargerOf(next, op.to + 1)
            /\ op' = Doing(op.kind, "checkpoint", op.from, op.to)
    /\ UNCHANGED <<seg, com, ckpt, commit, kills>>

\* A checkpoint that names the next index instead of the last applied one.
SaveCheckpointMutant ==
    /\ op.at = "checkpoint"
    /\ ckpt' = IF CheckpointIndexes(op.from, op.to) = {} THEN ckpt ELSE next
    /\ op' = Idle
    /\ UNCHANGED <<seg, com, store, next, commit, kills>>

SaveCheckpoint ==
    /\ op.at = "checkpoint"
    /\ ckpt' = Checkpointed(op.from, op.to)
    /\ op' = Idle
    /\ UNCHANGED <<seg, com, store, next, commit, kills>>

-----------------------------------------------------------------------------
\* Replicated writes (apply_raft_append_entries_with_response).

\* Truncation without the fence.
ReplicateMutant(n, v) ==
    /\ op = Idle /\ n \in 1..MaxIndex /\ n <= next /\ v \in Unused
    /\ op' = IF n \in DOMAIN seg
             THEN [Doing("truncate", "tmp", n, n) EXCEPT !.val = v]
             ELSE [Doing("append", "append", n, n) EXCEPT !.val = v]
    /\ UNCHANGED <<seg, com, ckpt, store, next, commit, kills>>

\* A leader's entry for index n.  A duplicate is skipped; one that continues
\* the log is appended and synced; one that differs is fenced by the commit
\* index, or the WAL is cut there first.
Replicate(n, v) ==
    /\ op = Idle /\ n \in 1..MaxIndex /\ n <= next /\ v \in Unused
    /\ IF n \in DOMAIN seg
       THEN n > commit /\ op' = [Doing("truncate", "tmp", n, n) EXCEPT !.val = v]
       ELSE n = next /\ op' = [Doing("append", "append", n, n) EXCEPT !.val = v]
    /\ UNCHANGED <<seg, com, ckpt, store, next, commit, kills>>

\* truncate_from, first rename: segments becomes segments.old.  The copy of
\* the retained records is complete and synced by now.
RenameOld ==
    /\ op.kind = "truncate" /\ op.at = "tmp"
    /\ op' = [op EXCEPT !.at = "swap"]
    /\ UNCHANGED <<seg, com, ckpt, store, next, commit, kills>>

\* Second rename: the copy becomes segments; the old directory goes.
RenameNew ==
    /\ op.kind = "truncate" /\ op.at = "swap"
    /\ seg' = Restrict1(seg, 1..(op.from - 1))
    /\ next' = op.from
    /\ op' = [op EXCEPT !.kind = "append", !.at = "append"]
    /\ UNCHANGED <<com, ckpt, store, commit, kills>>

\* append_replicated_entries: the record is appended and its segment synced.
AppendReplicated ==
    /\ op.at = "append"
    /\ seg' = Put(seg, op.from, op.val)
    /\ next' = LargerOf(next, op.from + 1)
    /\ op' = Idle
    /\ UNCHANGED <<com, ckpt, store, commit, kills>>

\* commit_and_apply_shards_through: the leader's commit index, as far as the
\* WAL goes without a gap, in one batch.
CommitThrough(c) ==
    /\ op = Idle /\ c > commit /\ (commit + 1)..c \subseteq DOMAIN seg
    /\ op' = Doing("follow", "save", commit + 1, c)
    /\ UNCHANGED <<seg, com, ckpt, store, next, commit, kills>>

-----------------------------------------------------------------------------
\* The process is killed.  Between the renames there is no segments directory,
\* and open will create an empty one.
Kill ==
    /\ op # Down /\ kills < MaxKills
    /\ op.at = "swap" => KillInRename
    /\ kills' = kills + 1
    /\ op' = Down
    /\ seg' = IF op.at = "swap" THEN Restrict1(seg, {}) ELSE seg
    /\ UNCHANGED <<com, ckpt, store, next, commit>>

\* Neo4rDatabase::open: next_log_indexes start at 1, commit_indexes come from
\* commit.bin.
Open ==
    /\ op = Down
    /\ next' = 1 /\ commit' = com
    /\ op' = Doing("replay", "entry", ckpt + 1, 0)
    /\ UNCHANGED <<seg, com, ckpt, store, kills>>

ToReplay == {i \in DOMAIN seg : i >= op.from}

\* A replay that applies every record it finds.
ReplayEntryMutant ==
    /\ op.kind = "replay" /\ ToReplay # {}
    /\ \E i \in ToReplay :
          /\ \A j \in ToReplay : i <= j
          /\ next' = LargerOf(next, i + 1)
          /\ store' = store \cup {seg[i]}
          /\ ckpt' = Checkpointed(i, i)
          /\ op' = Doing("replay", "entry", i + 1, 0)
    /\ UNCHANGED <<seg, com, commit, kills>>

\* replay_logs, one record: committed ones are applied, with their checkpoint,
\* the others only move next_log_index.
ReplayEntry ==
    /\ op.kind = "replay" /\ ToReplay # {}
    /\ \E i \in ToReplay :
          /\ \A j \in ToReplay : i <= j
          /\ next' = LargerOf(next, i + 1)
          /\ IF i <= commit
             THEN store' = store \cup {seg[i]} /\ ckpt' = Checkpointed(i, i)
             ELSE UNCHANGED <<store, ckpt>>
          /\ op' = Doing("replay", "entry", i + 1, 0)
    /\ UNCHANGED <<seg, com, commit, kills>>

\* An open that takes next_log_index from the replayed records alone.
OpenDoneMutant ==
    /\ op.kind = "replay" /\ ToReplay = {}
    /\ op' = Idle
    /\ UNCHANGED <<seg, com, ckpt, store, next, commit, kills>>

\* The end of open: recover_allocators_from_store raises next_log_index over
\* the checkpoint.
OpenDone ==
    /\ op.kind = "replay" /\ ToReplay = {}
    /\ next' = LargerOf(next, ckpt + 1)
    /\ op' = Idle
    /\ UNCHANGED <<seg, com, ckpt, store, commit, kills>>

Step == GiveUp \/ Published \/ SaveCommit \/ Apply \/ SaveCheckpoint
            \/ RenameOld \/ RenameNew \/ AppendReplicated

Next ==
    \/ \E v \in Value : WriteCommand(v)
    \/ \E v \in Value : PrepareWrite(v)
    \/ GiveUp \/ Published \/ SaveCommit \/ Apply \/ SaveCheckpoint
    \/ \E n \in 1..MaxIndex, v \in Value : Replicate(n, v)
    \/ RenameOld \/ RenameNew \/ AppendReplicated
    \/ \E c \in 1..MaxIndex : CommitThrough(c)
    \/ Kill \/ Open \/ ReplayEntry \/ OpenDone

\* A call that holds the mutex runs to its end, and the process is started
\* again after a kill and gets through replay.
Fairness == WF_vars(Step) /\ WF_vars(Open) /\ WF_vars(ReplayEntry) /\ WF_vars(OpenDone)

Spec == Init /\ [][Next]_vars /\ Fairness

-----------------------------------------------------------------------------
\* Log indexes, commands and operations stay within their sets.
TypeOK ==
    /\ DOMAIN seg \subseteq 1..MaxIndex /\ {seg[i] : i \in DOMAIN seg} \subseteq Value
    /\ {com, ckpt, next, commit, kills} \subseteq Nat
    /\ store \subseteq Value
    /\ op.kind \in {"idle", "down", "single", "batch", "follow", "truncate", "append",
                   "replay"}

CommittedValues(n) == {seg[i] : i \in DOMAIN seg \cap 1..n}

\* Apply fence: the graph store never holds a command that the commit index
\* on disk does not cover, at any point of any write path or of replay.
ApplyFence == store \subseteq CommittedValues(com)

\* Recovery loses nothing and repeats nothing wrong: whenever no operation is
\* under way, the graph store holds exactly the committed part of the WAL.
StoreIsCommitted == op = Idle => store = CommittedValues(commit)

\* The checkpoint never runs ahead of the store, so replay may start after it.
CheckpointApplied == CommittedValues(ckpt) \subseteq store

\* At every point of every write path and of replay, the store lies between
\* the two indexes on disk: it holds all that the checkpoint covers and
\* nothing that the commit index does not.
StoreWithinIndexes == ApplyFence /\ CheckpointApplied

\* The WAL holds every record its commit index covers.
WalHoldsCommitted == 1..com \subseteq DOMAIN seg

\* A killed server comes back with room for the next write right above its
\* log: it ends replay ready, its next index above its commit index.
RecoversReady == op = Down ~> (op = Idle /\ next > commit)
=============================================================================
