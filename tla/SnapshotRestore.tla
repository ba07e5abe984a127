--------------------------- MODULE SnapshotRestore --------------------------
(***************************************************************************)
(* Shard snapshots and what is rebuilt from them: snapshot_now, the local  *)
(* restore_snapshot with its system/restore.pending manifest, the          *)
(* point-in-time restore_to_timestamp, and the snapshot a follower fetches *)
(* chunk by chunk from a peer and installs.                                *)
(*                                                                         *)
(* The content of a shard is the set of ids its commands leave behind; an  *)
(* entry is [index, ts, op, id].  A call holds the database mutex for all  *)
(* its steps; a kill may fall between two durable ones.  srLogical is the  *)
(* content the calls so far promise: it is what the properties compare the *)
(* materialized store with, and no action reads it.                        *)
(***************************************************************************)
EXTENDS Naturals, Sequences, FiniteSets

CONSTANTS
    SrShard,    \* shards of the database
    SrConf,     \* configurations: [ops, every, kills]
    MaxEntry,   \* bound on the entries ever written
    PieceSize   \* ids per snapshot chunk

VARIABLES
    srConf,     \* the configuration of this behaviour
    srWal,      \* per shard: the write-ahead log
    srDisk,     \* per shard: [commit |-> commit.bin, ckpt |-> checkpoint]
    srMem,      \* per shard: [commit |-> commit_indexes, next |-> next_log_indexes]
    srStore,    \* per shard: the materialized content
    srSnap,     \* per shard: snapshot.bin
    srPending,  \* restore.pending
    srLogical,  \* per shard: the promised content
    srClock,    \* the hybrid clock: the stamp of the last entry
    srPeer,     \* the log of the peer that a follower copies
    srPeerSnap, \* the peer's snapshot.bin
    srFetch,    \* the chunks fetched so far
    srOp,       \* steps left of the running call
    srUp, srKilled

srVars == <<srConf, srWal, srDisk, srMem, srStore, srSnap, srPending, srLogical, srClock,
            srPeer, srPeerSnap, srFetch, srOp, srUp, srKilled>>

NoSnapshot == [index |-> 0, graph |-> {}]
NoPending == [shard |-> 0, index |-> 0, set |-> FALSE]
NoFetch == [index |-> 0, total |-> 0, sum |-> NoSnapshot, pieces |-> <<>>,
            active |-> FALSE, planned |-> FALSE]

-----------------------------------------------------------------------------
(* GraphState: what a sequence of entries leaves behind *)

ApplyShardCommand(graph, e) == IF e.op = "create" THEN graph \cup {e.id} ELSE graph \ {e.id}

GraphOf(entries) ==
    LET g[n \in 0..Len(entries)] ==
            IF n = 0 THEN {} ELSE ApplyShardCommand(g[n - 1], entries[n])
    IN  g[Len(entries)]

LastIndex(entries) == IF entries = <<>> THEN 0 ELSE entries[Len(entries)].index

-----------------------------------------------------------------------------
(* Steps of a call *)

Step(name, s, x) == [step |-> name, shard |-> s, arg |-> x]
SrIdle == srUp /\ srOp = <<>>
SrAt(name) == srUp /\ srOp # <<>> /\ Head(srOp).step = name
SrDone == srOp' = Tail(srOp)
Sh == Head(srOp).shard
Arg == Head(srOp).arg

ShardSeq ==
    LET order[S \in SUBSET SrShard] ==
            IF S = {} THEN <<>>
            ELSE LET m == CHOOSE m \in S : \A k \in S : m <= k
                 IN  <<m>> \o order[S \ {m}]
    IN  order[SrShard]

ForEachShard(Steps(_)) ==
    LET concat[n \in 0..Len(ShardSeq)] ==
            IF n = 0 THEN <<>> ELSE concat[n - 1] \o Steps(ShardSeq[n])
    IN  concat[Len(ShardSeq)]

(* apply_loaded_snapshot: prune the shard, then create what the snapshot   *)
(* holds; install_raft_snapshot_metadata: commit.bin, then the checkpoint, *)
(* then the indexes in memory, which never go back.                        *)
MaterializeSteps(s, snap) ==
    <<Step("prune", s, snap), Step("materialize", s, snap),
      Step("commit", s, snap.index), Step("ckpt", s, snap.index), Step("memory", s, snap.index)>>

StepPrune ==
    /\ SrAt("prune")
    /\ srStore' = [srStore EXCEPT ![Sh] = {}]
    /\ SrDone
    /\ UNCHANGED <<srConf, srWal, srDisk, srMem, srSnap, srPending, srLogical, srClock,
                   srPeer, srPeerSnap, srFetch, srUp, srKilled>>

StepMaterialize ==
    /\ SrAt("materialize")
    /\ srStore' = [srStore EXCEPT ![Sh] = @ \cup Arg.graph]
    /\ SrDone
    /\ UNCHANGED <<srConf, srWal, srDisk, srMem, srSnap, srPending, srLogical, srClock,
                   srPeer, srPeerSnap, srFetch, srUp, srKilled>>

StepCommitFile ==
    /\ SrAt("commit")
    /\ srDisk' = [srDisk EXCEPT ![Sh].commit = Arg]
    /\ SrDone
    /\ UNCHANGED <<srConf, srWal, srMem, srStore, srSnap, srPending, srLogical, srClock,
                   srPeer, srPeerSnap, srFetch, srUp, srKilled>>

StepCheckpointFile ==
    /\ SrAt("ckpt")
    /\ srDisk' = [srDisk EXCEPT ![Sh].ckpt = Arg]
    /\ SrDone
    /\ UNCHANGED <<srConf, srWal, srMem, srStore, srSnap, srPending, srLogical, srClock,
                   srPeer, srPeerSnap, srFetch, srUp, srKilled>>

Larger(a, b) == IF a >= b THEN a ELSE b

StepMemory ==
    /\ SrAt("memory")
    /\ srMem' = [srMem EXCEPT ![Sh].commit = Larger(@, Arg), ![Sh].next = Larger(@, Arg + 1)]
    /\ SrDone
    /\ UNCHANGED <<srConf, srWal, srDisk, srStore, srSnap, srPending, srLogical, srClock,
                   srPeer, srPeerSnap, srFetch, srUp, srKilled>>

(* SnapshotStore::save and save_payload: a whole file, synced and renamed. *)
StepSaveSnapshot ==
    /\ SrAt("save")
    /\ srSnap' = [srSnap EXCEPT ![Sh] = Arg]
    /\ SrDone
    /\ UNCHANGED <<srConf, srWal, srDisk, srMem, srStore, srPending, srLogical, srClock,
                   srPeer, srPeerSnap, srFetch, srUp, srKilled>>

(* From the moment the manifest is on disk the restore will happen. *)
StepManifest ==
    /\ SrAt("manifest")
    /\ srPending' = [shard |-> Sh, index |-> Arg.index, set |-> TRUE]
    /\ srLogical' = [srLogical EXCEPT ![Sh] = Arg.graph]
    /\ SrDone
    /\ UNCHANGED <<srConf, srWal, srDisk, srMem, srStore, srSnap, srClock,
                   srPeer, srPeerSnap, srFetch, srUp, srKilled>>

StepClear ==
    /\ SrAt("clear")
    /\ srPending' = NoPending
    /\ SrDone
    /\ UNCHANGED <<srConf, srWal, srDisk, srMem, srStore, srSnap, srLogical, srClock,
                   srPeer, srPeerSnap, srFetch, srUp, srKilled>>

StepTruncate ==
    /\ SrAt("truncate")
    /\ srWal' = [srWal EXCEPT ![Sh] = SelectSeq(@, LAMBDA e : e.index <= Arg)]
    /\ srMem' = [srMem EXCEPT ![Sh] = [commit |-> Arg, next |-> Arg + 1]]
    /\ SrDone
    /\ UNCHANGED <<srConf, srDisk, srStore, srSnap, srPending, srLogical, srClock,
                   srPeer, srPeerSnap, srFetch, srUp, srKilled>>

-----------------------------------------------------------------------------
(* Calls of the owner of the shards *)

Allowed(op) == op \in srConf.ops

(* One write: append, commit.bin, apply and, on the interval, checkpoint.  *)
LogAndApply(s, e) ==
    /\ srWal' = [srWal EXCEPT ![s] = Append(@, e)]
    /\ srMem' = [srMem EXCEPT ![s] = [commit |-> e.index, next |-> e.index + 1]]
    /\ srStore' = [srStore EXCEPT ![s] = ApplyShardCommand(@, e)]
    /\ srLogical' = [srLogical EXCEPT ![s] = ApplyShardCommand(@, e)]
    /\ srDisk' = [srDisk EXCEPT ![s].commit = e.index,
                                ![s].ckpt = IF e.index % srConf.every = 0 THEN e.index ELSE @]

WriteEntry(s, op, id) ==
    /\ SrIdle /\ Allowed("write") /\ srClock < MaxEntry
    /\ IF op = "create" THEN id = srClock + 1 ELSE id \in srStore[s]
    /\ LogAndApply(s, [index |-> srMem[s].next, ts |-> srClock + 1, op |-> op, id |-> id])
    /\ srClock' = srClock + 1
    /\ UNCHANGED <<srConf, srSnap, srPending, srPeer, srPeerSnap, srFetch, srOp, srUp, srKilled>>

(* snapshot_now: one snapshot per shard that has committed something. *)
SnapshotNow ==
    /\ SrIdle /\ Allowed("snapshot")
    /\ LET SaveShard(s) ==
               IF srMem[s].commit = 0 THEN <<>>
               ELSE <<Step("save", s, [index |-> srMem[s].commit, graph |-> srStore[s]])>>
       IN  srOp' = ForEachShard(SaveShard)
    /\ srOp' # <<>>
    /\ UNCHANGED <<srConf, srWal, srDisk, srMem, srStore, srSnap, srPending, srLogical, srClock,
                   srPeer, srPeerSnap, srFetch, srUp, srKilled>>

(* Mutant of RestoreSteps: the manifest is written after the shard was replaced. *)
RestoreStepsMutant(s) ==
    LET steps == MaterializeSteps(s, srSnap[s])
    IN  SubSeq(steps, 1, 2) \o <<Step("manifest", s, srSnap[s])>> \o SubSeq(steps, 3, 5)
        \o <<Step("clear", s, 0)>>

RestoreSteps(s) ==
    <<Step("manifest", s, srSnap[s])>> \o MaterializeSteps(s, srSnap[s]) \o <<Step("clear", s, 0)>>

RestoreSnapshot(s) ==
    /\ SrIdle /\ Allowed("snapshot")
    /\ srSnap[s] # NoSnapshot
    /\ srOp' = RestoreSteps(s)
    /\ UNCHANGED <<srConf, srWal, srDisk, srMem, srStore, srSnap, srPending, srLogical, srClock,
                   srPeer, srPeerSnap, srFetch, srUp, srKilled>>

(* restore_to_timestamp: shard after shard, without a manifest. *)
PitrEntries(s, t) == SelectSeq(srWal[s], LAMBDA e : e.ts <= t)

PitrSteps(s, t) ==
    LET kept == PitrEntries(s, t)
        snap == [index |-> LastIndex(kept), graph |-> GraphOf(kept)]
    IN  <<Step("prune", s, snap), Step("materialize", s, snap), Step("truncate", s, snap.index),
          Step("commit", s, snap.index), Step("ckpt", s, snap.index)>>

RestoreToTimestamp(t) ==
    /\ SrIdle /\ Allowed("pitr")
    /\ srOp' = ForEachShard(LAMBDA s : PitrSteps(s, t))
    /\ srLogical' = [s \in SrShard |-> GraphOf(PitrEntries(s, t))]
    /\ UNCHANGED <<srConf, srWal, srDisk, srMem, srStore, srSnap, srPending, srClock,
                   srPeer, srPeerSnap, srFetch, srUp, srKilled>>

-----------------------------------------------------------------------------
(* A follower of one shard: replicated entries, or a fetched snapshot *)

Followed == CHOOSE s \in SrShard : \A k \in SrShard : s <= k

PeerWrite(op, id) ==
    /\ Allowed("install") /\ Len(srPeer) < MaxEntry
    /\ IF op = "create" THEN id = Len(srPeer) + 1 ELSE id \in GraphOf(srPeer)
    /\ srPeer' = Append(srPeer, [index |-> Len(srPeer) + 1, ts |-> Len(srPeer) + 1,
                                 op |-> op, id |-> id])
    /\ UNCHANGED <<srConf, srWal, srDisk, srMem, srStore, srSnap, srPending, srLogical, srClock,
                   srPeerSnap, srFetch, srOp, srUp, srKilled>>

PeerSnapshotNow ==
    /\ Allowed("install") /\ srPeer # <<>>
    /\ srPeerSnap' = [index |-> Len(srPeer), graph |-> GraphOf(srPeer)]
    /\ srPeerSnap' # srPeerSnap
    /\ UNCHANGED <<srConf, srWal, srDisk, srMem, srStore, srSnap, srPending, srLogical, srClock,
                   srPeer, srFetch, srOp, srUp, srKilled>>

(* A catch-up plan asks for a snapshot when the follower has matched nothing; *)
(* executing it holds the follower's mutex, but between planning and executing *)
(* ("late") entries may arrive.                                                *)
PlanCatchUp ==
    /\ SrIdle /\ Allowed("install") /\ srFetch = NoFetch
    /\ srMem[Followed].commit = 0 /\ srPeer # <<>>
    /\ srFetch' = [NoFetch EXCEPT !.planned = TRUE]
    /\ UNCHANGED <<srConf, srWal, srDisk, srMem, srStore, srSnap, srPending, srLogical, srClock,
                   srPeer, srPeerSnap, srOp, srUp, srKilled>>

ReplicateEntry ==
    /\ SrIdle /\ Allowed("install")
    /\ ~srFetch.active /\ (srFetch.planned => Allowed("late"))
    /\ srMem[Followed].next <= Len(srPeer)
    /\ LogAndApply(Followed, srPeer[srMem[Followed].next])
    /\ UNCHANGED <<srConf, srSnap, srPending, srClock, srPeer, srPeerSnap, srFetch, srOp,
                   srUp, srKilled>>

(* slice_snapshot_fetch_chunk of the peer's file as it is now: the piece at *)
(* an offset, the length, the checksum and whether the piece is the last.   *)
PieceCount(snap) == 1 + (Cardinality(snap.graph) + PieceSize - 1) \div PieceSize

SliceChunk(offset) ==
    [index |-> srPeerSnap.index, total |-> PieceCount(srPeerSnap), sum |-> srPeerSnap,
     offset |-> offset, piece |-> [of |-> srPeerSnap, at |-> offset],
     done |-> offset + 1 = PieceCount(srPeerSnap)]

(* The checks of request_tcp_snapshot_fetch and of the assembler on a       *)
(* resumed chunk; the first chunk starts the fetch.                         *)
ChunkAccepted(chunk) ==
    /\ chunk.sum = srFetch.sum /\ chunk.total = srFetch.total
    /\ chunk.index = srFetch.index
    /\ chunk.offset <= Len(srFetch.pieces)

FetchFirst ==
    /\ SrIdle /\ srFetch.planned /\ ~srFetch.active
    /\ srPeerSnap # NoSnapshot
    /\ LET chunk == SliceChunk(0)
       IN  srFetch' = [index |-> chunk.index, total |-> chunk.total, sum |-> chunk.sum,
                       pieces |-> <<chunk.piece>>, active |-> TRUE, planned |-> TRUE]
    /\ UNCHANGED <<srConf, srWal, srDisk, srMem, srStore, srSnap, srPending, srLogical, srClock,
                   srPeer, srPeerSnap, srOp, srUp, srKilled>>

FetchNext ==
    /\ SrIdle /\ srFetch.active /\ Len(srFetch.pieces) < srFetch.total
    /\ \/ LET chunk == SliceChunk(Len(srFetch.pieces))
          IN  srFetch' = IF chunk.offset < PieceCount(srPeerSnap) /\ ChunkAccepted(chunk)
                         THEN [srFetch EXCEPT !.pieces = Append(@, chunk.piece)]
                         ELSE NoFetch
       \/ srFetch' = NoFetch        \* the connection fails: the fetch starts over
    /\ UNCHANGED <<srConf, srWal, srDisk, srMem, srStore, srSnap, srPending, srLogical, srClock,
                   srPeer, srPeerSnap, srOp, srUp, srKilled>>

Assembled == srFetch.active /\ Len(srFetch.pieces) = srFetch.total

(* install_raft_snapshot: RaftCore answers success to an older snapshot too; *)
(* the payload is saved, the shard replaced and the metadata advanced, with   *)
(* no manifest.                                                               *)
Install(snap) ==
    /\ srOp' = <<Step("save", Followed, snap)>> \o MaterializeSteps(Followed, snap)
    /\ srLogical' = [srLogical EXCEPT
                       ![Followed] = GraphOf(SubSeq(srPeer, 1, Larger(snap.index, srMem[Followed].commit)))]
    /\ srFetch' = NoFetch
    /\ UNCHANGED <<srConf, srWal, srDisk, srMem, srStore, srSnap, srPending, srClock,
                   srPeer, srPeerSnap, srUp, srKilled>>

InstallFetched == SrIdle /\ Assembled /\ Install(srFetch.pieces[1].of)

(* The pump sends its snapshot when the follower reports a conflict at or    *)
(* below the snapshot's index.                                               *)
PumpInstall ==
    /\ SrIdle /\ Allowed("install") /\ ~srFetch.active
    /\ srFetch.planned => Allowed("late")
    /\ srPeerSnap # NoSnapshot
    /\ srMem[Followed].next <= srPeerSnap.index
    /\ Install(srPeerSnap)

-----------------------------------------------------------------------------
(* Kills and opens *)

(* In these configurations a kill falls between calls or inside a restore  *)
(* that its manifest protects; "anywhere" lifts that.                      *)
KillAllowed == srOp = <<>> \/ srPending.set \/ SrAt("manifest") \/ "anywhere" \in srConf.ops

SrKill ==
    /\ srUp /\ srKilled < srConf.kills /\ KillAllowed
    /\ srUp' = FALSE
    /\ srOp' = <<>>
    /\ srFetch' = NoFetch
    /\ srKilled' = srKilled + 1
    /\ UNCHANGED <<srConf, srWal, srDisk, srMem, srStore, srSnap, srPending, srLogical, srClock,
                   srPeer, srPeerSnap>>

(* replay_logs: the WAL after the checkpoint, as far as commit.bin; then    *)
(* recover_pending_snapshot_restore.                                        *)
Replayed(s) ==
    LET tail == SelectSeq(srWal[s], LAMBDA e : e.index > srDisk[s].ckpt /\ e.index <= srDisk[s].commit)
        g[n \in 0..Len(tail)] ==
            IF n = 0 THEN srStore[s] ELSE ApplyShardCommand(g[n - 1], tail[n])
    IN  g[Len(tail)]

RecoverySteps ==
    IF srPending.set /\ srSnap[srPending.shard].index = srPending.index
    THEN MaterializeSteps(srPending.shard, srSnap[srPending.shard])
         \o <<Step("clear", srPending.shard, 0)>>
    ELSE <<>>

SrOpen ==
    /\ ~srUp
    /\ srUp' = TRUE
    /\ srStore' = [s \in SrShard |-> Replayed(s)]
    /\ srMem' = [s \in SrShard |->
                   [commit |-> srDisk[s].commit,
                    next |-> Larger(LastIndex(SelectSeq(srWal[s], LAMBDA e : e.index > srDisk[s].ckpt)),
                                   srDisk[s].ckpt) + 1]]
    /\ srOp' = RecoverySteps
    /\ UNCHANGED <<srConf, srWal, srDisk, srSnap, srPending, srLogical, srClock,
                   srPeer, srPeerSnap, srFetch, srKilled>>

SrInit ==
    /\ srConf \in SrConf
    /\ srWal = [s \in SrShard |-> <<>>]
    /\ srDisk = [s \in SrShard |-> [commit |-> 0, ckpt |-> 0]]
    /\ srMem = [s \in SrShard |-> [commit |-> 0, next |-> 1]]
    /\ srStore = [s \in SrShard |-> {}]
    /\ srSnap = [s \in SrShard |-> NoSnapshot]
    /\ srPending = NoPending
    /\ srLogical = srStore
    /\ srClock = 0
    /\ srPeer = <<>> /\ srPeerSnap = NoSnapshot /\ srFetch = NoFetch
    /\ srOp = <<>> /\ srUp = TRUE /\ srKilled = 0

SrStep ==
    \/ StepPrune \/ StepMaterialize \/ StepCommitFile \/ StepCheckpointFile \/ StepMemory
    \/ StepSaveSnapshot \/ StepManifest \/ StepClear \/ StepTruncate

SrNext ==
    \/ SrStep
    \/ \E s \in SrShard, op \in {"create", "delete"}, id \in 1..MaxEntry : WriteEntry(s, op, id)
    \/ SnapshotNow
    \/ \E s \in SrShard : RestoreSnapshot(s)
    \/ \E t \in 0..MaxEntry : RestoreToTimestamp(t)
    \/ \E op \in {"create", "delete"}, id \in 1..MaxEntry : PeerWrite(op, id)
    \/ PeerSnapshotNow \/ ReplicateEntry \/ PlanCatchUp \/ FetchFirst
    \/ FetchNext \/ InstallFetched \/ PumpInstall
    \/ SrKill \/ SrOpen

SrSpec == SrInit /\ [][SrNext]_srVars

-----------------------------------------------------------------------------
(* Between calls every shard's store is what the calls promised: the writes *)
(* since the last restore on top of what that restore selected, or the      *)
(* peer's history up to the commit index.  A restore interrupted by a kill  *)
(* is completed by the next open, and no restart changes a shard's content. *)
StoreMatchesHistory == SrIdle => srStore = srLogical

(* A fetched snapshot that is complete is one file of the peer from its     *)
(* first to its last piece, although the peer may replace the file between  *)
(* two chunk requests and requests may fail.                                *)
FetchedWhole ==
    Assembled => \A i, j \in 1..Len(srFetch.pieces) :
                    /\ srFetch.pieces[i].of = srFetch.pieces[j].of
                    /\ srFetch.pieces[i].at = i - 1
                    /\ Len(srFetch.pieces) = PieceCount(srFetch.pieces[i].of)

=============================================================================
