------------------------- MODULE ShardStorageProofs -------------------------
(***************************************************************************)
(* Crash safety of one server's files, for every set of commands, every    *)
(* batch size, checkpoint interval and number of kills.                    *)
(*                                                                         *)
(* DiskInv says what the WAL and the index files hold at every point of    *)
(* every operation; it needs only that no kill hits between the renames of *)
(* truncate_from.  StoreInv says what the graph store holds at each step   *)
(* of an operation, relative to the commit index; it also needs that       *)
(* fail_after_commit_before_apply is off.                                  *)
(***************************************************************************)
EXTENDS ShardStorage, WellFoundedInduction, TLAPS

OpType ==
    op \in [kind : {"idle", "down", "single", "batch", "follow", "truncate", "append",
                    "replay"},
            at : {"start", "publish", "save", "apply", "checkpoint", "tmp", "swap",
                  "append", "entry"},
            from : Nat, to : Nat, val : Value \cup {None}]

\* The WAL has no gaps and the commit index in memory is the one on disk.
FilesInv ==
    /\ DOMAIN seg \subseteq 1..MaxIndex
    /\ \A i \in DOMAIN seg : seg[i] \in Value
    /\ \A i \in DOMAIN seg : \A j \in 1..i : j \in DOMAIN seg
    /\ com \in Nat /\ ckpt \in Nat /\ next \in Nat /\ kills \in Nat
    /\ commit = com /\ ckpt <= com
    /\ \A i \in 1..com : i \in DOMAIN seg

\* While the process runs, the next index is right above the WAL; while it
\* replays, above the records it has read and the checkpoint.
NextInv ==
    /\ next >= 1
    /\ op.kind \notin {"down", "replay"} => DOMAIN seg = 1..(next - 1)
    /\ op.kind = "replay" =>
          /\ op.from > ckpt
          /\ \A i \in 1..(next - 1) : i \in DOMAIN seg
          /\ \A i \in DOMAIN seg : i < op.from => i < next \/ i <= ckpt

\* What each step of an operation knows about its indexes.
StepInv ==
    /\ op.at = "start" <=> op.kind \in {"idle", "down"}
    /\ op.at = "entry" <=> op.kind = "replay"
    /\ op.at \in {"tmp", "swap"} <=> op.kind = "truncate"
    /\ op.at = "append" <=> op.kind = "append"
    /\ op.kind = "idle" => op = Idle
    /\ op.kind = "down" => op = Down
    /\ op.at = "publish" => op.from > com /\ op.from <= op.to /\ op.to = next - 1
    /\ op.at = "save" => op.from = com + 1 /\ op.from <= op.to /\ op.to \in DOMAIN seg
    /\ op.at \in {"apply", "checkpoint"} => op.from >= 1 /\ op.from <= op.to /\ op.to = com
    /\ op.at \in {"tmp", "swap"} => op.from > com /\ op.from \in DOMAIN seg /\ op.val \in Value
    /\ op.at = "append" => op.from = next /\ op.from \in 1..MaxIndex /\ op.val \in Value

DiskInv == OpType /\ FilesInv /\ NextInv /\ StepInv

\* The store holds all committed commands, except those of a batch that is
\* committed and not yet applied, and those a re-opened server has not yet
\* replayed.
Holds(n) == \A i \in DOMAIN seg : i <= n => seg[i] \in store
Fenced(n) == \A v \in store : \E i \in DOMAIN seg : i <= n /\ seg[i] = v

StoreInv ==
    /\ Fenced(com)
    /\ Holds(ckpt)
    /\ op.kind \notin {"down", "replay"} /\ op.at # "apply" => Holds(com)
    /\ op.at = "apply" => Holds(op.from - 1)
    /\ op.kind = "replay" =>
          \A i \in DOMAIN seg : i < op.from /\ i <= com => seg[i] \in store
-----------------------------------------------------------------------------
\* What the helpers return: adding a record, cutting the WAL, the larger of
\* two indexes, and the checkpoint a batch leaves.
LEMMA PutFact ==
    ASSUME NEW f, NEW i, NEW v
    PROVE  /\ DOMAIN Put(f, i, v) = DOMAIN f \cup {i}
           /\ Put(f, i, v)[i] = v
           /\ \A j \in DOMAIN f : j # i => Put(f, i, v)[j] = f[j]
BY DEF Put

\* Restrict1 keeps the records of S and no others.
LEMMA RestrictFact ==
    ASSUME NEW f, NEW S
    PROVE  /\ DOMAIN Restrict1(f, S) = DOMAIN f \cap S
           /\ \A j \in DOMAIN f \cap S : Restrict1(f, S)[j] = f[j]
BY DEF Restrict1

\* Adding a record right above the log, and cutting the log at a record.
LEMMA GrowFact ==
    ASSUME NEW f, NEW n \in Nat, n >= 1, DOMAIN f = 1..(n - 1), NEW v \in Value,
           \A i \in DOMAIN f : f[i] \in Value
    PROVE  /\ DOMAIN Put(f, n, v) = 1..n
           /\ \A i \in 1..n : Put(f, n, v)[i] \in Value
           /\ \A i \in 1..(n - 1) : Put(f, n, v)[i] = f[i]
<1>1. (1..(n - 1)) \cup {n} = 1..n
    OBVIOUS
<1>2. DOMAIN Put(f, n, v) = 1..n
    BY ZenonT(60), <1>1, PutFact
<1>3. \A i \in 1..(n - 1) : i # n
    OBVIOUS
<1>4. \A i \in 1..(n - 1) : Put(f, n, v)[i] = f[i]
    BY <1>3 DEF Put
<1>5. \A i \in 1..n : i = n \/ i \in 1..(n - 1)
    OBVIOUS
<1>6. \A i \in 1..n : Put(f, n, v)[i] \in Value
    <2>1. Put(f, n, v)[n] = v
        BY DEF Put
    <2> QED
        BY <1>4, <1>5, <2>1
<1> QED
    BY <1>2, <1>4, <1>6

\* A log cut at k keeps the records below k.
LEMMA CutFact ==
    ASSUME NEW f, NEW n \in Nat, DOMAIN f = 1..(n - 1), NEW k \in 1..(n - 1)
    PROVE  /\ DOMAIN Restrict1(f, 1..(k - 1)) = 1..(k - 1)
           /\ \A i \in 1..(k - 1) : Restrict1(f, 1..(k - 1))[i] = f[i]
<1>1. (1..(n - 1)) \cap (1..(k - 1)) = 1..(k - 1)
    OBVIOUS
<1> QED
    BY <1>1, RestrictFact

\* LargerOf is the maximum of two indexes.
LEMMA LargerFact ==
    ASSUME NEW a \in Nat, NEW b \in Nat
    PROVE  /\ LargerOf(a, b) \in Nat /\ LargerOf(a, b) >= a /\ LargerOf(a, b) >= b
           /\ LargerOf(a, b) \in {a, b}
BY DEF LargerOf

\* A non-empty set of indexes bounded by b has a largest member: the one whose
\* distance from b is least.
LEMMA HighestFact ==
    ASSUME NEW a \in Nat, NEW b \in Nat, NEW S \in SUBSET (a..b), S # {}
    PROVE  Highest(S) \in S /\ \A j \in S : j <= Highest(S)
<1> DEFINE R == {p \in Nat \X Nat : p[1] < p[2]}
           D == {d \in Nat : b - d \in S}
<1>0. R = OpToRel(<, Nat)
    BY DEF OpToRel
<1>1. IsWellFoundedOn(R, Nat)
    BY <1>0, NatLessThanWellFounded
<1>2. PICK s \in S : TRUE
    OBVIOUS
<1>3. b - s \in D
    BY <1>2
<1>4. D \subseteq Nat /\ D # {}
    BY <1>3
<1> HIDE DEF R, D
<1>5. PICK d \in D : \A y \in D : ~(<<y, d>> \in R)
    BY <1>1, <1>4, WFMin
<1>6. ASSUME NEW j \in S PROVE j <= b - d
    <2>1. j \in Int /\ j <= b /\ a <= j
        OBVIOUS
    <2>2. b - (b - j) = j /\ b - j \in Nat
        BY <2>1
    <2>3. b - j \in D
        BY <2>2 DEF D
    <2>4. <<b - j, d>> \in Nat \X Nat
        BY <2>2, <1>4
    <2>5. ~(<<b - j, d>>[1] < <<b - j, d>>[2])
        BY <1>5, <2>3, <2>4 DEF R
    <2>6. d \in Nat
        BY <1>4
    <2> QED
        BY <2>1, <2>2, <2>5, <2>6
<1>7. b - d \in S /\ b - d \in Int
    BY DEF D
<1>8. \E i \in S : \A j \in S : j <= i
    BY <1>6, <1>7
<1> QED
    BY <1>8 DEF Highest
\* A batch leaves the checkpoint alone or moves it to one of its own indexes.
LEMMA CheckpointedFact ==
    ASSUME NEW a \in Nat, NEW b \in Nat
    PROVE  Checkpointed(a, b) = ckpt \/ Checkpointed(a, b) \in a..b
<1>1. CheckpointIndexes(a, b) \in SUBSET (a..b)
    BY DEF CheckpointIndexes
<1>2. CASE CheckpointIndexes(a, b) = {}
    BY <1>2 DEF Checkpointed
<1>3. CASE CheckpointIndexes(a, b) # {}
    <2>1. Highest(CheckpointIndexes(a, b)) \in CheckpointIndexes(a, b)
        BY <1>1, <1>3, HighestFact
    <2>2. Checkpointed(a, b) = Highest(CheckpointIndexes(a, b))
        BY <1>3 DEF Checkpointed
    <2> QED
        BY <1>1, <2>1, <2>2
<1> QED
    BY <1>2, <1>3

-----------------------------------------------------------------------------
\* The files are right from the start.
LEMMA InitDisk == Init => DiskInv
BY StorageAssumption
   DEF Init, DiskInv, OpType, FilesInv, NextInv, StepInv, Idle, Down, Doing

\* Steps that only move an operation on leave the files as they are.
LEMMA WaitingDisk ==
    ASSUME DiskInv, GiveUp \/ Published \/ RenameOld \/ (\E c \in 1..MaxIndex : CommitThrough(c))
    PROVE  DiskInv'
<1> USE DEF DiskInv, OpType, FilesInv, NextInv, StepInv, Idle, Down, Doing
<1>1. CASE GiveUp
    BY <1>1 DEF GiveUp
<1>2. CASE Published
    BY <1>2 DEF Published
<1>3. CASE RenameOld
    BY <1>3 DEF RenameOld
<1>4. CASE \E c \in 1..MaxIndex : CommitThrough(c)
    BY <1>4 DEF CommitThrough
<1> QED
    BY <1>1, <1>2, <1>3, <1>4

\* A local record goes right above the log, so the commit index stays covered.
LEMMA WriteDisk ==
    ASSUME DiskInv, NEW v \in Value, WriteCommand(v) \/ PrepareWrite(v)
    PROVE  DiskInv'
<1>1. /\ seg' = Put(seg, next, v) /\ next' = next + 1 /\ next <= MaxIndex
      /\ UNCHANGED <<com, ckpt, store, commit, kills>>
    BY DEF WriteCommand, PrepareWrite
<1>2. op.kind \notin {"down", "replay"}
    BY DEF WriteCommand, PrepareWrite, Idle, Doing
<1>3. DOMAIN seg = 1..(next - 1) /\ next \in Nat /\ next >= 1 /\ com < next
    BY <1>2 DEF DiskInv, FilesInv, NextInv
<1>4. DOMAIN seg' = 1..next /\ \A i \in 1..next : seg'[i] \in Value
    BY <1>1, <1>3, GrowFact DEF DiskInv, FilesInv
<1>5. FilesInv'
    BY <1>1, <1>3, <1>4, StorageAssumption DEF DiskInv, FilesInv
<1>6. OpType' /\ StepInv' /\ op'.kind \in {"single", "batch"}
    <2>1. PICK k \in {"single", "batch"}, m \in Nat :
              op' = Doing(k, "publish", m, next) /\ com < m /\ m <= next
        <3>1. CASE WriteCommand(v)
            BY <3>1, <1>3 DEF WriteCommand
        <3>2. CASE PrepareWrite(v) /\ op = Idle
            BY <3>2, <1>3 DEF PrepareWrite
        <3>3. CASE PrepareWrite(v) /\ op # Idle
            <4>1. op.at = "publish" /\ op' = Doing("batch", "publish", op.from, next)
                BY <3>3 DEF PrepareWrite
            <4>2. op.from \in Nat /\ com < op.from /\ op.from <= next
                BY <4>1, <1>3 DEF DiskInv, OpType, StepInv
            <4> QED
                BY <4>1, <4>2
        <3> QED
            BY <3>1, <3>2, <3>3
    <2> QED
        BY <1>1, <1>3, <2>1 DEF OpType, StepInv, Doing, Idle, Down
<1>7. NextInv'
    BY <1>1, <1>3, <1>4, <1>6 DEF NextInv
<1> QED
    BY <1>5, <1>6, <1>7 DEF DiskInv

\* Committing and applying: the indexes move within the WAL.
LEMMA CommitDisk ==
    ASSUME DiskInv, SaveCommit \/ Apply \/ SaveCheckpoint
    PROVE  DiskInv'
<1> USE DEF DiskInv, OpType, FilesInv, NextInv, StepInv
<1>1. CASE SaveCommit
    <2>1. op.to \in DOMAIN seg /\ op.to \in Nat /\ op.from \in Nat /\ op.from = com + 1 /\ op.from <= op.to
        BY <1>1 DEF SaveCommit
    <2>2. \A i \in 1..op.to : i \in DOMAIN seg
        BY <2>1
    <2>3. /\ com' = op.to /\ commit' = op.to /\ UNCHANGED <<seg, ckpt, next, kills>>
          /\ op' = Doing(op.kind, "apply", op.from, op.to) /\ op.at = "save"
        BY <1>1 DEF SaveCommit
    <2>4. FilesInv'
        BY <2>1, <2>2, <2>3
    <2>5. OpType' /\ StepInv'
        BY <2>1, <2>3 DEF Idle, Down, Doing
    <2>6. NextInv'
        BY <2>3 DEF Doing
    <2> QED
        BY <2>4, <2>5, <2>6
<1>2. CASE Apply
    <2>1. op.to + 1 \in Nat /\ next \in Nat /\ op.to + 1 <= next
        <3>1. op.to = com /\ op.to \in 1..com /\ DOMAIN seg = 1..(next - 1)
            BY <1>2 DEF Apply
        <3>2. op.to \in 1..(next - 1)
            BY <3>1
        <3> QED
            BY <3>1, <3>2
    <2>2. LargerOf(next, op.to + 1) = next
        BY <2>1 DEF LargerOf
    <2> QED
        BY <1>2, <2>2 DEF Apply, Idle, Down, Doing
<1>3. CASE SaveCheckpoint
    <2>1. ckpt' = ckpt \/ ckpt' \in op.from..op.to
        BY <1>3, CheckpointedFact DEF SaveCheckpoint
    <2> QED
        BY <1>3, <2>1 DEF SaveCheckpoint, Idle, Down, Doing
<1> QED
    BY <1>1, <1>2, <1>3

\* A leader's entry is fenced by the commit index, cut and appended above it.
LEMMA ReplicateDisk ==
    ASSUME DiskInv,
           RenameNew \/ AppendReplicated \/ (\E n \in 1..MaxIndex, v \in Value : Replicate(n, v))
    PROVE  DiskInv'
<1> USE DEF DiskInv, OpType, FilesInv, NextInv, StepInv
<1>1. CASE RenameNew
    <2>1. /\ op.from \in Nat /\ op.from > com /\ op.from \in DOMAIN seg
          /\ DOMAIN seg = 1..(next - 1) /\ next \in Nat
        BY <1>1 DEF RenameNew
    <2>2. DOMAIN seg' = 1..(op.from - 1) /\ \A i \in 1..(op.from - 1) : seg'[i] = seg[i]
        BY <1>1, <2>1, CutFact DEF RenameNew
    <2>3. /\ UNCHANGED <<com, ckpt, commit, kills>> /\ next' = op.from
          /\ op' = [op EXCEPT !.kind = "append", !.at = "append"]
          /\ op.at = "swap" /\ op.kind = "truncate"
        BY <1>1 DEF RenameNew
    <2>4. FilesInv'
        BY <2>1, <2>2, <2>3
    <2>5. op.from \in 1..MaxIndex /\ op.val \in Value
        BY <2>1, <2>3
    <2>6. OpType' /\ StepInv' /\ op'.kind = "append"
        BY <2>1, <2>3, <2>5 DEF Idle, Down, Doing
    <2>7. NextInv'
        BY <2>1, <2>2, <2>3, <2>6
    <2> QED
        BY <2>4, <2>6, <2>7
<1>2. CASE AppendReplicated
    <2>1. /\ op.from = next /\ op.from \in 1..MaxIndex /\ op.val \in Value
          /\ DOMAIN seg = 1..(next - 1) /\ next \in Nat
        BY <1>2 DEF AppendReplicated
    <2>2. DOMAIN seg' = 1..next /\ \A i \in DOMAIN seg' : seg'[i] \in Value
        BY <1>2, <2>1, GrowFact DEF AppendReplicated
    <2>3. next' = next + 1
        BY <1>2, <2>1 DEF AppendReplicated, LargerOf
    <2> QED
        BY <1>2, <2>1, <2>2, <2>3, StorageAssumption DEF AppendReplicated, Idle, Down, Doing
<1>3. CASE \E n \in 1..MaxIndex, v \in Value : Replicate(n, v)
    BY <1>3 DEF Replicate, Idle, Down, Doing
<1> QED
    BY <1>1, <1>2, <1>3

\* A kill outside the renames loses nothing on disk, and replay ends with the
\* next index right above the log.
LEMMA RestartDisk ==
    ASSUME DiskInv, ~KillInRename, Kill \/ Open \/ ReplayEntry \/ OpenDone
    PROVE  DiskInv'
<1> USE DEF DiskInv, OpType, FilesInv, NextInv, StepInv
<1>1. CASE Kill
    BY <1>1 DEF Kill, Idle, Down, Doing
<1>2. CASE Open
    BY <1>2 DEF Open, Idle, Down, Doing
<1>3. CASE ReplayEntry
    <2>1. PICK i \in ToReplay :
              /\ \A j \in ToReplay : i <= j
              /\ next' = LargerOf(next, i + 1)
              /\ IF i <= commit
                 THEN store' = store \cup {seg[i]} /\ ckpt' = Checkpointed(i, i)
                 ELSE UNCHANGED <<store, ckpt>>
              /\ op' = Doing("replay", "entry", i + 1, 0)
        BY <1>3 DEF ReplayEntry
    <2>2. i \in DOMAIN seg /\ i \in Nat /\ i >= op.from /\ i + 1 \in Nat
        BY <2>1 DEF ToReplay
    <2>3. next' = next \/ next' = i + 1
        BY <2>1, <2>2 DEF LargerOf
    <2>4. next' >= next /\ next' >= i + 1 /\ next' \in Nat
        BY <2>1, <2>2 DEF LargerOf
    <2>5. ckpt' = ckpt \/ (ckpt' = i /\ i <= commit)
        BY <2>1, <2>2, CheckpointedFact
    <2>6. UNCHANGED <<seg, com, commit, kills>> /\ op.kind = "replay"
        BY <1>3 DEF ReplayEntry
    <2>7. FilesInv'
        BY <2>2, <2>4, <2>5, <2>6
    <2>8. OpType' /\ StepInv' /\ op'.kind = "replay" /\ op'.from = i + 1
        BY <2>1, <2>2 DEF Doing, Idle, Down
    <2>9. op'.from > ckpt'
        BY <2>2, <2>5, <2>6, <2>8
    <2>10. \A j \in 1..(next' - 1) : j \in DOMAIN seg'
        BY <2>2, <2>3, <2>6
    <2>11. ASSUME NEW j \in DOMAIN seg', j < op'.from PROVE j < next'
        <3>1. j <= i /\ j \in Nat
            BY <2>11, <2>2, <2>6, <2>8
        <3> QED
            BY <3>1, <2>2, <2>4
    <2>12. NextInv'
        <3>1. next' >= 1
            BY <2>4
        <3> QED
            BY <3>1, <2>8, <2>9, <2>10, <2>11
    <2> QED
        BY <2>7, <2>8, <2>12
<1>4. CASE OpenDone
    <2>1. UNCHANGED <<seg, com, ckpt, commit, kills>> /\ op.kind = "replay" /\ op' = Idle
        BY <1>4 DEF OpenDone
    <2>2. next' >= next /\ next' >= ckpt + 1 /\ next' \in Nat /\ next' \in {next, ckpt + 1}
        BY <1>4, LargerFact DEF OpenDone
    <2>3. \A i \in DOMAIN seg : i < op.from
        BY <1>4 DEF OpenDone, ToReplay
    <2>4. DOMAIN seg = 1..(next' - 1)
        <3>1. ASSUME NEW i \in DOMAIN seg PROVE i \in 1..(next' - 1)
            BY <2>1, <2>2, <2>3
        <3>2. ASSUME NEW i \in 1..(next' - 1) PROVE i \in DOMAIN seg
            <4>1. CASE next' = next
                BY <4>1, <2>1
            <4>2. CASE next' = ckpt + 1
                BY <4>2, <2>1
            <4> QED
                BY <4>1, <4>2, <2>2
        <3> QED
            BY <3>1, <3>2
    <2>5. FilesInv'
        BY <2>1, <2>2
    <2>6. OpType' /\ StepInv'
        BY <2>1 DEF Idle, Down, Doing
    <2>7. NextInv'
        BY <2>1, <2>2, <2>4 DEF Idle, Doing
    <2> QED
        BY <2>5, <2>6, <2>7
<1> QED
    BY <1>1, <1>2, <1>3, <1>4

\* DiskInv is inductive when kills spare the renames of truncate_from.
LEMMA DiskStep ==
    ASSUME DiskInv, ~KillInRename, [Next]_vars
    PROVE  DiskInv'
<1>1. CASE UNCHANGED vars
    BY <1>1 DEF vars, DiskInv, OpType, FilesInv, NextInv, StepInv
<1> QED
    BY <1>1, WaitingDisk, WriteDisk, CommitDisk, ReplicateDisk, RestartDisk DEF Next

\* The WAL and the indexes hold together at every point of every operation.
THEOREM DiskSafety ==
    ASSUME ~KillInRename
    PROVE  Spec => []DiskInv
<1>1. DiskInv /\ [Next]_vars => DiskInv'
    BY DiskStep
<1> QED
    BY InitDisk, <1>1, PTL DEF Spec

\* The WAL holds every record its commit index covers.
THEOREM WalSafety ==
    ASSUME ~KillInRename
    PROVE  Spec => []WalHoldsCommitted
<1>1. DiskInv => WalHoldsCommitted
    BY DEF DiskInv, FilesInv, WalHoldsCommitted
<1> QED
    BY DiskSafety, <1>1, PTL

\* No step moves the commit index back or changes a record below it: what a
\* server has committed survives truncation, kills and replay.
CommittedRecordsKept ==
    [][/\ com' >= com
       /\ \A i \in 1..com : i \in DOMAIN seg' /\ seg'[i] = seg[i]]_vars

\* One step of it: records are added above the log, or cut above the fence.
LEMMA KeptStep ==
    ASSUME DiskInv, ~KillInRename, Next
    PROVE  com' >= com /\ \A i \in 1..com : i \in DOMAIN seg' /\ seg'[i] = seg[i]
<1> USE DEF DiskInv, OpType, FilesInv, NextInv, StepInv
<1>1. CASE \E v \in Value : WriteCommand(v) \/ PrepareWrite(v)
    <2>1. PICK v \in Value : WriteCommand(v) \/ PrepareWrite(v)
        BY <1>1
    <2>2. seg' = Put(seg, next, v) /\ com' = com /\ op.kind \notin {"down", "replay"}
        BY <2>1 DEF WriteCommand, PrepareWrite, Idle, Doing
    <2>3. DOMAIN seg = 1..(next - 1) /\ next \in Nat /\ com < next
        BY <2>2
    <2>4. \A i \in 1..com : i \in 1..(next - 1) /\ i \in 1..next
        BY <2>3
    <2> QED
        BY <2>2, <2>3, <2>4, GrowFact
<1>2. CASE GiveUp \/ Published \/ Apply \/ SaveCheckpoint \/ RenameOld \/ Open
              \/ ReplayEntry \/ OpenDone
              \/ (\E n \in 1..MaxIndex, v \in Value : Replicate(n, v))
              \/ (\E c \in 1..MaxIndex : CommitThrough(c))
    <2>1. UNCHANGED <<seg, com>>
        BY <1>2 DEF GiveUp, Published, Apply, SaveCheckpoint, RenameOld, Open, ReplayEntry,
                    OpenDone, Replicate, CommitThrough
    <2> QED
        BY <2>1
<1>3. CASE SaveCommit
    BY <1>3 DEF SaveCommit
<1>4. CASE Kill
    BY <1>4 DEF Kill
<1>5. CASE RenameNew
    <2>1. /\ DOMAIN seg = 1..(next - 1) /\ next \in Nat /\ op.from \in 1..(next - 1)
          /\ op.from > com
        BY <1>5 DEF RenameNew
    <2>2. \A i \in 1..com : i \in 1..(op.from - 1)
        BY <2>1
    <2>3. seg' = Restrict1(seg, 1..(op.from - 1)) /\ com' = com
        BY <1>5 DEF RenameNew
    <2> QED
        BY <2>1, <2>2, <2>3, CutFact
<1>6. CASE AppendReplicated
    <2>1. /\ DOMAIN seg = 1..(next - 1) /\ next \in Nat /\ next >= 1 /\ com < next
          /\ op.val \in Value /\ op.from = next
        BY <1>6 DEF AppendReplicated
    <2>2. seg' = Put(seg, next, op.val) /\ com' = com
        BY <1>6, <2>1 DEF AppendReplicated
    <2>3. \A i \in 1..com : i \in 1..(next - 1) /\ i \in 1..next
        BY <2>1
    <2> QED
        BY <2>1, <2>2, <2>3, GrowFact
<1> QED
    BY <1>1, <1>2, <1>3, <1>4, <1>5, <1>6 DEF Next

\* Committed records are kept, as a property of every step of Spec.
THEOREM CommittedRecordsKeptTheorem ==
    ASSUME ~KillInRename
    PROVE  Spec => CommittedRecordsKept
<1>1. DiskInv /\ [Next]_vars
        => [/\ com' >= com
            /\ \A i \in 1..com : i \in DOMAIN seg' /\ seg'[i] = seg[i]]_vars
    BY KeptStep
<1> QED
    BY DiskSafety, <1>1, PTL DEF Spec, CommittedRecordsKept
-----------------------------------------------------------------------------
\* Fenced and Holds speak of records at or below the commit index, so a step
\* that keeps those and the store keeps both.
LEMMA KeptBelow ==
    ASSUME DiskInv, ~KillInRename, Next, NEW n \in Nat, n <= com
    PROVE  /\ store' = store /\ Holds(n) => \A i \in DOMAIN seg' : i <= n => seg'[i] \in store'
           /\ store' = store /\ Fenced(com)
                 => \A v \in store' : \E i \in DOMAIN seg' : i <= com /\ seg'[i] = v
<1>0. DiskInv'
    BY DiskStep
<1>1. /\ DOMAIN seg \subseteq 1..MaxIndex /\ DOMAIN seg' \subseteq 1..MaxIndex
      /\ com \in Nat /\ \A i \in 1..com : i \in DOMAIN seg
    BY <1>0 DEF DiskInv, FilesInv
<1>2. \A i \in 1..com : i \in DOMAIN seg' /\ seg'[i] = seg[i]
    BY KeptStep
<1>3. \A i \in DOMAIN seg' : i <= n => i \in 1..com
    BY <1>1
<1>4. \A i \in DOMAIN seg : i <= com => i \in 1..com
    BY <1>1
<1>5. store' = store /\ Holds(n) => \A i \in DOMAIN seg' : i <= n => seg'[i] \in store'
    BY <1>1, <1>2, <1>3 DEF Holds
<1>6. store' = store /\ Fenced(com)
         => \A v \in store' : \E i \in DOMAIN seg' : i <= com /\ seg'[i] = v
    BY <1>2, <1>4 DEF Fenced
<1> QED
    BY <1>5, <1>6

\* The empty store of a new shard satisfies it.
LEMMA InitStore == Init => StoreInv
BY DEF Init, StoreInv, Holds, Fenced, Idle, Doing

\* Steps that touch neither the store nor the index files.
LEMMA FrameStore ==
    ASSUME DiskInv, StoreInv, ~KillInRename, Next, UNCHANGED <<com, ckpt, store>>,
           op.kind \notin {"down", "replay"}, op.at # "apply", op'.at # "apply"
    PROVE  StoreInv'
<1>0. DiskInv'
    BY DiskStep
<1>1. com \in Nat /\ ckpt \in Nat /\ ckpt <= com
    BY DEF DiskInv, FilesInv
<1>2. Fenced(com) /\ Holds(com) /\ Holds(ckpt)
    BY DEF StoreInv
<1>3. /\ \A i \in DOMAIN seg' : i <= com => seg'[i] \in store'
      /\ \A i \in DOMAIN seg' : i <= ckpt => seg'[i] \in store'
      /\ \A v \in store' : \E i \in DOMAIN seg' : i <= com /\ seg'[i] = v
    BY <1>1, <1>2, KeptBelow
<1> QED
    BY <1>3 DEF StoreInv, Holds, Fenced

\* The commit index is saved over records the store does not have yet.
LEMMA SaveStore ==
    ASSUME DiskInv, StoreInv, ~KillInRename, SaveCommit
    PROVE  StoreInv'
<1>1. /\ op.from = com + 1 /\ com < op.to /\ com \in Nat /\ op.to \in Nat
      /\ com' = op.to /\ UNCHANGED <<seg, ckpt, store>>
      /\ op' = Doing(op.kind, "apply", op.from, op.to)
      /\ op.kind \notin {"down", "replay"} /\ op.at = "save"
    BY DEF SaveCommit, DiskInv, FilesInv, StepInv, OpType
<1>2. DOMAIN seg \subseteq 1..MaxIndex
    BY DEF DiskInv, FilesInv
<1>3. Fenced(com)'
    BY <1>1, <1>2 DEF StoreInv, Fenced
<1>4. Holds(com)
    BY <1>1 DEF StoreInv
<1>5. op'.from - 1 = com /\ op'.kind \notin {"down", "replay"} /\ op'.at = "apply"
    BY <1>1 DEF Doing
<1> QED
    BY <1>1, <1>3, <1>4, <1>5 DEF StoreInv, Holds

\* apply_batch catches the store up with the commit index, and the checkpoint
\* saved after it lies within the batch.
LEMMA ApplyStore ==
    ASSUME DiskInv, StoreInv, ~KillInRename, ~ApplyFaults, Apply \/ SaveCheckpoint
    PROVE  StoreInv'
<1>0. /\ DOMAIN seg \subseteq 1..MaxIndex /\ com \in Nat /\ ckpt \in Nat /\ ckpt <= com
      /\ \A i \in 1..com : i \in DOMAIN seg
    BY DEF DiskInv, FilesInv
<1>1. CASE Apply
    <2>1. /\ store' = store \cup {seg[i] : i \in op.from..op.to}
          /\ op' = Doing(op.kind, "checkpoint", op.from, op.to) /\ op.at = "apply"
          /\ UNCHANGED <<seg, com, ckpt, commit, kills>>
        BY <1>1 DEF Apply
    <2>2. op.from \in Nat /\ op.from >= 1 /\ op.to = com
        BY <2>1 DEF DiskInv, StepInv, OpType
    <2>3. Holds(com)'
        <3>1. SUFFICES ASSUME NEW i \in DOMAIN seg, i <= com PROVE seg[i] \in store'
            BY <2>1 DEF Holds
        <3>2. i \in Nat /\ (i <= op.from - 1 \/ i \in op.from..op.to)
            BY <1>0, <2>2, <3>1
        <3> QED
            BY <2>1, <3>1, <3>2 DEF StoreInv, Holds
    <2>4. Fenced(com)'
        <3>1. SUFFICES ASSUME NEW v \in store'
                       PROVE \E i \in DOMAIN seg : i <= com /\ seg[i] = v
            BY <2>1 DEF Fenced
        <3>2. \A i \in op.from..op.to : i \in DOMAIN seg /\ i <= com
            BY <1>0, <2>2
        <3> QED
            BY <2>1, <3>1, <3>2 DEF StoreInv, Fenced
    <2>5. Holds(ckpt)'
        BY <1>0, <2>1, <2>3 DEF Holds
    <2> QED
        BY <2>1, <2>3, <2>4, <2>5 DEF StoreInv, Doing, DiskInv, StepInv
<1>2. CASE SaveCheckpoint
    <2>1. /\ op' = Idle /\ op.at = "checkpoint" /\ UNCHANGED <<seg, com, store>>
          /\ ckpt' = Checkpointed(op.from, op.to)
        BY <1>2 DEF SaveCheckpoint
    <2>2. op.from \in Nat /\ op.to \in Nat /\ op.to = com /\ op.kind \notin {"down", "replay"}
        BY <2>1 DEF DiskInv, StepInv, OpType
    <2>3. ckpt' = ckpt \/ ckpt' \in op.from..op.to
        BY <2>1, <2>2, CheckpointedFact
    <2>4. ckpt' \in Nat /\ ckpt' <= com
        BY <1>0, <2>2, <2>3
    <2>5. Holds(com) /\ Fenced(com)
        BY <2>1, <2>2 DEF StoreInv
    <2>6. Holds(com)' /\ Fenced(com)'
        BY <2>1, <2>5 DEF Holds, Fenced
    <2>7. Holds(ckpt)'
        BY <1>0, <2>1, <2>4, <2>5 DEF Holds
    <2> QED
        BY <2>1, <2>6, <2>7 DEF StoreInv, Idle, Doing
<1> QED
    BY <1>1, <1>2

\* A killed server keeps what the index files promise; replay then applies the
\* committed records above the checkpoint, in order, and stops with all of
\* them applied.
LEMMA RestartStore ==
    ASSUME DiskInv, StoreInv, ~KillInRename, Kill \/ Open \/ ReplayEntry \/ OpenDone
    PROVE  StoreInv'
<1>0. /\ DOMAIN seg \subseteq 1..MaxIndex /\ com \in Nat /\ ckpt \in Nat /\ ckpt <= com
      /\ \A i \in 1..com : i \in DOMAIN seg /\ commit = com
    BY DEF DiskInv, FilesInv
<1>1. CASE Kill
    BY <1>1 DEF Kill, StoreInv, Holds, Fenced, Down, Doing
<1>2. CASE Open
    <2>1. /\ UNCHANGED <<seg, com, ckpt, store>> /\ op' = Doing("replay", "entry", ckpt + 1, 0)
        BY <1>2 DEF Open
    <2>2. op'.kind = "replay" /\ op'.at = "entry" /\ op'.from = ckpt + 1
        BY <2>1 DEF Doing
    <2>3. \A i \in DOMAIN seg : i < ckpt + 1 => i <= ckpt
        BY <1>0
    <2> QED
        BY <2>1, <2>2, <2>3 DEF StoreInv, Holds, Fenced
<1>3. CASE ReplayEntry
    <2>1. PICK i \in ToReplay :
              /\ \A j \in ToReplay : i <= j
              /\ IF i <= commit
                 THEN store' = store \cup {seg[i]} /\ ckpt' = Checkpointed(i, i)
                 ELSE UNCHANGED <<store, ckpt>>
              /\ op' = Doing("replay", "entry", i + 1, 0)
        BY <1>3 DEF ReplayEntry
    <2>2. i \in DOMAIN seg /\ i \in Nat /\ i >= op.from
        BY <1>0, <2>1 DEF ToReplay
    <2>3. UNCHANGED <<seg, com>> /\ op.kind = "replay" /\ commit = com
        BY <1>3 DEF ReplayEntry, DiskInv, FilesInv
    <2>4. op'.kind = "replay" /\ op'.at = "entry" /\ op'.from = i + 1 /\ op.from \in Nat
        BY <2>1 DEF Doing, DiskInv, OpType
    <2>5. \A j \in DOMAIN seg : j < i => j < op.from
        BY <1>0, <2>1, <2>2, <2>4 DEF ToReplay
    <2>6. ASSUME NEW j \in DOMAIN seg, j < i + 1, j <= com PROVE seg[j] \in store'
        <3>1. j = i \/ j < i
            BY <1>0, <2>2, <2>6
        <3>2. CASE j = i
            BY <2>1, <2>3, <2>6, <3>2
        <3>3. CASE j < i
            BY <2>1, <2>3, <2>5, <2>6, <3>3 DEF StoreInv
        <3> QED
            BY <3>1, <3>2, <3>3
    <2>7. Fenced(com)'
        BY <2>1, <2>2, <2>3 DEF StoreInv, Fenced
    <2>8. Holds(ckpt)'
        <3>1. CASE ckpt' = ckpt
            BY <2>1, <2>3, <3>1 DEF StoreInv, Holds
        <3>2. CASE ckpt' # ckpt
            <4>1. ckpt' = i /\ i <= com
                BY <2>1, <2>2, <2>3, <3>2, CheckpointedFact
            <4>2. \A j \in DOMAIN seg : j <= i => j < i + 1 /\ j <= com
                BY <1>0, <2>2, <4>1
            <4> QED
                BY <2>3, <2>6, <4>1, <4>2 DEF Holds
        <3> QED
            BY <3>1, <3>2
    <2> QED
        BY <2>3, <2>4, <2>6, <2>7, <2>8 DEF StoreInv
<1>4. CASE OpenDone
    <2>1. UNCHANGED <<seg, com, ckpt, store>> /\ op.kind = "replay" /\ op' = Idle
        BY <1>4 DEF OpenDone
    <2>2. \A i \in DOMAIN seg : i < op.from
        BY <1>0, <1>4 DEF OpenDone, ToReplay, DiskInv, OpType
    <2> QED
        BY <2>1, <2>2 DEF StoreInv, Holds, Fenced, Idle, Doing
<1> QED
    BY <1>1, <1>2, <1>3, <1>4

\* StoreInv is inductive relative to DiskInv.
LEMMA StoreStep ==
    ASSUME DiskInv, StoreInv, ~KillInRename, ~ApplyFaults, [Next]_vars
    PROVE  StoreInv'
<1>1. CASE UNCHANGED vars
    BY <1>1 DEF vars, StoreInv, Holds, Fenced
<1>2. CASE /\ Next
           /\ \/ \E v \in Value : WriteCommand(v) \/ PrepareWrite(v)
              \/ GiveUp \/ Published \/ RenameOld \/ RenameNew \/ AppendReplicated
              \/ \E n \in 1..MaxIndex, v \in Value : Replicate(n, v)
              \/ \E c \in 1..MaxIndex : CommitThrough(c)
    <2>1. UNCHANGED <<com, ckpt, store>>
        BY <1>2 DEF WriteCommand, PrepareWrite, GiveUp, Published, RenameOld, RenameNew,
                    AppendReplicated, Replicate, CommitThrough
    <2>2. op.kind \notin {"down", "replay"} /\ op.at # "apply" /\ op'.at # "apply"
        <3> USE DEF DiskInv, StepInv, OpType, Idle, Doing
        <3>1. CASE \E v \in Value : WriteCommand(v)
            BY <3>1 DEF WriteCommand
        <3>2. CASE \E v \in Value : PrepareWrite(v)
            BY <3>2 DEF PrepareWrite
        <3>3. CASE GiveUp \/ Published
            BY <3>3 DEF GiveUp, Published
        <3>4. CASE RenameOld \/ RenameNew
            BY <3>4 DEF RenameOld, RenameNew
        <3>5. CASE AppendReplicated
            BY <3>5 DEF AppendReplicated
        <3>6. CASE \E n \in 1..MaxIndex, v \in Value : Replicate(n, v)
            BY <3>6 DEF Replicate
        <3>7. CASE \E c \in 1..MaxIndex : CommitThrough(c)
            BY <3>7 DEF CommitThrough
        <3> QED
            BY <1>2, <3>1, <3>2, <3>3, <3>4, <3>5, <3>6, <3>7
    <2> QED
        BY <1>2, <2>1, <2>2, FrameStore
<1> QED
    BY <1>1, <1>2, SaveStore, ApplyStore, RestartStore DEF Next

\* What the store holds, at every point.
THEOREM StoreSafety ==
    ASSUME ~KillInRename, ~ApplyFaults
    PROVE  Spec => [](DiskInv /\ StoreInv)
<1>1. Init => DiskInv /\ StoreInv
    BY InitDisk, InitStore
<1>2. DiskInv /\ StoreInv /\ [Next]_vars => (DiskInv /\ StoreInv)'
    BY DiskStep, StoreStep
<1> QED
    BY <1>1, <1>2, PTL DEF Spec

\* The sets the properties compare, in terms of Fenced and Holds.
LEMMA CommittedFact ==
    ASSUME DiskInv, NEW n \in Nat
    PROVE  /\ Fenced(n) => store \subseteq CommittedValues(n)
           /\ Holds(n) => CommittedValues(n) \subseteq store
<1>1. DOMAIN seg \subseteq 1..MaxIndex
    BY DEF DiskInv, FilesInv
<1>2. \A i \in DOMAIN seg : i <= n <=> i \in DOMAIN seg \cap 1..n
    BY <1>1
<1> QED
    BY <1>2 DEF Fenced, Holds, CommittedValues

\* The store lies between the two indexes on disk.
THEOREM StoreWithinIndexesTheorem ==
    ASSUME ~KillInRename, ~ApplyFaults
    PROVE  Spec => []StoreWithinIndexes
<1>1. DiskInv /\ StoreInv => StoreWithinIndexes
    BY CommittedFact
    DEF StoreInv, DiskInv, FilesInv, StoreWithinIndexes, ApplyFence, CheckpointApplied
<1> QED
    BY StoreSafety, <1>1, PTL

\* Between operations, and so after every recovery, the store is exactly the
\* committed part of the WAL.
THEOREM StoreIsCommittedTheorem ==
    ASSUME ~KillInRename, ~ApplyFaults
    PROVE  Spec => []StoreIsCommitted
<1>1. ASSUME DiskInv, StoreInv PROVE StoreIsCommitted
    <2>1. SUFFICES ASSUME op = Idle PROVE store = CommittedValues(commit)
        BY DEF StoreIsCommitted
    <2>2. Holds(com) /\ Fenced(com)
        BY <1>1, <2>1 DEF StoreInv, Idle, Doing
    <2>3. commit = com /\ com \in Nat
        BY <1>1 DEF DiskInv, FilesInv
    <2> QED
        BY <1>1, <2>2, <2>3, CommittedFact
<1> QED
    BY StoreSafety, <1>1, PTL
=============================================================================
