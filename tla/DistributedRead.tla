--------------------------- MODULE DistributedRead ---------------------------
(***************************************************************************)
(* A read over every shard of the cluster (distributed_query.rs).  Local   *)
(* shards are read from the server's own store; for the others a remote    *)
(* cursor is opened on a query peer and pulled page by page.  The line     *)
(* protocol gathers all shards with one worker thread each and a deadline; *)
(* the native protocol chains one cursor per shard and gives the client    *)
(* pages, inside a transaction with the transaction's snapshot or staged   *)
(* writes.  Other sessions write, and replicas catch up, at any time.      *)
(***************************************************************************)
EXTENDS Naturals, FiniteSets, Sequences, SequencesExt

CONSTANTS
  DrShard,     \* shard ids, 1..n in the order cluster_status lists them
  DrServer,    \* servers; DrLocal runs the read
  DrLocal,
  DrConf,      \* the configurations a behaviour starts from
  NativePage,    \* rows a native page holds (default_page_size)
  GatherPage,  \* rows a gathering worker asks for at once
  MaxWrites    \* bound on the writes of other sessions

\* A configuration: the path of the read, the rows every shard starts with, the
\* shards a transaction has staged writes for, the placement and the query
\* peers with an address.
DrConfOK(c) ==
  /\ c.path \in {"gather", "cursor", "tx", "staged"}
  /\ \A s \in DrShard : c.rows[s] \in Nat /\ c.primary[s] \in DrServer
                       /\ c.replicas[s] \in Seq(DrServer)
ASSUME DrAssumption ==
  /\ IsFiniteSet(DrShard) /\ DrShard # {} /\ DrShard = 1..Cardinality(DrShard)
  /\ DrLocal \in DrServer
  /\ NativePage \in Nat \ {0} /\ GatherPage \in Nat \ {0} /\ MaxWrites \in Nat
  /\ \A c \in DrConf : DrConfOK(c)

VARIABLES
  drConf,    \* path, placement, query peers, preference, faults (constant)
  drCopy,    \* drCopy[n][s]: writes of shard s applied at server n
  drFirst,   \* drCopy when the read (or its transaction) began
  drPhase,   \* "idle", "open", "gather", "join", "page", "done", "failed"
  drCursor,  \* drCursor[s]: the cursor opened for shard s
  drWorker,  \* state of the worker of shard s: "start", "pull", "sent"
  drGot,     \* drGot[s]: rows the worker of shard s has pulled
  drQueue,   \* results the workers sent, oldest first
  drParts,   \* shard_rows: the shards received
  drAt,      \* shards opened, then the index of the current cursor
  drPage,    \* rows of the page being filled
  drRows     \* rows given to the client

drVars == <<drConf, drCopy, drFirst, drPhase, drCursor, drWorker, drGot, drQueue,
            drParts, drAt, drPage, drRows>>

-----------------------------------------------------------------------------
(* Rows and cursors *)

\* The rows of shard s after v writes, then the row a staged write overlays.
ShardRows(s, v) ==
  [i \in 1..(drConf.rows[s] + v) |-> <<s, v, i>>]
    \o (IF drConf.path = "staged" /\ s \in drConf.staged
        THEN << <<s, v, 0>> >> ELSE <<>>)

\* VecQueryCursor::fetch: up to n of the rows left, and whether some remain.
VecFetch(left, n) ==
  LET end == Min({n, Len(left)})
  IN [rows |-> SubSeq(left, 1, end), left |-> SubSeq(left, end + 1, Len(left)),
      more |-> Len(left) > n]

LocalCursor(rows) == [remote |-> FALSE, left |-> rows, buffered |-> <<>>, more |-> FALSE]

\* RemoteShardQueryCursor::open: RESULT_START carries the first page.
RemoteCursor(rows) ==
  LET first == VecFetch(rows, NativePage)
  IN [remote |-> TRUE, left |-> first.left, buffered |-> first.rows,
      more |-> first.more]

\* fetch_remote, and what RemoteShardQueryCursor::fetch makes of its error:
\* the rest of the shard is given up.
FetchRemote(c, n, answered) ==
  IF Len(c.buffered) >= n \/ ~c.more THEN c
  ELSE IF ~answered THEN [c EXCEPT !.more = FALSE]
  ELSE LET page == VecFetch(c.left, n - Len(c.buffered))
       IN [c EXCEPT !.buffered = @ \o page.rows, !.left = page.left,
                    !.more = page.more]

\* QueryCursor::fetch of either kind: the page's rows, the cursor after it.
FetchShardCursor(c, n, answered) ==
  IF c.remote
  THEN LET full == FetchRemote(c, n, answered)
           page == VecFetch(full.buffered, n)
       IN [rows |-> page.rows, cursor |-> [full EXCEPT !.buffered = page.left],
           more |-> page.more \/ full.more]
  ELSE LET page == VecFetch(c.left, n)
       IN [rows |-> page.rows, cursor |-> [c EXCEPT !.left = page.left],
           more |-> page.more]

-----------------------------------------------------------------------------
(* Where a shard is read *)

HasLocalCopy(s) == s \in drConf.held[DrLocal]

\* select_remote_query_target: replicas with an address first when they are
\* preferred, else the primary; {} when no address is known.
SelectRemoteQueryTarget(s) ==
  LET near == {i \in DOMAIN drConf.replicas[s] : drConf.replicas[s][i] \in drConf.peers}
  IN IF drConf.prefer = "replica" /\ near # {} THEN {drConf.replicas[s][Min(near)]}
     ELSE {drConf.primary[s]} \cap drConf.peers

\* The cursors that opening shard s may give; {} when it can only fail.  A
\* read transaction reads its local shards from its snapshot.
OpenShard(s) ==
  IF HasLocalCopy(s)
  THEN {LocalCursor(ShardRows(s, IF drConf.path = "tx" THEN drFirst[DrLocal][s]
                                 ELSE drCopy[DrLocal][s]))}
  ELSE {RemoteCursor(ShardRows(s, drCopy[n][s])) :
          n \in {m \in SelectRemoteQueryTarget(s) : s \in drConf.held[m]}}

\* The peer may be down or slow: connect_remote_peer, or the first answer, fails.
OpenMayFail(s) ==
  OpenShard(s) = {} \/ (~HasLocalCopy(s) /\ "open" \in drConf.faults)

\* Outcomes of a call to the peer while a cursor is pulled.
FetchOutcomes(c) == {TRUE} \cup (IF c.remote /\ "fetch" \in drConf.faults
                                 THEN {FALSE} ELSE {})

-----------------------------------------------------------------------------
(* The environment *)

NoCursor == LocalCursor(<<>>)

ReadInit ==
  /\ drConf \in DrConf
  /\ drCopy = [n \in DrServer |-> [s \in DrShard |-> 0]]
  /\ drFirst = drCopy
  /\ drPhase = "idle"
  /\ drCursor = [s \in DrShard |-> NoCursor]
  /\ drWorker = [s \in DrShard |-> "start"]
  /\ drGot = [s \in DrShard |-> <<>>]
  /\ drQueue = <<>>
  /\ drParts = {}
  /\ drAt = 0
  /\ drPage = <<>>
  /\ drRows = <<>>

\* Another session's write commits at the shard's primary.
OtherWrite(s) ==
  /\ drCopy[drConf.primary[s]][s] < MaxWrites
  /\ drCopy' = [drCopy EXCEPT ![drConf.primary[s]][s] = @ + 1]
  /\ UNCHANGED <<drConf, drFirst, drPhase, drCursor, drWorker, drGot, drQueue, drParts,
                 drAt, drPage, drRows>>

\* A replica applies the primary's next write.
CopyWrite(n, s) ==
  /\ s \in drConf.held[n]
  /\ drCopy[n][s] < drCopy[drConf.primary[s]][s]
  /\ drCopy' = [drCopy EXCEPT ![n][s] = @ + 1]
  /\ UNCHANGED <<drConf, drFirst, drPhase, drCursor, drWorker, drGot, drQueue, drParts,
                 drAt, drPage, drRows>>

\* The query arrives (in a transaction: BEGIN takes the snapshot).
BeginRead ==
  /\ drPhase = "idle"
  /\ drFirst' = drCopy
  /\ drPhase' = IF drConf.path = "gather" THEN "gather" ELSE "open"
  /\ UNCHANGED <<drConf, drCopy, drCursor, drWorker, drGot, drQueue, drParts, drAt,
                 drPage, drRows>>

-----------------------------------------------------------------------------
(* execute_distributed_query: one worker per shard, merged by shard id *)

\* A worker reads its local shard and sends the rows, or opens its cursor.
StartWorker(s) ==
  /\ drConf.path = "gather" /\ drPhase # "idle"
  /\ drWorker[s] = "start"
  /\ \/ \E c \in OpenShard(s) :
          IF c.remote
          THEN /\ drCursor' = [drCursor EXCEPT ![s] = c]
               /\ drWorker' = [drWorker EXCEPT ![s] = "pull"]
               /\ UNCHANGED drQueue
          ELSE /\ drWorker' = [drWorker EXCEPT ![s] = "sent"]
               /\ drQueue' = Append(drQueue, [shard |-> s, ok |-> TRUE, rows |-> c.left])
               /\ UNCHANGED drCursor
     \/ /\ OpenMayFail(s)
        /\ drWorker' = [drWorker EXCEPT ![s] = "sent"]
        /\ drQueue' = Append(drQueue, [shard |-> s, ok |-> FALSE, rows |-> <<>>])
        /\ UNCHANGED drCursor
  /\ UNCHANGED <<drConf, drCopy, drFirst, drPhase, drGot, drParts, drAt, drPage, drRows>>

\* request_remote_query_shard: pull pages until the last, then send them all.
PullWorker(s) ==
  /\ drWorker[s] = "pull"
  /\ \E answered \in FetchOutcomes(drCursor[s]) :
     \E page \in {FetchShardCursor(drCursor[s], GatherPage, answered)} :
       /\ drCursor' = [drCursor EXCEPT ![s] = page.cursor]
       /\ drGot' = [drGot EXCEPT ![s] = @ \o page.rows]
       /\ \/ page.more /\ UNCHANGED <<drWorker, drQueue>>
          \/ /\ ~page.more
             /\ drWorker' = [drWorker EXCEPT ![s] = "sent"]
             /\ drQueue' = Append(drQueue, [shard |-> s, ok |-> TRUE, rows |-> drGot'[s]])
  /\ UNCHANGED <<drConf, drCopy, drFirst, drPhase, drParts, drAt, drPage, drRows>>

\* recv_timeout: an error ends the read at once, rows are kept by shard id.
ReceivePart ==
  /\ drPhase = "gather" /\ drQueue # <<>>
  /\ drQueue' = Tail(drQueue)
  /\ IF Head(drQueue).ok
     THEN /\ drParts' = drParts \cup {Head(drQueue)}
          /\ drPhase' = IF Cardinality(drParts') = Cardinality(DrShard)
                        THEN "join" ELSE "gather"
     ELSE drPhase' = "failed" /\ UNCHANGED drParts
  /\ UNCHANGED <<drConf, drCopy, drFirst, drCursor, drWorker, drGot, drAt, drPage, drRows>>

\* The three seconds are over: the loop ends with the parts it has.
GatherDeadline ==
  /\ drPhase = "gather"
  /\ drPhase' = "join"
  /\ UNCHANGED <<drConf, drCopy, drFirst, drCursor, drWorker, drQueue, drGot,
                 drParts, drAt, drPage, drRows>>

\* The parts in the order of their shard ids (a BTreeMap's order).
MergeParts(parts) ==
  FlattenSeq([s \in DrShard |-> (CHOOSE p \in parts : p.shard = s).rows])

\* Every worker is joined; a missing shard fails the read.
JoinWorkers ==
  /\ drPhase = "join"
  /\ \A s \in DrShard : drWorker[s] = "sent"
  /\ IF Cardinality(drParts) = Cardinality(DrShard)
     THEN drPhase' = "done" /\ drRows' = MergeParts(drParts)
     ELSE drPhase' = "failed" /\ UNCHANGED drRows
  /\ UNCHANGED <<drConf, drCopy, drFirst, drCursor, drWorker, drQueue, drGot,
                 drParts, drAt, drPage>>

-----------------------------------------------------------------------------
(* The native cursors: build_distributed_query_cursor and its variants *)

\* total_rows of the chained cursor, which RESULT_START reports.
TotalRows ==
  FoldFunction(LAMBDA c, sum : sum + Len(c.left) + Len(c.buffered), 0, drCursor)

\* Shards are opened in order; the first error ends the read.
OpenNext ==
  /\ drPhase = "open" /\ drAt < Cardinality(DrShard)
  /\ \/ \E c \in OpenShard(drAt + 1) :
          /\ drCursor' = [drCursor EXCEPT ![drAt + 1] = c]
          /\ drAt' = drAt + 1
          /\ UNCHANGED drPhase
     \/ OpenMayFail(drAt + 1) /\ drPhase' = "failed" /\ UNCHANGED <<drCursor, drAt>>
  /\ UNCHANGED <<drConf, drCopy, drFirst, drWorker, drQueue, drGot, drParts,
                 drPage, drRows>>

\* validate_native_result_rows, then the cursor is stored for its session.
OpenedAll ==
  /\ drPhase = "open" /\ drAt = Cardinality(DrShard)
  /\ drPhase' = IF TotalRows > drConf.limit THEN "failed" ELSE "page"
  /\ drAt' = 1
  /\ UNCHANGED <<drConf, drCopy, drFirst, drCursor, drWorker, drQueue, drGot,
                 drParts, drPage, drRows>>

\* The current cursor is passed after every page, as if a page were a shard.
NextAtMutant(at, page) == at + 1

\* One turn of the loop of DistributedQueryCursor::fetch: the current cursor
\* fills what is left of the page, and is passed when it has no more.
NextAt(at, page) == IF page.more THEN at ELSE at + 1

FetchNext ==
  /\ drPhase = "page"
  /\ Len(drPage) < NativePage /\ drAt <= Cardinality(DrShard)
  /\ \E answered \in FetchOutcomes(drCursor[drAt]) :
     \E page \in {FetchShardCursor(drCursor[drAt], NativePage - Len(drPage), answered)} :
       /\ drPage' = drPage \o page.rows
       /\ drCursor' = [drCursor EXCEPT ![drAt] = page.cursor]
       /\ drAt' = NextAt(drAt, page)
  /\ UNCHANGED <<drConf, drCopy, drFirst, drPhase, drWorker, drQueue, drGot,
                 drParts, drRows>>

\* The page goes to the client, which fetches again while has_more is set.
GivePage ==
  /\ drPhase = "page"
  /\ Len(drPage) = NativePage \/ drAt > Cardinality(DrShard)
  /\ drRows' = drRows \o drPage
  /\ drPage' = <<>>
  /\ drPhase' = IF drAt > Cardinality(DrShard) THEN "done" ELSE "page"
  /\ UNCHANGED <<drConf, drCopy, drFirst, drCursor, drWorker, drQueue, drGot,
                 drParts, drAt>>

ReadNext ==
  \/ BeginRead
  \/ \E s \in DrShard : OtherWrite(s) \/ StartWorker(s) \/ PullWorker(s)
  \/ \E n \in DrServer, s \in DrShard : CopyWrite(n, s)
  \/ ReceivePart
  \/ GatherDeadline
  \/ JoinWorkers
  \/ OpenNext
  \/ OpenedAll
  \/ FetchNext
  \/ GivePage

ReadSpec == ReadInit /\ [][ReadNext]_drVars

-----------------------------------------------------------------------------
(* Properties *)

\* What version v of shard s the read may show: one of some copy; in a read
\* transaction the snapshot's for a local shard; and from a primary nothing
\* older than the writes committed when the read began.
MayShow(s, v) ==
  /\ drConf.path = "tx" /\ HasLocalCopy(s) => v = drFirst[DrLocal][s]
  /\ drConf.prefer = "primary" /\ ~HasLocalCopy(s) => v >= drFirst[drConf.primary[s]][s]

\* A read that ends without an error has given the client, in shard order,
\* every row of every shard, each shard at one version of its own, no matter
\* which workers finish first, which peers fail to answer the first call, when
\* the deadline fires and what is written meanwhile (policy "fail_fast" and
\* "deterministic_shard_id_order", distributed_query.rs:11-18).
ReadsAreWhole ==
  drPhase = "done" =>
    \E v \in [DrShard -> 0..MaxWrites] :
      /\ \A s \in DrShard : MayShow(s, v[s])
      /\ drRows = FlattenSeq([s \in DrShard |-> ShardRows(s, v[s])])
=============================================================================
