--------------------------- MODULE NativeSessions ---------------------------
(***************************************************************************)
(* The native front end of a server: the reader of each connection, the    *)
(* bounded queue and the worker threads behind it, and the stores they     *)
(* share: pending requests, cursors with their tenant permits, prepared    *)
(* queries and transactions.                                               *)
(*                                                                         *)
(* A client sends the requests of its program in order, without waiting    *)
(* for more than a window of answers; what a query computes is left out,   *)
(* its rows are a number and a write is a name.                            *)
(***************************************************************************)
EXTENDS Naturals, Sequences, FiniteSets

CONSTANTS
    NsConf,         \* instances: programs, quota, faults
    NsSession,      \* connections
    NsWorker,       \* worker threads
    QueueCapacity,  \* queue_capacity
    PageSize        \* default_page_size

VARIABLES
    nsConf,         \* the instance
    nsSession,      \* each connection: state, requests sent, its writer thread
    nsQueue,        \* jobs waiting for a worker
    nsWorker,       \* what each worker is at
    nsPending,      \* PendingRequestStore: pending and cancelled
    nsCursors,      \* CursorStore
    nsActive,       \* TenantQuota.active_queries of the database
    nsPrepared,     \* PreparedQueryStore
    nsTx,           \* TransactionStore
    nsIds,          \* the next_id of the stores
    nsStored,       \* writes the database applied
    nsHistory       \* answers, cancels, staged writes and commits so far

nsVars == <<nsConf, nsSession, nsQueue, nsWorker, nsPending, nsCursors, nsActive, nsPrepared, nsTx, nsIds, nsStored, nsHistory>>

stores == <<nsPending, nsCursors, nsActive, nsPrepared, nsTx, nsIds>>

Unlimited == 0

IdleWorker == [stage |-> "idle"]

-----------------------------------------------------------------------------
(* PendingRequestStore.                                                    *)

Register(p, k) == [pending |-> p.pending \cup {k}, cancelled |-> p.cancelled \ {k}]

CancelPendingMutant(p, k) == [p EXCEPT !.pending = @ \ {k}]

\* A cancel counts only while no worker has taken the request.
CancelPending(p, k) == IF k \in p.pending THEN [p EXCEPT !.cancelled = @ \cup {k}] ELSE p

TakeCancelled(p, k) == [pending |-> p.pending \ {k}, cancelled |-> p.cancelled \ {k}]

StartPending(p, k) == [pending |-> p.pending \ {k}, cancelled |-> p.cancelled \ {k}]

ClosePending(p, s) ==
    [pending |-> {k \in p.pending : k[1] # s}, cancelled |-> {k \in p.cancelled : k[1] # s}]

-----------------------------------------------------------------------------
(* TenantQuota.  Without a limit nothing is counted.                       *)

Admitted == nsConf.limit = Unlimited \/ nsActive < nsConf.limit

Acquire(active) == IF nsConf.limit = Unlimited THEN active ELSE active + 1

\* Dropping a permit; the count never goes below zero.
Released(active, n) == IF n > active THEN 0 ELSE active - n

RowsAllowed(n) == nsConf.rowLimit = Unlimited \/ n <= nsConf.rowLimit

-----------------------------------------------------------------------------
(* CursorStore, PreparedQueryStore and TransactionStore.                   *)

NewCursor(id, s, rows) == [id |-> id, session |-> s, left |-> rows]

Cursor(id) == {c \in nsCursors : c.id = id}

\* One page; a cursor without more rows is removed, and its permit with it.
FetchPageMutant(c) ==
    LET left == IF c.left > PageSize THEN c.left - PageSize ELSE 0 IN
    [cursors |-> IF left = 0 THEN nsCursors \ {c} ELSE (nsCursors \ {c}) \cup {[c EXCEPT !.left = left]}, active |-> nsActive]

FetchPage(c) ==
    LET left == IF c.left > PageSize THEN c.left - PageSize ELSE 0 IN
    [cursors |-> IF left = 0 THEN nsCursors \ {c} ELSE (nsCursors \ {c}) \cup {[c EXCEPT !.left = left]},
     active |-> IF left = 0 THEN Released(nsActive, 1) ELSE nsActive]

CloseSessionCursors(s) == {c \in nsCursors : c.session # s}

OwnPrepared(s, id) == {p \in nsPrepared : p.id = id /\ p.session = s}

CloseSessionPrepared(s) == {p \in nsPrepared : p.session # s}

NewTransaction(id, s, mode) == [id |-> id, session |-> s, mode |-> mode, staged |-> <<>>, epoch |-> nsConf.epoch]

\* A transaction of another session is answered as unknown.
OwnTx(s, id) == {t \in nsTx : t.id = id /\ t.session = s}

StageWriteMutant(t, w) == IF Len(t.staged) > 0 THEN t ELSE [t EXCEPT !.staged = Append(@, w)]

StageWrite(t, w) == [t EXCEPT !.staged = Append(@, w)]

\* Two updates of the same match conflict; a create never does.
Conflicts(v, w) == v.kind = "update" /\ w.kind = "update" /\ v.key = w.key

\* Only a read-write transaction takes writes, and no schema change.
CanStage(t, w) == t.mode = "write" /\ w.kind # "schema" /\ \A i \in DOMAIN t.staged : ~Conflicts(t.staged[i], w)

CloseSessionTx(s) == {t \in nsTx : t.session # s}

-----------------------------------------------------------------------------
(* Connections.  A reader thread takes frames, answers Quit and Cancel     *)
(* itself and submits the others; a writer thread sends the answers.       *)

Key(job) == <<job.session, job.req>>

Working(s) == \E w \in NsWorker : nsWorker[w].stage # "idle" /\ nsWorker[w].job.session = s

Queued(s) == \E i \in DOMAIN nsQueue : nsQueue[i].session = s

Outstanding(s) ==
    Cardinality({r \in 1..nsSession[s].sent : ~\E a \in nsHistory.answers : a.session = s /\ a.req = r})

Answer(s, r, what, n) == [session |-> s, req |-> r, what |-> what, val |-> n]

\* An answer for a connection whose writer is gone is dropped.
Answered(h, a) ==
    IF \E b \in h.answers : b.session = a.session /\ b.req = a.req
    THEN [h EXCEPT !.twice = @ \cup {<<a.session, a.req>>}, !.answers = @ \cup {a}]
    ELSE [h EXCEPT !.answers = @ \cup {a}]

\* NativeWorkerPool::submit: registered first, then queued if there is room.
Submit(s) ==
    /\ nsSession[s].state = "open"
    /\ nsSession[s].sent < Len(nsConf.programs[s]) /\ Outstanding(s) < nsConf.window
    /\ LET r == nsSession[s].sent + 1
           job == [session |-> s, req |-> r, call |-> nsConf.programs[s][r]]
           room == Len(nsQueue) < QueueCapacity
       IN  /\ nsQueue' = IF room THEN Append(nsQueue, job) ELSE nsQueue
           /\ nsPending' = IF room THEN Register(nsPending, Key(job)) ELSE StartPending(Register(nsPending, Key(job)), Key(job))
           /\ nsHistory' = IF room THEN nsHistory ELSE Answered(nsHistory, Answer(s, r, "full", 0))
           /\ nsSession' = [nsSession EXCEPT ![s].sent = r,
                                             ![s].state = IF ~room /\ nsSession[s].writer = "failed" THEN "lost" ELSE @]
    /\ UNCHANGED <<nsConf, nsWorker, nsCursors, nsActive, nsPrepared, nsTx, nsIds, nsStored>>

\* A Cancel frame, answered by the reader.
CancelPendingRequest(s) ==
    /\ nsSession[s].state = "open" /\ nsConf.cancels > 0
    /\ nsConf' = [nsConf EXCEPT !.cancels = @ - 1]
    /\ \E r \in 1..nsSession[s].sent :
         /\ nsPending' = CancelPending(nsPending, <<s, r>>)
         /\ nsHistory' = IF <<s, r>> \in nsPending.pending
                         THEN [nsHistory EXCEPT !.cancelled = @ \cup {<<s, r>>}] ELSE nsHistory
    /\ nsSession' = [nsSession EXCEPT ![s].state = IF nsSession[s].writer = "failed" THEN "lost" ELSE @]
    /\ UNCHANGED <<nsQueue, nsWorker, nsCursors, nsActive, nsPrepared, nsTx, nsIds, nsStored>>

\* Quit, or the end of the stream between two frames.
Quit(s) ==
    /\ nsSession[s].state = "open"
    /\ nsSession' = [nsSession EXCEPT ![s].state = "draining"]
    /\ UNCHANGED <<nsConf, nsQueue, nsWorker, stores, nsStored, nsHistory>>

\* A read error, or a frame that is not one: the reader returns at once.
ReadFails(s) ==
    /\ nsSession[s].state = "open" /\ nsConf.breaks > 0
    /\ nsConf' = [nsConf EXCEPT !.breaks = @ - 1]
    /\ nsSession' = [nsSession EXCEPT ![s].state = "lost"]
    /\ UNCHANGED <<nsQueue, nsWorker, stores, nsStored, nsHistory>>

\* The client is gone when an answer is written.
WriteFails(s) ==
    /\ nsSession[s].state \in {"open", "draining"} /\ nsSession[s].writer = "ok" /\ nsConf.breaks > 0
    /\ nsConf' = [nsConf EXCEPT !.breaks = @ - 1]
    /\ nsSession' = [nsSession EXCEPT ![s].writer = "failed"]
    /\ UNCHANGED <<nsQueue, nsWorker, stores, nsStored, nsHistory>>

\* The reader waits for the writer, which ends when no job can answer any
\* more; only when it ended well are the stores cleared.
Drained(s) == nsSession[s].state = "draining" /\ ~Working(s) /\ ~Queued(s)

CloseNativeSession(s) ==
    /\ Drained(s)
    /\ IF nsSession[s].writer = "ok"
       THEN /\ nsSession' = [nsSession EXCEPT ![s].state = "closed"]
            /\ nsCursors' = CloseSessionCursors(s)
            /\ nsActive' = Released(nsActive, Cardinality(nsCursors \ CloseSessionCursors(s)))
            /\ nsPrepared' = CloseSessionPrepared(s) /\ nsTx' = CloseSessionTx(s)
            /\ nsPending' = ClosePending(nsPending, s)
       ELSE /\ nsSession' = [nsSession EXCEPT ![s].state = "lost"]
            /\ UNCHANGED <<nsCursors, nsActive, nsPrepared, nsTx, nsPending>>
    /\ UNCHANGED <<nsConf, nsQueue, nsWorker, nsIds, nsStored, nsHistory>>

-----------------------------------------------------------------------------
(* Workers.                                                                *)

At(w, stage) == nsWorker[w].stage = stage

Job(w) == nsWorker[w].job

Stage(w, stage, data) == nsWorker' = [nsWorker EXCEPT ![w] = [stage |-> stage, job |-> Job(w), data |-> data]]

Reply(w, what, n) ==
    /\ nsWorker' = [nsWorker EXCEPT ![w] = IdleWorker]
    /\ nsHistory' = Answered(nsHistory, Answer(Job(w).session, Job(w).req, what, n))

\* A request that was cancelled is answered so and not executed.
TakeJob(w) ==
    /\ At(w, "idle") /\ nsQueue # <<>>
    /\ LET job == Head(nsQueue) IN
         /\ nsQueue' = Tail(nsQueue)
         /\ nsPending' = TakeCancelled(nsPending, Key(job))
         /\ IF Key(job) \in nsPending.cancelled
            THEN nsHistory' = Answered(nsHistory, Answer(job.session, job.req, "cancelled", 0)) /\ UNCHANGED nsWorker
            ELSE nsWorker' = [nsWorker EXCEPT ![w] = [stage |-> "taken", job |-> job, data |-> 0]] /\ UNCHANGED nsHistory
    /\ UNCHANGED <<nsConf, nsSession, nsCursors, nsActive, nsPrepared, nsTx, nsIds, nsStored>>

Started(w) == nsPending' = StartPending(nsPending, Key(Job(w)))

Op(w) == Job(w).call.op

\* Every query takes its permit first: Query and QueryDistributed, the shard
\* queries and writes, and reads in a transaction.
QueryOps == {"query", "txQuery", "execute"}

\* A prepared query is looked up before the permit is taken.
Executable(w) == Op(w) = "execute" => OwnPrepared(Job(w).session, Job(w).call.id) # {}

AcquireQuery(w) ==
    /\ At(w, "taken") /\ Op(w) \in QueryOps /\ Started(w)
    /\ IF Executable(w) /\ Admitted
       THEN nsActive' = Acquire(nsActive) /\ Stage(w, "permit", 0) /\ UNCHANGED nsHistory
       ELSE Reply(w, "error", 0) /\ UNCHANGED nsActive
    /\ UNCHANGED <<nsConf, nsSession, nsQueue, nsCursors, nsPrepared, nsTx, nsIds, nsStored>>

\* A read in a transaction finds it when it runs.
TxRead(w) == Op(w) = "txQuery" => OwnTx(Job(w).session, Job(w).call.id) # {}

\* The query runs, with what it writes; its rows are counted against the
\* limit only then.  An error gives the permit back.
RunQuery(w) ==
    /\ At(w, "permit")
    /\ LET call == Job(w).call
           known == TxRead(w)
       IN  /\ nsStored' = IF known /\ call.writes # <<>> THEN nsStored \o call.writes ELSE nsStored
           /\ IF known /\ RowsAllowed(call.rows)
              THEN /\ nsIds' = [nsIds EXCEPT !.cursor = @ + 1]
                   /\ nsCursors' = nsCursors \cup {NewCursor(nsIds.cursor + 1, Job(w).session, call.rows)}
                   /\ Stage(w, "cursor", nsIds.cursor + 1)
                   /\ UNCHANGED <<nsActive, nsHistory>>
              ELSE /\ nsActive' = Released(nsActive, 1)
                   /\ Reply(w, "error", 0)
                   /\ UNCHANGED <<nsIds, nsCursors>>
    /\ UNCHANGED <<nsConf, nsSession, nsQueue, nsPending, nsPrepared, nsTx>>

\* The cursor may be gone when its first page is fetched.
FirstPage(w) ==
    /\ At(w, "cursor")
    /\ IF Cursor(nsWorker[w].data) = {} THEN Reply(w, "error", 0) /\ UNCHANGED <<nsCursors, nsActive>>
       ELSE \E c \in Cursor(nsWorker[w].data) :
              /\ nsCursors' = FetchPage(c).cursors /\ nsActive' = FetchPage(c).active
              /\ Reply(w, "rows", c.id)
    /\ UNCHANGED <<nsConf, nsSession, nsQueue, nsPending, nsPrepared, nsTx, nsIds, nsStored>>

FetchCursor(w) ==
    /\ At(w, "taken") /\ Op(w) = "fetch" /\ Started(w)
    /\ LET mine == {c \in Cursor(Job(w).call.id) : c.session = Job(w).session} IN
       IF mine = {} THEN Reply(w, "error", 0) /\ UNCHANGED <<nsCursors, nsActive>>
       ELSE \E c \in mine : /\ nsCursors' = FetchPage(c).cursors /\ nsActive' = FetchPage(c).active
                            /\ Reply(w, "rows", c.id)
    /\ UNCHANGED <<nsConf, nsSession, nsQueue, nsPrepared, nsTx, nsIds, nsStored>>

\* Closing a cursor that is gone is no error; one of another session is.
CloseCursor(w) ==
    /\ At(w, "taken") /\ Op(w) = "closeCursor" /\ Started(w)
    /\ LET cs == Cursor(Job(w).call.id)
           mine == {c \in cs : c.session = Job(w).session}
       IN  /\ nsCursors' = nsCursors \ mine
           /\ nsActive' = Released(nsActive, Cardinality(mine))
           /\ Reply(w, IF cs = mine THEN "ok" ELSE "error", 0)
    /\ UNCHANGED <<nsConf, nsSession, nsQueue, nsPrepared, nsTx, nsIds, nsStored>>

PrepareQuery(w) ==
    /\ At(w, "taken") /\ Op(w) = "prepare" /\ Started(w)
    /\ nsIds' = [nsIds EXCEPT !.prepared = @ + 1]
    /\ nsPrepared' = nsPrepared \cup {[id |-> nsIds.prepared + 1, session |-> Job(w).session]}
    /\ Reply(w, "ok", nsIds.prepared + 1)
    /\ UNCHANGED <<nsConf, nsSession, nsQueue, nsCursors, nsActive, nsTx, nsStored>>

ClosePreparedQuery(w) ==
    /\ At(w, "taken") /\ Op(w) = "closePrepared" /\ Started(w)
    /\ nsPrepared' = nsPrepared \ OwnPrepared(Job(w).session, Job(w).call.id)
    /\ Reply(w, IF nsPrepared' = nsPrepared THEN "error" ELSE "ok", 0)
    /\ UNCHANGED <<nsConf, nsSession, nsQueue, nsCursors, nsActive, nsTx, nsIds, nsStored>>

BeginTx(w) ==
    /\ At(w, "taken") /\ Op(w) = "begin" /\ Started(w)
    /\ nsIds' = [nsIds EXCEPT !.tx = @ + 1]
    /\ nsTx' = nsTx \cup {NewTransaction(nsIds.tx + 1, Job(w).session, Job(w).call.mode)}
    /\ Reply(w, "ok", nsIds.tx + 1)
    /\ UNCHANGED <<nsConf, nsSession, nsQueue, nsCursors, nsActive, nsPrepared, nsStored>>

StageTxWrite(w) ==
    /\ At(w, "taken") /\ Op(w) = "stage" /\ Started(w)
    /\ LET mine == {t \in OwnTx(Job(w).session, Job(w).call.id) : CanStage(t, Job(w).call.write)} IN
       IF mine = {} THEN Reply(w, "error", 0) /\ UNCHANGED nsTx
       ELSE \E t \in mine :
              /\ nsTx' = (nsTx \ {t}) \cup {StageWrite(t, Job(w).call.write)}
              /\ nsWorker' = [nsWorker EXCEPT ![w] = IdleWorker]
              /\ nsHistory' = Answered([nsHistory EXCEPT !.staged = @ \cup {<<t.id, Job(w).call.write>>}],
                                       Answer(Job(w).session, Job(w).req, "staged", t.id))
    /\ UNCHANGED <<nsConf, nsSession, nsQueue, nsCursors, nsActive, nsPrepared, nsIds, nsStored>>

\* Commit copies the staged writes under the lock and plans them without it.
CommitRead(w) ==
    /\ At(w, "taken") /\ Op(w) = "commit" /\ Started(w)
    /\ LET mine == OwnTx(Job(w).session, Job(w).call.id) IN
       IF mine = {} THEN Reply(w, "error", 0)
       ELSE \E t \in mine : Stage(w, "commit", t.staged) /\ UNCHANGED nsHistory
    /\ UNCHANGED <<nsConf, nsSession, nsQueue, nsCursors, nsActive, nsPrepared, nsTx, nsIds, nsStored>>

\* It then removes the transaction, checks the routing version it began with,
\* and applies the copy.
CommitClose(w) ==
    /\ At(w, "commit")
    /\ LET mine == OwnTx(Job(w).session, Job(w).call.id) IN
       IF mine = {} THEN Reply(w, "error", 0) /\ UNCHANGED <<nsTx, nsStored>>
       ELSE \E t \in mine :
              /\ nsTx' = nsTx \ {t}
              /\ IF t.mode = "write" /\ t.epoch # nsConf.epoch THEN Reply(w, "stale", 0) /\ UNCHANGED nsStored
                 ELSE /\ nsStored' = nsStored \o nsWorker[w].data
                      /\ nsWorker' = [nsWorker EXCEPT ![w] = IdleWorker]
                      /\ nsHistory' = Answered([nsHistory EXCEPT !.committed = @ \cup {t.id}],
                                               Answer(Job(w).session, Job(w).req, "committed", t.id))
    /\ UNCHANGED <<nsConf, nsSession, nsQueue, nsPending, nsCursors, nsActive, nsPrepared, nsIds>>

RollbackTx(w) ==
    /\ At(w, "taken") /\ Op(w) = "rollback" /\ Started(w)
    /\ nsTx' = nsTx \ OwnTx(Job(w).session, Job(w).call.id)
    /\ Reply(w, IF nsTx' = nsTx THEN "error" ELSE "ok", 0)
    /\ UNCHANGED <<nsConf, nsSession, nsQueue, nsCursors, nsActive, nsPrepared, nsIds, nsStored>>

\* KILL_TX takes a transaction of any session.
KillTx(w) ==
    /\ At(w, "taken") /\ Op(w) = "kill" /\ Started(w)
    /\ nsTx' = {t \in nsTx : t.id # Job(w).call.id}
    /\ Reply(w, IF nsTx' = nsTx THEN "error" ELSE "ok", 0)
    /\ UNCHANGED <<nsConf, nsSession, nsQueue, nsCursors, nsActive, nsPrepared, nsIds, nsStored>>

\* What the listings show: a session's own transactions and prepared queries,
\* or every transaction.
TxInfos(s) == {t \in nsTx : t.session = s}

PreparedInfos(s) == {p \in nsPrepared : p.session = s}

ListCommand(w) ==
    /\ At(w, "taken") /\ Op(w) \in {"txList", "txListAll", "preparedList"} /\ Started(w)
    /\ LET shown == CASE Op(w) = "txList" -> TxInfos(Job(w).session)
                      [] Op(w) = "txListAll" -> nsTx
                      [] OTHER -> PreparedInfos(Job(w).session)
       IN  Reply(w, "ok", Cardinality(shown))
    /\ UNCHANGED <<nsConf, nsSession, nsQueue, nsCursors, nsActive, nsPrepared, nsTx, nsIds, nsStored>>

TxStatus(w) ==
    /\ At(w, "taken") /\ Op(w) = "txStatus" /\ Started(w)
    /\ LET mine == OwnTx(Job(w).session, Job(w).call.id) IN
       IF mine = {} THEN Reply(w, "error", 0) ELSE \E t \in mine : Reply(w, "ok", Len(t.staged))
    /\ UNCHANGED <<nsConf, nsSession, nsQueue, nsCursors, nsActive, nsPrepared, nsTx, nsIds, nsStored>>

\* A routing table installed between the begin and the commit.
RoutingChanges ==
    /\ nsConf.reroutes > 0
    /\ nsConf' = [nsConf EXCEPT !.reroutes = @ - 1, !.epoch = @ + 1]
    /\ UNCHANGED <<nsSession, nsQueue, nsWorker, stores, nsStored, nsHistory>>

-----------------------------------------------------------------------------
(* What the clients of the instances send.                                 *)

SentCall == UNION {{c.programs[s][i] : i \in DOMAIN c.programs[s]} : c \in NsConf, s \in NsSession}

SentWrite ==
    {c.write : c \in {d \in SentCall : d.op = "stage"}}
    \cup UNION {{c.writes[i] : i \in DOMAIN c.writes} : c \in {d \in SentCall : d.op \in QueryOps}}

\* An instance gives each connection a program, and the limits and the faults
\* are counts.
ASSUME InstancesAssumption ==
    NsConf \subseteq [programs : [NsSession -> Seq(SentCall)], limit : Nat, rowLimit : Nat, window : Nat,
                     cancels : Nat, breaks : Nat, reroutes : Nat, epoch : Nat]

ASSUME WritesAssumption == \A c \in SentCall : c.op \in QueryOps => c.writes \in Seq(SentWrite)

ASSUME WorkersAssumption == IsFiniteSet(NsWorker)

-----------------------------------------------------------------------------

SessionsInit ==
    /\ nsConf \in NsConf
    /\ nsSession = [s \in NsSession |-> [state |-> "open", sent |-> 0, writer |-> "ok"]]
    /\ nsQueue = <<>> /\ nsWorker = [w \in NsWorker |-> IdleWorker]
    /\ nsPending = [pending |-> {}, cancelled |-> {}]
    /\ nsCursors = {} /\ nsActive = 0 /\ nsPrepared = {} /\ nsTx = {}
    /\ nsIds = [cursor |-> 0, prepared |-> 0, tx |-> 0]
    /\ nsStored = <<>>
    /\ nsHistory = [answers |-> {}, twice |-> {}, cancelled |-> {}, staged |-> {}, committed |-> {}]

SessionStep(s) ==
    Submit(s) \/ CancelPendingRequest(s) \/ Quit(s) \/ ReadFails(s) \/ WriteFails(s) \/ CloseNativeSession(s)

WorkerStep(w) ==
    \/ TakeJob(w) \/ AcquireQuery(w) \/ RunQuery(w) \/ FirstPage(w) \/ FetchCursor(w) \/ CloseCursor(w)
    \/ PrepareQuery(w) \/ ClosePreparedQuery(w) \/ BeginTx(w) \/ StageTxWrite(w) \/ CommitRead(w) \/ CommitClose(w)
    \/ RollbackTx(w) \/ KillTx(w) \/ ListCommand(w) \/ TxStatus(w)

SessionsNext == RoutingChanges \/ (\E s \in NsSession : SessionStep(s)) \/ (\E w \in NsWorker : WorkerStep(w))

SessionsSpec == SessionsInit /\ [][SessionsNext]_nsVars

-----------------------------------------------------------------------------
(* Properties.                                                             *)

\* The count of active queries is exactly the permits held, by cursors and by
\* workers between taking a permit and handing it to a cursor, and stays
\* within the limit: a permit lost would refuse queries for ever, one given
\* back twice would let too many in.
PermitsAccounted ==
    LET held == Cardinality(nsCursors) + Cardinality({w \in NsWorker : At(w, "permit")}) IN
    nsConf.limit # Unlimited => nsActive = held /\ held <= nsConf.limit

\* Once a connection has ended and none of its requests is queued or running,
\* the stores hold nothing of it: neither cursors, whose permits would be lost
\* to the tenant, nor transactions, prepared queries or pending requests.
EndedSessionsLeaveNothing ==
    \A s \in NsSession :
        nsSession[s].state \in {"closed", "lost"} /\ ~Working(s) /\ ~Queued(s) =>
            /\ \A x \in nsCursors \cup nsPrepared \cup nsTx : x.session # s
            /\ \A k \in nsPending.pending \cup nsPending.cancelled : k[1] # s

\* Nothing is held for nobody: permits are those of open cursors and running
\* queries, and an ended session owns none of them.
HeldOnlyInUse == PermitsAccounted /\ EndedSessionsLeaveNothing

\* Every request is answered once, and one whose cancel was confirmed is
\* answered as cancelled, never executed.
RequestsAnsweredOnce ==
    /\ nsHistory.twice = {}
    /\ \A a \in nsHistory.answers : <<a.session, a.req>> \in nsHistory.cancelled => a.what = "cancelled"
    /\ \A s \in NsSession : nsSession[s].state = "closed" =>
          \A r \in 1..nsSession[s].sent : \E a \in nsHistory.answers : a.session = s /\ a.req = r

\* A write that was confirmed as staged in a transaction that was then
\* committed is in the database.
StagedWritesCommitted ==
    \A x \in nsHistory.staged : x[1] \in nsHistory.committed => \E i \in DOMAIN nsStored : nsStored[i] = x[2]

\* A query that was answered with an error wrote nothing.
RefusedQueriesWroteNothing ==
    \A a \in nsHistory.answers : a.what = "error" /\ nsConf.programs[a.session][a.req].op = "query" =>
        \A i \in DOMAIN nsStored : \A j \in DOMAIN nsConf.programs[a.session][a.req].writes :
            nsStored[i] # nsConf.programs[a.session][a.req].writes[j]

=============================================================================
