-------------------------- MODULE MCNativeSessions --------------------------
(***************************************************************************)
(* Instances of NativeSessions: what two connections send, in order.       *)
(***************************************************************************)
EXTENDS NativeSessions, TLC

NsUpdate(k) == [kind |-> "update", key |-> k]
NsCreate == [kind |-> "create", key |-> 0]
NsSchema == [kind |-> "schema", key |-> 9]
NsQuery(n) == [op |-> "query", rows |-> n, writes |-> <<>>]
NsExecute(i) == [op |-> "execute", id |-> i, rows |-> 2, writes |-> <<>>]
NsTxQuery(i) == [op |-> "txQuery", id |-> i, rows |-> 1, writes |-> <<>>]
NsOn(op, i) == [op |-> op, id |-> i]
NsBegin(mode) == [op |-> "begin", mode |-> mode]
NsStage(i, w) == [op |-> "stage", id |-> i, write |-> w]
NsPrepare == [op |-> "prepare"]

\* The two programs; how many queries the tenant may have active and rows a
\* result may have (0: no limit); requests a client sends ahead, cancels,
\* broken connections and changes of the routing table.
NsSetting(one, two, limit, rowLimit, window, cancels, breaks, reroutes) ==
    [programs |-> (1 :> one @@ 2 :> two), limit |-> limit, rowLimit |-> rowLimit,
     window |-> window, cancels |-> cancels, breaks |-> breaks, reroutes |-> reroutes,
     epoch |-> 1]

const_NsConf ==
    {\* cursors that compete for one permit, fetched and closed, one cancelled
     NsSetting(<<NsQuery(2), NsOn("fetch", 1), NsOn("closeCursor", 2)>>,
               <<NsQuery(2), NsOn("fetch", 1), NsOn("closeCursor", 1)>>, 1, 0, 2, 1, 0, 0),
     \* prepared queries, of the session and of another, and the row limit
     NsSetting(<<NsPrepare, NsExecute(1), NsExecute(2), NsOn("closePrepared", 1)>>,
               <<NsQuery(3), NsExecute(1)>>, 2, 2, 2, 0, 0, 0),
     \* a write transaction that another session kills or a new epoch fences
     NsSetting(<<NsBegin("write"), NsStage(1, NsUpdate(1)), NsStage(1, NsCreate),
                 NsStage(1, NsUpdate(1)), NsTxQuery(1), NsOn("commit", 1)>>,
               <<NsOn("kill", 1)>>, 0, 0, 1, 0, 0, 1),
     \* refused and rolled back transactions beside a read transaction
     NsSetting(<<NsBegin("write"), NsStage(1, NsSchema), NsOn("rollback", 1),
                 NsOn("commit", 1)>>,
               <<NsBegin("read"), NsOn("txList", 0), NsOn("txListAll", 0),
                 NsOn("preparedList", 0), NsOn("txStatus", 1), NsStage(2, NsUpdate(3)),
                 NsOn("commit", 2)>>, 0, 0, 1, 0, 0, 0),
     \* requests sent ahead, a cancel and a broken connection
     NsSetting(<<NsQuery(1), NsQuery(1), NsQuery(1)>>, <<>>, 1, 0, 3, 1, 1, 0)}
=============================================================================
