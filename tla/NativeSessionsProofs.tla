------------------------ MODULE NativeSessionsProofs ------------------------
(***************************************************************************)
(* Proofs about the native front end.  Inductive invariants say where each *)
(* request is (RequestInv), who holds each permit (PermitInv), what belongs *)
(* to an ended session (OwnerInv) and where each staged write is           *)
(* (StagedInv).  The steps are first sorted into a few kinds: a worker     *)
(* takes a request, goes on with it or answers it, a connection sends,     *)
(* cancels or turns to its end; each kind keeps RequestInv, on which the   *)
(* three others rest.                                                      *)
(***************************************************************************)
EXTENDS NativeSessions, FiniteSetTheorems, TLAPS

-----------------------------------------------------------------------------
(* Where each request is: in the queue, at one worker or answered.         *)

SomeJob == [session : NsSession, req : Nat, call : SentCall]

SomeConf ==
    [programs : [NsSession -> Seq(SentCall)], limit : Nat, rowLimit : Nat, window : Nat,
     cancels : Nat, breaks : Nat, reroutes : Nat, epoch : Nat]

SomeSession == [state : {"open", "draining", "closed", "lost"}, sent : Nat, writer : {"ok", "failed"}]

SomeKey == NsSession \X Nat

BusyStage == {"taken", "permit", "cursor", "commit"}

Busy(x) == x = [stage |-> x.stage, job |-> x.job, data |-> x.data] /\ x.stage \in BusyStage /\ x.job \in SomeJob

Places ==
    /\ nsConf \in SomeConf
    /\ nsSession \in [NsSession -> SomeSession]
    /\ nsQueue \in Seq(SomeJob)
    /\ nsWorker = [w \in NsWorker |-> nsWorker[w]]
    /\ \A w \in NsWorker : nsWorker[w] = IdleWorker \/ Busy(nsWorker[w])
    /\ nsPending \in [pending : SUBSET SomeKey, cancelled : SUBSET SomeKey]
    /\ nsHistory = [answers |-> nsHistory.answers, twice |-> nsHistory.twice, cancelled |-> nsHistory.cancelled,
                    staged |-> nsHistory.staged, committed |-> nsHistory.committed]
    /\ nsHistory.cancelled \subseteq SomeKey

InQueue(s, r) == \E i \in DOMAIN nsQueue : nsQueue[i].session = s /\ nsQueue[i].req = r

AtWorker(s, r) == \E w \in NsWorker : ~At(w, "idle") /\ Job(w).session = s /\ Job(w).req = r

HasAnswer(s, r) == \E a \in nsHistory.answers : a.session = s /\ a.req = r

QueuedOnce ==
    \A i, j \in DOMAIN nsQueue : nsQueue[i].session = nsQueue[j].session /\ nsQueue[i].req = nsQueue[j].req => i = j

WorkedOnce ==
    \A v, w \in NsWorker :
        ~At(v, "idle") /\ ~At(w, "idle") /\ Job(v).session = Job(w).session /\ Job(v).req = Job(w).req => v = w

InOnePlace ==
    \A s \in NsSession, r \in Nat :
        /\ ~(InQueue(s, r) /\ AtWorker(s, r)) /\ ~(InQueue(s, r) /\ HasAnswer(s, r)) /\ ~(AtWorker(s, r) /\ HasAnswer(s, r))
        /\ InQueue(s, r) \/ AtWorker(s, r) \/ HasAnswer(s, r) <=> r \in 1..nsSession[s].sent

\* Only queued requests are pending, and only pending ones marked cancelled.
PendingIsQueued ==
    \A s \in NsSession, r \in Nat :
        /\ <<s, r>> \in nsPending.pending => InQueue(s, r)
        /\ <<s, r>> \in nsPending.cancelled => <<s, r>> \in nsPending.pending

\* A confirmed cancel is still marked, or was answered as one.
CancelsKept ==
    \A s \in NsSession, r \in Nat :
        <<s, r>> \in nsHistory.cancelled =>
            \/ <<s, r>> \in nsPending.cancelled
            \/ HasAnswer(s, r) /\ \A a \in nsHistory.answers : a.session = s /\ a.req = r => a.what = "cancelled"

ClosedIsIdle == \A s \in NsSession : nsSession[s].state = "closed" => ~Working(s) /\ ~Queued(s)

RequestInv ==
    /\ Places /\ QueuedOnce /\ WorkedOnce /\ InOnePlace /\ PendingIsQueued /\ CancelsKept /\ ClosedIsIdle
    /\ nsHistory.twice = {}
    /\ \A a \in nsHistory.answers : a.session \in NsSession /\ a.req \in Nat

-----------------------------------------------------------------------------
(* Where each permit is.                                                   *)

CursorsKept ==
    /\ nsActive \in Nat /\ nsIds \in [cursor : Nat, prepared : Nat, tx : Nat]
    /\ IsFiniteSet(nsCursors)
    /\ \A c \in nsCursors : c = [id |-> c.id, session |-> c.session, left |-> c.left] /\ c.id \in 1..nsIds.cursor
    /\ \A c, d \in nsCursors : c.id = d.id => c = d

PermitInv == CursorsKept /\ PermitsAccounted

NoneLost ==
    /\ nsConf.breaks = 0
    /\ \A s \in NsSession : nsSession[s].state # "lost" /\ nsSession[s].writer = "ok"

ClosedOwnsNothing ==
    \A s \in NsSession : nsSession[s].state = "closed" =>
        /\ \A x \in nsCursors \cup nsPrepared \cup nsTx : x.session # s
        /\ \A k \in nsPending.pending \cup nsPending.cancelled : k[1] # s

TxShaped ==
    \A t \in nsTx : t = [id |-> t.id, session |-> t.session, mode |-> t.mode, staged |-> t.staged, epoch |-> t.epoch]

OwnerInv == NoneLost /\ ClosedOwnsNothing /\ TxShaped

-----------------------------------------------------------------------------
(* Where each staged write is.                                             *)

\* A client with a window of one waits for each answer.
OneEach ==
    /\ nsConf.window <= 1
    /\ \A s \in NsSession : \A q, r \in 1..nsSession[s].sent : ~HasAnswer(s, q) /\ ~HasAnswer(s, r) => q = r

SomeTx(t) ==
    /\ t = [id |-> t.id, session |-> t.session, mode |-> t.mode, staged |-> t.staged, epoch |-> t.epoch]
    /\ t.id \in 1..nsIds.tx /\ t.staged \in Seq(SentWrite)

TxKept ==
    /\ nsIds \in [cursor : Nat, prepared : Nat, tx : Nat]
    /\ nsStored \in Seq(SentWrite)
    /\ \A t \in nsTx : SomeTx(t)
    /\ \A t, u \in nsTx : t.id = u.id => t = u
    /\ nsHistory.staged \subseteq Nat \X SentWrite
    /\ nsHistory.committed \subseteq 1..nsIds.tx
    /\ \A t \in nsTx : t.id \notin nsHistory.committed

Holds(q, x) == \E i \in DOMAIN q : q[i] = x

StagedIsSomewhere ==
    \A n \in Nat, x \in SentWrite : <<n, x>> \in nsHistory.staged =>
        /\ n \in 1..nsIds.tx
        /\ \A t \in nsTx : t.id = n => Holds(t.staged, x)
        /\ n \in nsHistory.committed => Holds(nsStored, x)

\* The copy that a commit made is still what the transaction holds.
CommitIsCurrent ==
    \A w \in NsWorker : At(w, "commit") =>
        \A t \in OwnTx(Job(w).session, Job(w).call.id) : nsWorker[w].data = t.staged

QueryPermits == \A w \in NsWorker : At(w, "permit") => Op(w) \in QueryOps

StagedInv == OneEach /\ TxKept /\ StagedIsSomewhere /\ CommitIsCurrent /\ QueryPermits

-----------------------------------------------------------------------------
(* The kinds of step, as the requests see them.                            *)

\* The answer to request r of session s, once it has none, joins the answers.
Delivered(s, r, what) ==
    /\ \E a : a.session = s /\ a.req = r /\ a.what = what /\ nsHistory'.answers = nsHistory.answers \cup {a}
    /\ nsHistory'.cancelled = nsHistory.cancelled
    /\ ~HasAnswer(s, r) => nsHistory'.twice = nsHistory.twice
    /\ nsHistory' = [answers |-> nsHistory'.answers, twice |-> nsHistory'.twice, cancelled |-> nsHistory'.cancelled,
                     staged |-> nsHistory'.staged, committed |-> nsHistory'.committed]

SettledPending(w) == nsPending' = nsPending \/ nsPending' = StartPending(nsPending, Key(Job(w)))

\* A worker goes on with its request.
Moves(w) ==
    /\ ~At(w, "idle")
    /\ \E x : Busy(x) /\ x.job = Job(w) /\ nsWorker' = [nsWorker EXCEPT ![w] = x]
    /\ SettledPending(w)
    /\ UNCHANGED <<nsConf, nsSession, nsQueue, nsHistory>>

\* A worker answers its request.
Replies(w) ==
    /\ ~At(w, "idle")
    /\ nsWorker' = [nsWorker EXCEPT ![w] = IdleWorker]
    /\ SettledPending(w)
    /\ \E what : Delivered(Job(w).session, Job(w).req, what)
    /\ UNCHANGED <<nsConf, nsSession, nsQueue>>

\* Answered adds the answer and counts a second one.
LEMMA AnsweredDelivers ==
    ASSUME Places, NEW s, NEW r, NEW what, NEW n, NEW staged, NEW committed, NEW h,
           h = [answers |-> nsHistory.answers, twice |-> nsHistory.twice, cancelled |-> nsHistory.cancelled,
                staged |-> staged, committed |-> committed],
           nsHistory' = Answered(h, Answer(s, r, what, n))
    PROVE  /\ Delivered(s, r, what)
           /\ nsHistory'.staged = staged /\ nsHistory'.committed = committed
<1>1. PICK A, T, C, S, M : nsHistory = [answers |-> A, twice |-> T, cancelled |-> C, staged |-> S, committed |-> M]
  BY DEF Places
<1>2. PICK g : g = [answers |-> A, twice |-> T, cancelled |-> C, staged |-> staged, committed |-> committed]
  OBVIOUS
<1>3. h = g
  BY <1>1, <1>2
<1>4. PICK a : a = [session |-> s, req |-> r, what |-> what, val |-> n]
  OBVIOUS
<1>5. nsHistory' = Answered(g, a)
  BY <1>3, <1>4 DEF Answer
<1>6. a.session = s /\ a.req = r /\ a.what = what
  BY <1>4
<1>7. nsHistory.answers = A /\ nsHistory.twice = T /\ nsHistory.cancelled = C
  BY <1>1
<1>8. PICK T2 : (~HasAnswer(s, r) => T2 = T)
            /\ nsHistory' = [answers |-> A \cup {a}, twice |-> T2, cancelled |-> C, staged |-> staged, committed |-> committed]
  <2>1. CASE HasAnswer(s, r)
    <3>1. nsHistory' = [g EXCEPT !.twice = @ \cup {<<a.session, a.req>>}, !.answers = @ \cup {a}]
      BY <2>1, <1>5, <1>6, <1>7, <1>2 DEF Answered, HasAnswer
    <3> QED BY <2>1, <3>1, <1>2
  <2>2. CASE ~HasAnswer(s, r)
    <3>1. nsHistory' = [g EXCEPT !.answers = @ \cup {a}]
      BY <2>2, <1>5, <1>6, <1>7, <1>2 DEF Answered, HasAnswer
    <3> QED BY <2>2, <3>1, <1>2
  <2> QED BY <2>1, <2>2
<1>9. nsHistory'.answers = A \cup {a} /\ nsHistory'.twice = T2 /\ nsHistory'.cancelled = C
      /\ nsHistory'.staged = staged /\ nsHistory'.committed = committed
  BY <1>8
<1>10. Delivered(s, r, what)
  BY <1>6, <1>7, <1>8, <1>9 DEF Delivered
<1> QED BY <1>9, <1>10

\* A history with one more staged write or one more commit.
LEMMA HistoryStaged ==
    ASSUME Places, NEW x
    PROVE  [nsHistory EXCEPT !.staged = @ \cup {x}] =
                [answers |-> nsHistory.answers, twice |-> nsHistory.twice, cancelled |-> nsHistory.cancelled,
                 staged |-> nsHistory.staged \cup {x}, committed |-> nsHistory.committed]
<1>1. PICK A, T, C, S, M : nsHistory = [answers |-> A, twice |-> T, cancelled |-> C, staged |-> S, committed |-> M]
  BY DEF Places
<1> QED BY <1>1

\* The same for a commit.
LEMMA HistoryCommitted ==
    ASSUME Places, NEW x
    PROVE  [nsHistory EXCEPT !.committed = @ \cup {x}] =
                [answers |-> nsHistory.answers, twice |-> nsHistory.twice, cancelled |-> nsHistory.cancelled,
                 staged |-> nsHistory.staged, committed |-> nsHistory.committed \cup {x}]
<1>1. PICK A, T, C, S, M : nsHistory = [answers |-> A, twice |-> T, cancelled |-> C, staged |-> S, committed |-> M]
  BY DEF Places
<1> QED BY <1>1

\* The same for a confirmed cancel.
LEMMA HistoryCancelled ==
    ASSUME Places, NEW x
    PROVE  [nsHistory EXCEPT !.cancelled = @ \cup {x}] =
                [answers |-> nsHistory.answers, twice |-> nsHistory.twice, cancelled |-> nsHistory.cancelled \cup {x},
                 staged |-> nsHistory.staged, committed |-> nsHistory.committed]
<1>1. PICK A, T, C, S, M : nsHistory = [answers |-> A, twice |-> T, cancelled |-> C, staged |-> S, committed |-> M]
  BY DEF Places
<1> QED BY <1>1

\* Reply delivers, and changes nothing else of the history.
LEMMA ReplyDelivers ==
    ASSUME Places, NEW s, NEW r, NEW what, NEW n, nsHistory' = Answered(nsHistory, Answer(s, r, what, n))
    PROVE  Delivered(s, r, what) /\ nsHistory'.staged = nsHistory.staged /\ nsHistory'.committed = nsHistory.committed
<1>1. PICK S, M : S = nsHistory.staged /\ M = nsHistory.committed
  OBVIOUS
<1>2. PICK h : h = nsHistory
  OBVIOUS
<1>3. h = [answers |-> nsHistory.answers, twice |-> nsHistory.twice, cancelled |-> nsHistory.cancelled,
           staged |-> S, committed |-> M]
  BY <1>1, <1>2 DEF Places
<1>4. nsHistory' = Answered(h, Answer(s, r, what, n))
  BY <1>2
<1> QED BY <1>1, <1>3, <1>4, AnsweredDelivers

\* A worker with a request holds a busy record.
LEMMA WorkerIsBusy ==
    ASSUME Places, NEW w \in NsWorker, ~At(w, "idle")
    PROVE  Busy(nsWorker[w]) /\ Job(w) \in SomeJob
BY DEF Places, At, Job, Busy, IdleWorker

\* A Reply is one of the answers a worker gives.
LEMMA ReplyReplies ==
    ASSUME Places, NEW w \in NsWorker, ~At(w, "idle"), NEW what, NEW n, Reply(w, what, n),
           SettledPending(w), UNCHANGED <<nsConf, nsSession, nsQueue>>
    PROVE  Replies(w) /\ nsHistory'.staged = nsHistory.staged /\ nsHistory'.committed = nsHistory.committed
<1>1. Delivered(Job(w).session, Job(w).req, what)
      /\ nsHistory'.staged = nsHistory.staged /\ nsHistory'.committed = nsHistory.committed
  BY ReplyDelivers DEF Reply
<1> QED BY <1>1 DEF Replies, Reply

\* A worker that goes to its next stage keeps its request.
LEMMA StageMoves ==
    ASSUME Places, NEW w \in NsWorker, ~At(w, "idle"), NEW stage \in BusyStage, NEW data, Stage(w, stage, data),
           SettledPending(w), UNCHANGED <<nsConf, nsSession, nsQueue, nsHistory>>
    PROVE  Moves(w)
<1>1. Job(w) \in SomeJob
  BY WorkerIsBusy
<1>2. PICK x : x = [stage |-> stage, job |-> Job(w), data |-> data]
  OBVIOUS
<1>3. x.stage = stage /\ x.job = Job(w) /\ x.data = data
  BY <1>2
<1>4. Busy(x)
  BY <1>1, <1>2, <1>3 DEF Busy
<1> QED BY <1>2, <1>3, <1>4 DEF Moves, Stage

\* A write joins transaction t, and its history.
StagesIn(w, t) ==
    /\ t.id = Job(w).call.id /\ t.session = Job(w).session /\ CanStage(t, Job(w).call.write)
    /\ nsTx' = (nsTx \ {t}) \cup {StageWrite(t, Job(w).call.write)}
    /\ nsWorker' = [nsWorker EXCEPT ![w] = IdleWorker]
    /\ nsHistory' = Answered([nsHistory EXCEPT !.staged = @ \cup {<<t.id, Job(w).call.write>>}],
                             Answer(Job(w).session, Job(w).req, "staged", t.id))

\* Transaction t is removed and its copy applied.
CommitsTx(w, t) ==
    /\ t.id = Job(w).call.id /\ t.session = Job(w).session
    /\ nsTx' = nsTx \ {t}
    /\ nsStored' = nsStored \o nsWorker[w].data
    /\ nsWorker' = [nsWorker EXCEPT ![w] = IdleWorker]
    /\ nsHistory' = Answered([nsHistory EXCEPT !.committed = @ \cup {t.id}],
                             Answer(Job(w).session, Job(w).req, "committed", t.id))

\* A staged write is answered like any request.
LEMMA StagedReplies ==
    ASSUME Places, NEW w \in NsWorker, ~At(w, "idle"), NEW t, StagesIn(w, t),
           SettledPending(w), UNCHANGED <<nsConf, nsSession, nsQueue>>
    PROVE  /\ Replies(w)
           /\ nsHistory'.staged = nsHistory.staged \cup {<<t.id, Job(w).call.write>>}
           /\ nsHistory'.committed = nsHistory.committed
<1>1. PICK S, M : S = nsHistory.staged \cup {<<t.id, Job(w).call.write>>} /\ M = nsHistory.committed
  OBVIOUS
<1>2. PICK h : h = [nsHistory EXCEPT !.staged = @ \cup {<<t.id, Job(w).call.write>>}]
  OBVIOUS
<1>3. h = [answers |-> nsHistory.answers, twice |-> nsHistory.twice, cancelled |-> nsHistory.cancelled,
           staged |-> S, committed |-> M]
  BY <1>1, <1>2, HistoryStaged
<1>4. nsHistory' = Answered(h, Answer(Job(w).session, Job(w).req, "staged", t.id))
  BY <1>2 DEF StagesIn
<1>5. Delivered(Job(w).session, Job(w).req, "staged") /\ nsHistory'.staged = S /\ nsHistory'.committed = M
  BY <1>3, <1>4, AnsweredDelivers
<1>6. nsWorker' = [nsWorker EXCEPT ![w] = IdleWorker]
  BY DEF StagesIn
<1> QED BY <1>1, <1>5, <1>6 DEF Replies

\* So is a commit.
LEMMA CommitReplies ==
    ASSUME Places, NEW w \in NsWorker, ~At(w, "idle"), NEW t, CommitsTx(w, t),
           SettledPending(w), UNCHANGED <<nsConf, nsSession, nsQueue>>
    PROVE  /\ Replies(w)
           /\ nsHistory'.staged = nsHistory.staged
           /\ nsHistory'.committed = nsHistory.committed \cup {t.id}
<1>1. PICK S, M : S = nsHistory.staged /\ M = nsHistory.committed \cup {t.id}
  OBVIOUS
<1>2. PICK h : h = [nsHistory EXCEPT !.committed = @ \cup {t.id}]
  OBVIOUS
<1>3. h = [answers |-> nsHistory.answers, twice |-> nsHistory.twice, cancelled |-> nsHistory.cancelled,
           staged |-> S, committed |-> M]
  BY <1>1, <1>2, HistoryCommitted
<1>4. nsHistory' = Answered(h, Answer(Job(w).session, Job(w).req, "committed", t.id))
  BY <1>2 DEF CommitsTx
<1>5. Delivered(Job(w).session, Job(w).req, "committed") /\ nsHistory'.staged = S /\ nsHistory'.committed = M
  BY <1>3, <1>4, AnsweredDelivers
<1>6. nsWorker' = [nsWorker EXCEPT ![w] = IdleWorker]
  BY DEF CommitsTx
<1> QED BY <1>1, <1>5, <1>6 DEF Replies

\* Past TakeJob, a step of a worker goes on with its request or answers it.
LEMMA WorkerMovesOrReplies ==
    ASSUME Places, NEW w \in NsWorker, WorkerStep(w), ~TakeJob(w)
    PROVE  Moves(w) \/ Replies(w)
<1> USE DEF BusyStage
<1>1. CASE AcquireQuery(w)
  <2>1. ~At(w, "idle") /\ SettledPending(w) /\ UNCHANGED <<nsConf, nsSession, nsQueue>>
    BY <1>1 DEF AcquireQuery, Started, SettledPending, At
  <2>2. (Stage(w, "permit", 0) /\ UNCHANGED nsHistory) \/ Reply(w, "error", 0)
    BY <1>1 DEF AcquireQuery
  <2> QED BY <2>1, <2>2, ReplyReplies, StageMoves
<1>2. CASE RunQuery(w)
  <2>1. ~At(w, "idle") /\ SettledPending(w) /\ UNCHANGED <<nsConf, nsSession, nsQueue>>
    BY <1>2 DEF RunQuery, SettledPending, At
  <2>2. (Stage(w, "cursor", nsIds.cursor + 1) /\ UNCHANGED nsHistory) \/ Reply(w, "error", 0)
    BY <1>2 DEF RunQuery
  <2>3. \E data : (Stage(w, "cursor", data) /\ UNCHANGED nsHistory) \/ Reply(w, "error", 0)
    BY <2>2
  <2> QED BY <2>1, <2>3, ReplyReplies, StageMoves
<1>3. CASE FirstPage(w)
  <2>1. ~At(w, "idle") /\ SettledPending(w) /\ UNCHANGED <<nsConf, nsSession, nsQueue>>
    BY <1>3 DEF FirstPage, SettledPending, At
  <2>2. \E what, n : Reply(w, what, n)
    BY <1>3 DEF FirstPage
  <2> QED BY <2>1, <2>2, ReplyReplies
<1>4. CASE FetchCursor(w)
  <2>1. ~At(w, "idle") /\ SettledPending(w) /\ UNCHANGED <<nsConf, nsSession, nsQueue>>
    BY <1>4 DEF FetchCursor, Started, SettledPending, At
  <2>2. \E what, n : Reply(w, what, n)
    BY <1>4 DEF FetchCursor
  <2> QED BY <2>1, <2>2, ReplyReplies
<1>5. CASE CloseCursor(w)
  <2>1. ~At(w, "idle") /\ SettledPending(w) /\ UNCHANGED <<nsConf, nsSession, nsQueue>>
    BY <1>5 DEF CloseCursor, Started, SettledPending, At
  <2>2. \E what, n : Reply(w, what, n)
    BY <1>5 DEF CloseCursor
  <2> QED BY <2>1, <2>2, ReplyReplies
<1>6. CASE PrepareQuery(w)
  <2>1. ~At(w, "idle") /\ SettledPending(w) /\ UNCHANGED <<nsConf, nsSession, nsQueue>>
    BY <1>6 DEF PrepareQuery, Started, SettledPending, At
  <2>2. \E what, n : Reply(w, what, n)
    BY <1>6 DEF PrepareQuery
  <2> QED BY <2>1, <2>2, ReplyReplies
<1>7. CASE ClosePreparedQuery(w)
  <2>1. ~At(w, "idle") /\ SettledPending(w) /\ UNCHANGED <<nsConf, nsSession, nsQueue>>
    BY <1>7 DEF ClosePreparedQuery, Started, SettledPending, At
  <2>2. \E what, n : Reply(w, what, n)
    BY <1>7 DEF ClosePreparedQuery
  <2> QED BY <2>1, <2>2, ReplyReplies
<1>8. CASE BeginTx(w)
  <2>1. ~At(w, "idle") /\ SettledPending(w) /\ UNCHANGED <<nsConf, nsSession, nsQueue>>
    BY <1>8 DEF BeginTx, Started, SettledPending, At
  <2>2. \E what, n : Reply(w, what, n)
    BY <1>8 DEF BeginTx
  <2> QED BY <2>1, <2>2, ReplyReplies
<1>9. CASE RollbackTx(w)
  <2>1. ~At(w, "idle") /\ SettledPending(w) /\ UNCHANGED <<nsConf, nsSession, nsQueue>>
    BY <1>9 DEF RollbackTx, Started, SettledPending, At
  <2>2. \E what, n : Reply(w, what, n)
    BY <1>9 DEF RollbackTx
  <2> QED BY <2>1, <2>2, ReplyReplies
<1>10. CASE KillTx(w)
  <2>1. ~At(w, "idle") /\ SettledPending(w) /\ UNCHANGED <<nsConf, nsSession, nsQueue>>
    BY <1>10 DEF KillTx, Started, SettledPending, At
  <2>2. \E what, n : Reply(w, what, n)
    BY <1>10 DEF KillTx
  <2> QED BY <2>1, <2>2, ReplyReplies
<1>11. CASE ListCommand(w)
  <2>1. ~At(w, "idle") /\ SettledPending(w) /\ UNCHANGED <<nsConf, nsSession, nsQueue>>
    BY <1>11 DEF ListCommand, Started, SettledPending, At
  <2>2. \E what, n : Reply(w, what, n)
    BY <1>11 DEF ListCommand
  <2> QED BY <2>1, <2>2, ReplyReplies
<1>12. CASE TxStatus(w)
  <2>1. ~At(w, "idle") /\ SettledPending(w) /\ UNCHANGED <<nsConf, nsSession, nsQueue>>
    BY <1>12 DEF TxStatus, Started, SettledPending, At
  <2>2. \E what, n : Reply(w, what, n)
    BY <1>12 DEF TxStatus
  <2> QED BY <2>1, <2>2, ReplyReplies
<1>13. CASE StageTxWrite(w)
  <2>1. ~At(w, "idle") /\ SettledPending(w) /\ UNCHANGED <<nsConf, nsSession, nsQueue>>
    BY <1>13 DEF StageTxWrite, Started, SettledPending, At
  <2>2. CASE Reply(w, "error", 0)
    BY <2>1, <2>2, ReplyReplies
  <2>3. CASE \E t \in nsTx : StagesIn(w, t)
    BY <2>1, <2>3, StagedReplies
  <2> QED BY <1>13, <2>2, <2>3 DEF StageTxWrite, StagesIn, OwnTx
<1>14. CASE CommitRead(w)
  <2>1. ~At(w, "idle") /\ SettledPending(w) /\ UNCHANGED <<nsConf, nsSession, nsQueue>>
    BY <1>14 DEF CommitRead, Started, SettledPending, At
  <2>2. \E data : (Stage(w, "commit", data) /\ UNCHANGED nsHistory) \/ Reply(w, "error", 0)
    BY <1>14 DEF CommitRead
  <2> QED BY <2>1, <2>2, ReplyReplies, StageMoves
<1>15. CASE CommitClose(w)
  <2>1. ~At(w, "idle") /\ SettledPending(w) /\ UNCHANGED <<nsConf, nsSession, nsQueue>>
    BY <1>15 DEF CommitClose, SettledPending, At
  <2>2. CASE \E what : Reply(w, what, 0)
    BY <2>1, <2>2, ReplyReplies
  <2>3. CASE \E t \in nsTx : CommitsTx(w, t)
    BY <2>1, <2>3, CommitReplies
  <2> QED BY <1>15, <2>2, <2>3 DEF CommitClose, CommitsTx, OwnTx
<1> QED BY <1>1, <1>2, <1>3, <1>4, <1>5, <1>6, <1>7, <1>8, <1>9, <1>10, <1>11, <1>12, <1>13, <1>14, <1>15 DEF WorkerStep

-----------------------------------------------------------------------------
(* Each kind of step keeps RequestInv.                                     *)

\* A request a worker has taken is not pending any more, so that starting it
\* changes nothing.
LEMMA TakenIsNotPending ==
    ASSUME RequestInv, NEW w \in NsWorker, ~At(w, "idle"), SettledPending(w)
    PROVE  nsPending' = nsPending /\ Key(Job(w)) \notin nsPending.pending
<1>1. Job(w) \in SomeJob
  BY WorkerIsBusy DEF RequestInv
<1>2. PICK s \in NsSession, r \in Nat : s = Job(w).session /\ r = Job(w).req
  BY <1>1 DEF SomeJob
<1>3. AtWorker(s, r)
  BY <1>2 DEF AtWorker
<1>4. ~InQueue(s, r)
  BY <1>3 DEF RequestInv, InOnePlace
<1>5. <<s, r>> \notin nsPending.pending /\ <<s, r>> \notin nsPending.cancelled
  BY <1>4 DEF RequestInv, PendingIsQueued
<1>6. Key(Job(w)) = <<s, r>>
  BY <1>2 DEF Key
<1>7. nsPending.pending \ {<<s, r>>} = nsPending.pending /\ nsPending.cancelled \ {<<s, r>>} = nsPending.cancelled
  BY <1>5
<1>8. nsPending = [pending |-> nsPending.pending, cancelled |-> nsPending.cancelled]
  BY DEF RequestInv, Places
<1> QED BY <1>5, <1>6, <1>7, <1>8 DEF SettledPending, StartPending

\* A worker that goes on with its request leaves every request in its place.
LEMMA MovesKeeps ==
    ASSUME RequestInv, NEW w \in NsWorker, Moves(w)
    PROVE  RequestInv'
<1>1. nsPending' = nsPending
  BY TakenIsNotPending DEF Moves
<1>2. PICK x : Busy(x) /\ x.job = Job(w) /\ nsWorker' = [nsWorker EXCEPT ![w] = x]
  BY DEF Moves
<1>3. nsWorker' = [v \in NsWorker |-> nsWorker'[v]] /\ \A v \in NsWorker : nsWorker'[v] = IF v = w THEN x ELSE nsWorker[v]
  BY <1>2 DEF RequestInv, Places
<1>4. x.stage # "idle" /\ nsWorker[w].stage # "idle" /\ x.job = nsWorker[w].job
  BY <1>2 DEF Busy, BusyStage, Moves, At, Job
<1>5. \A v \in NsWorker : /\ nsWorker'[v].stage # "idle" <=> nsWorker[v].stage # "idle"
                          /\ nsWorker[v].stage # "idle" => nsWorker'[v].job = nsWorker[v].job
  BY <1>3, <1>4
<1>6. UNCHANGED <<nsConf, nsSession, nsQueue, nsHistory>>
  BY DEF Moves
<1>7. Places'
  BY <1>1, <1>2, <1>3, <1>6 DEF RequestInv, Places
<1>8. \A s, r : /\ InQueue(s, r)' <=> InQueue(s, r)
                /\ AtWorker(s, r)' <=> AtWorker(s, r)
                /\ HasAnswer(s, r)' <=> HasAnswer(s, r)
  BY <1>5, <1>6 DEF InQueue, AtWorker, HasAnswer, At, Job
<1>9. QueuedOnce' /\ InOnePlace' /\ PendingIsQueued' /\ CancelsKept'
  BY <1>1, <1>6, <1>8 DEF RequestInv, QueuedOnce, InOnePlace, PendingIsQueued, CancelsKept
<1>10. WorkedOnce'
  BY <1>5 DEF RequestInv, WorkedOnce, At, Job
<1>11. ClosedIsIdle'
  BY <1>5, <1>6 DEF RequestInv, ClosedIsIdle, Working, Queued
<1>12. nsHistory'.twice = {} /\ \A a \in nsHistory'.answers : a.session \in NsSession /\ a.req \in Nat
  BY <1>6 DEF RequestInv
<1> QED BY <1>7, <1>9, <1>10, <1>11, <1>12 DEF RequestInv

\* A worker's answer: its request is at no other place, so it is the first.
LEMMA RepliesKeeps ==
    ASSUME RequestInv, NEW w \in NsWorker, Replies(w)
    PROVE  RequestInv'
<1>1. nsPending' = nsPending
  BY TakenIsNotPending DEF Replies
<1>2. Job(w) \in SomeJob /\ ~At(w, "idle")
  BY WorkerIsBusy DEF RequestInv, Replies
<1>3. PICK s \in NsSession, r \in Nat : s = Job(w).session /\ r = Job(w).req
  BY <1>2 DEF SomeJob
<1>4. PICK what : Delivered(s, r, what)
  BY <1>3 DEF Replies
<1>5. PICK a : a.session = s /\ a.req = r /\ a.what = what /\ nsHistory'.answers = nsHistory.answers \cup {a}
  BY <1>4 DEF Delivered
<1>6. AtWorker(s, r) /\ ~HasAnswer(s, r) /\ ~InQueue(s, r)
  BY <1>2, <1>3 DEF AtWorker, RequestInv, InOnePlace
<1>7. nsHistory'.twice = {} /\ nsHistory'.cancelled = nsHistory.cancelled
  BY <1>4, <1>6 DEF Delivered, RequestInv
<1>8. UNCHANGED <<nsConf, nsSession, nsQueue>>
  BY DEF Replies
<1>9. nsWorker' = [v \in NsWorker |-> nsWorker'[v]]
      /\ \A v \in NsWorker : nsWorker'[v] = IF v = w THEN IdleWorker ELSE nsWorker[v]
  BY DEF Replies, RequestInv, Places
<1>10. IdleWorker.stage = "idle"
  BY DEF IdleWorker
<1>11. nsHistory' = [answers |-> nsHistory'.answers, twice |-> nsHistory'.twice, cancelled |-> nsHistory'.cancelled,
                     staged |-> nsHistory'.staged, committed |-> nsHistory'.committed]
  BY <1>4 DEF Delivered
<1>12. Places'
  BY <1>1, <1>7, <1>8, <1>9, <1>11 DEF RequestInv, Places
<1>13. \A q \in NsSession, m \in Nat :
          /\ InQueue(q, m)' <=> InQueue(q, m)
          /\ AtWorker(q, m)' <=> AtWorker(q, m) /\ ~(q = s /\ m = r)
          /\ HasAnswer(q, m)' <=> HasAnswer(q, m) \/ (q = s /\ m = r)
  <2> SUFFICES ASSUME NEW q \in NsSession, NEW m \in Nat
               PROVE  /\ InQueue(q, m)' <=> InQueue(q, m)
                      /\ AtWorker(q, m)' <=> AtWorker(q, m) /\ ~(q = s /\ m = r)
                      /\ HasAnswer(q, m)' <=> HasAnswer(q, m) \/ (q = s /\ m = r)
    OBVIOUS
  <2>1. InQueue(q, m)' <=> InQueue(q, m)
    BY <1>8 DEF InQueue
  <2>2. HasAnswer(q, m)' <=> HasAnswer(q, m) \/ (q = s /\ m = r)
    BY <1>5 DEF HasAnswer
  <2>3. \A v \in NsWorker : ~At(v, "idle") /\ Job(v).session = s /\ Job(v).req = r => v = w
    BY <1>2, <1>3 DEF RequestInv, WorkedOnce
  <2>4. AtWorker(q, m)' <=> AtWorker(q, m) /\ ~(q = s /\ m = r)
    BY <2>3, <1>3, <1>9, <1>10 DEF AtWorker, At, Job
  <2> QED BY <2>1, <2>2, <2>4
<1>14. QueuedOnce'
  BY <1>8 DEF RequestInv, QueuedOnce
<1>15. WorkedOnce'
  BY <1>9, <1>10 DEF RequestInv, WorkedOnce, At, Job
<1>16. InOnePlace'
  BY <1>6, <1>8, <1>13 DEF RequestInv, InOnePlace
<1>17. PendingIsQueued'
  BY <1>1, <1>13 DEF RequestInv, PendingIsQueued
<1>18. <<s, r>> \notin nsHistory.cancelled
  BY <1>6 DEF RequestInv, CancelsKept, PendingIsQueued
<1>19. CancelsKept'
  <2> SUFFICES ASSUME NEW q \in NsSession, NEW m \in Nat, <<q, m>> \in nsHistory.cancelled
               PROVE  \/ <<q, m>> \in nsPending.cancelled
                      \/ HasAnswer(q, m)' /\ \A b \in nsHistory'.answers : b.session = q /\ b.req = m => b.what = "cancelled"
    BY <1>1, <1>7 DEF CancelsKept
  <2>1. ~(q = s /\ m = r)
    BY <1>18
  <2> QED BY <2>1, <1>5, <1>13 DEF RequestInv, CancelsKept
<1>20. ClosedIsIdle'
  BY <1>8, <1>9, <1>10 DEF RequestInv, ClosedIsIdle, Working, Queued
<1>21. \A b \in nsHistory'.answers : b.session \in NsSession /\ b.req \in Nat
  BY <1>5 DEF RequestInv
<1> QED BY <1>7, <1>12, <1>14, <1>15, <1>16, <1>17, <1>19, <1>20, <1>21 DEF RequestInv

\* What Tail leaves of the queue.
LEMMA TailFact ==
    ASSUME NEW q \in Seq(SomeJob), q # <<>>
    PROVE  /\ Tail(q) \in Seq(SomeJob) /\ Head(q) = q[1] /\ q[1] \in SomeJob /\ 1 \in DOMAIN q
           /\ \A i \in DOMAIN Tail(q) : i \in Nat /\ i + 1 \in DOMAIN q /\ Tail(q)[i] = q[i + 1]
           /\ \A i \in DOMAIN q : i = 1 \/ (i - 1 \in DOMAIN Tail(q) /\ Tail(q)[i - 1] = q[i])
<1>1. Len(q) \in Nat \ {0}
  OBVIOUS
<1> QED BY <1>1

\* What a worker finds at the head of the queue is at no other place.
LEMMA HeadFact ==
    ASSUME RequestInv, nsQueue # <<>>, nsQueue' = Tail(nsQueue)
    PROVE  \E s \in NsSession, r \in Nat :
             /\ Head(nsQueue) \in SomeJob /\ Head(nsQueue).session = s /\ Head(nsQueue).req = r
             /\ InQueue(s, r) /\ ~AtWorker(s, r) /\ ~HasAnswer(s, r) /\ Queued(s)
             /\ \A q \in NsSession, m \in Nat : InQueue(q, m)' <=> InQueue(q, m) /\ ~(q = s /\ m = r)
             /\ \A q \in NsSession : Queued(q)' => Queued(q)
             /\ nsQueue' \in Seq(SomeJob) /\ QueuedOnce'
<1>1. nsQueue \in Seq(SomeJob)
  BY DEF RequestInv, Places
<1>2. /\ Tail(nsQueue) \in Seq(SomeJob) /\ Head(nsQueue) = nsQueue[1] /\ nsQueue[1] \in SomeJob /\ 1 \in DOMAIN nsQueue
      /\ \A i \in DOMAIN nsQueue' : i \in Nat /\ i + 1 \in DOMAIN nsQueue /\ nsQueue'[i] = nsQueue[i + 1]
      /\ \A i \in DOMAIN nsQueue : i = 1 \/ (i - 1 \in DOMAIN nsQueue' /\ nsQueue'[i - 1] = nsQueue[i])
  BY <1>1, TailFact
<1>3. PICK s \in NsSession, r \in Nat : s = nsQueue[1].session /\ r = nsQueue[1].req
  BY <1>2 DEF SomeJob
<1>4. InQueue(s, r) /\ Queued(s)
  BY <1>2, <1>3 DEF InQueue, Queued
<1>5. ~AtWorker(s, r) /\ ~HasAnswer(s, r)
  BY <1>4 DEF RequestInv, InOnePlace
<1>6. \A i \in DOMAIN nsQueue : nsQueue[i].session = s /\ nsQueue[i].req = r => i = 1
  BY <1>2, <1>3 DEF RequestInv, QueuedOnce
<1>7. ASSUME NEW q \in NsSession, NEW m \in Nat
      PROVE  InQueue(q, m)' <=> InQueue(q, m) /\ ~(q = s /\ m = r)
  <2>1. ASSUME InQueue(q, m)' PROVE InQueue(q, m) /\ ~(q = s /\ m = r)
    <3>1. PICK i \in DOMAIN nsQueue' : nsQueue'[i].session = q /\ nsQueue'[i].req = m
      BY <2>1 DEF InQueue
    <3>2. i + 1 \in DOMAIN nsQueue /\ nsQueue[i + 1].session = q /\ nsQueue[i + 1].req = m /\ i \in Nat
      BY <3>1, <1>2
    <3>3. i # 0
      BY <3>1, <1>1, <1>2
    <3> QED BY <3>2, <3>3, <1>6 DEF InQueue
  <2>2. ASSUME InQueue(q, m), ~(q = s /\ m = r) PROVE InQueue(q, m)'
    <3>1. PICK i \in DOMAIN nsQueue : nsQueue[i].session = q /\ nsQueue[i].req = m
      BY <2>2 DEF InQueue
    <3>2. i # 1
      BY <3>1, <2>2, <1>3
    <3> QED BY <3>1, <3>2, <1>2 DEF InQueue
  <2> QED BY <2>1, <2>2
<1>8. \A q \in NsSession : Queued(q)' => Queued(q)
  BY <1>2 DEF Queued
<1>9. QueuedOnce'
  <2> SUFFICES ASSUME NEW i \in DOMAIN nsQueue', NEW k \in DOMAIN nsQueue',
                      nsQueue'[i].session = nsQueue'[k].session, nsQueue'[i].req = nsQueue'[k].req
               PROVE  i = k
    BY DEF QueuedOnce
  <2>1. i + 1 = k + 1
    BY <1>2 DEF RequestInv, QueuedOnce
  <2> QED BY <2>1, <1>2
<1> QED BY <1>2, <1>3, <1>4, <1>5, <1>7, <1>8, <1>9

\* TakeJob gives the request to the worker, or answers a cancelled one.
LEMMA TakeJobKeeps ==
    ASSUME RequestInv, NEW w \in NsWorker, TakeJob(w)
    PROVE  RequestInv'
<1>1. PICK s \in NsSession, r \in Nat :
             /\ Head(nsQueue) \in SomeJob /\ Head(nsQueue).session = s /\ Head(nsQueue).req = r
             /\ InQueue(s, r) /\ ~AtWorker(s, r) /\ ~HasAnswer(s, r) /\ Queued(s)
             /\ \A q \in NsSession, m \in Nat : InQueue(q, m)' <=> InQueue(q, m) /\ ~(q = s /\ m = r)
             /\ \A q \in NsSession : Queued(q)' => Queued(q)
             /\ nsQueue' \in Seq(SomeJob) /\ QueuedOnce'
  BY HeadFact DEF TakeJob
<1>2. Key(Head(nsQueue)) = <<s, r>>
  BY <1>1 DEF Key
<1>3. nsPending' = [pending |-> nsPending.pending \ {<<s, r>>}, cancelled |-> nsPending.cancelled \ {<<s, r>>}]
  BY <1>2 DEF TakeJob, TakeCancelled
<1>4. /\ nsPending'.pending = nsPending.pending \ {<<s, r>>} /\ nsPending'.cancelled = nsPending.cancelled \ {<<s, r>>}
      /\ nsPending' \in [pending : SUBSET SomeKey, cancelled : SUBSET SomeKey]
  BY <1>3 DEF RequestInv, Places
<1>5. PendingIsQueued'
  BY <1>1, <1>4 DEF RequestInv, PendingIsQueued
<1>6. UNCHANGED <<nsConf, nsSession>>
  BY DEF TakeJob
<1>7. r \in 1..nsSession[s].sent
  BY <1>1 DEF RequestInv, InOnePlace
<1>8. CASE <<s, r>> \in nsPending.cancelled
  <2>1. nsHistory' = Answered(nsHistory, Answer(s, r, "cancelled", 0)) /\ UNCHANGED nsWorker
    BY <1>1, <1>2, <1>8 DEF TakeJob
  <2>2. Delivered(s, r, "cancelled")
    BY <2>1, ReplyDelivers DEF RequestInv
  <2>3. PICK a : a.session = s /\ a.req = r /\ a.what = "cancelled" /\ nsHistory'.answers = nsHistory.answers \cup {a}
    BY <2>2 DEF Delivered
  <2>4. nsHistory'.twice = {} /\ nsHistory'.cancelled = nsHistory.cancelled
    BY <2>2, <1>1 DEF Delivered, RequestInv
  <2>5. nsHistory' = [answers |-> nsHistory'.answers, twice |-> nsHistory'.twice, cancelled |-> nsHistory'.cancelled,
                      staged |-> nsHistory'.staged, committed |-> nsHistory'.committed]
    BY <2>2 DEF Delivered
  <2>6. Places'
    BY <1>1, <1>4, <1>6, <2>1, <2>4, <2>5 DEF RequestInv, Places
  <2>7. \A q \in NsSession, m \in Nat :
          /\ AtWorker(q, m)' <=> AtWorker(q, m)
          /\ HasAnswer(q, m)' <=> HasAnswer(q, m) \/ (q = s /\ m = r)
    BY <2>1, <2>3 DEF AtWorker, HasAnswer, At, Job
  <2>8. InOnePlace'
    BY <1>1, <1>6, <1>7, <2>7 DEF RequestInv, InOnePlace
  <2>9. WorkedOnce'
    BY <2>1 DEF RequestInv, WorkedOnce, At, Job
  <2>10. CancelsKept'
    <3> SUFFICES ASSUME NEW q \in NsSession, NEW m \in Nat, <<q, m>> \in nsHistory.cancelled
                 PROVE  \/ <<q, m>> \in nsPending'.cancelled
                        \/ HasAnswer(q, m)' /\ \A b \in nsHistory'.answers : b.session = q /\ b.req = m => b.what = "cancelled"
      BY <2>4 DEF CancelsKept
    <3>1. CASE q = s /\ m = r
      BY <3>1, <1>1, <2>3, <2>7 DEF HasAnswer
    <3>2. CASE ~(q = s /\ m = r)
      BY <3>2, <1>4, <2>3, <2>7 DEF RequestInv, CancelsKept
    <3> QED BY <3>1, <3>2
  <2>11. ClosedIsIdle'
    BY <1>1, <1>6, <2>1 DEF RequestInv, ClosedIsIdle, Working
  <2>12. \A b \in nsHistory'.answers : b.session \in NsSession /\ b.req \in Nat
    BY <2>3 DEF RequestInv
  <2> QED BY <1>1, <1>5, <2>4, <2>6, <2>8, <2>9, <2>10, <2>11, <2>12 DEF RequestInv
<1>9. CASE <<s, r>> \notin nsPending.cancelled
  <2>1. PICK job : job = Head(nsQueue)
    OBVIOUS
  <2>2. PICK x : x = [stage |-> "taken", job |-> job, data |-> 0]
    OBVIOUS
  <2>3. x.stage = "taken" /\ x.job = job /\ x.data = 0 /\ job \in SomeJob /\ job.session = s /\ job.req = r
    BY <1>1, <2>1, <2>2
  <2>4. Busy(x)
    BY <2>2, <2>3 DEF Busy, BusyStage
  <2>5. nsWorker' = [nsWorker EXCEPT ![w] = x] /\ UNCHANGED nsHistory /\ At(w, "idle")
    BY <1>2, <1>9, <2>1, <2>2 DEF TakeJob
  <2>6. nsWorker' = [v \in NsWorker |-> nsWorker'[v]] /\ \A v \in NsWorker : nsWorker'[v] = IF v = w THEN x ELSE nsWorker[v]
    BY <2>5 DEF RequestInv, Places
  <2>7. Places'
    BY <1>1, <1>4, <1>6, <2>4, <2>5, <2>6 DEF RequestInv, Places
  <2>8. \A q \in NsSession, m \in Nat :
          /\ AtWorker(q, m)' <=> AtWorker(q, m) \/ (q = s /\ m = r)
          /\ HasAnswer(q, m)' <=> HasAnswer(q, m)
    BY <2>3, <2>5, <2>6 DEF AtWorker, HasAnswer, At, Job
  <2>9. InOnePlace'
    BY <1>1, <1>6, <1>7, <2>8 DEF RequestInv, InOnePlace
  <2>10. WorkedOnce'
    BY <1>1, <2>3, <2>5, <2>6 DEF RequestInv, WorkedOnce, At, Job, AtWorker
  <2>11. CancelsKept'
    BY <1>4, <1>9, <2>5, <2>8 DEF RequestInv, CancelsKept
  <2>12. ClosedIsIdle'
    BY <1>1, <1>6, <2>3, <2>6 DEF RequestInv, ClosedIsIdle, Working
  <2>13. nsHistory'.twice = {} /\ \A b \in nsHistory'.answers : b.session \in NsSession /\ b.req \in Nat
    BY <2>5 DEF RequestInv
  <2> QED BY <1>1, <1>5, <2>7, <2>9, <2>10, <2>11, <2>12, <2>13 DEF RequestInv
<1> QED BY <1>8, <1>9

\* What Append adds to the queue.
LEMMA AppendFact ==
    ASSUME NEW q \in Seq(SomeJob), NEW job \in SomeJob
    PROVE  /\ Append(q, job) \in Seq(SomeJob)
           /\ \A i \in DOMAIN q : i \in DOMAIN Append(q, job) /\ Append(q, job)[i] = q[i]
           /\ \A i \in DOMAIN Append(q, job) : i \in DOMAIN q \/ (i = Len(q) + 1 /\ Append(q, job)[i] = job)
           /\ Len(q) + 1 \in DOMAIN Append(q, job) /\ Append(q, job)[Len(q) + 1] = job
           /\ Len(q) + 1 \notin DOMAIN q
OBVIOUS

\* What Submit does to the session: one more request, and perhaps its end.
SendsOne(s) ==
    /\ nsSession' \in [NsSession -> SomeSession]
    /\ \A q \in NsSession : q # s => nsSession'[q] = nsSession[q]
    /\ nsSession'[s].sent = nsSession[s].sent + 1 /\ nsSession'[s].writer = nsSession[s].writer
    /\ nsSession[s].state = "open"
    /\ nsSession'[s].state \in {"open", "lost"}
    /\ nsSession'[s].state = "lost" => nsSession[s].writer = "failed"

\* Submit sends one request.
LEMMA SubmitSendsOne ==
    ASSUME RequestInv, NEW s \in NsSession, Submit(s)
    PROVE  SendsOne(s)
<1>1. nsSession \in [NsSession -> SomeSession]
  BY DEF RequestInv, Places
<1>2. PICK r \in Nat, st \in {"open", "lost"} :
          /\ r = nsSession[s].sent + 1 /\ (st = "lost" => nsSession[s].writer = "failed")
          /\ nsSession' = [nsSession EXCEPT ![s].sent = r, ![s].state = st]
  <2>1. nsSession[s] \in SomeSession /\ nsSession[s].sent + 1 \in Nat /\ nsSession[s].state = "open"
    BY <1>1 DEF SomeSession, Submit
  <2>2. PICK r \in Nat : r = nsSession[s].sent + 1
    BY <2>1
  <2>3. CASE Len(nsQueue) < QueueCapacity \/ nsSession[s].writer # "failed"
    <3>1. nsSession' = [nsSession EXCEPT ![s].sent = r, ![s].state = "open"]
      BY <1>1, <2>1, <2>2, <2>3 DEF Submit, SomeSession
    <3> QED BY <3>1, <2>2
  <2>4. CASE ~(Len(nsQueue) < QueueCapacity \/ nsSession[s].writer # "failed")
    <3>1. nsSession' = [nsSession EXCEPT ![s].sent = r, ![s].state = "lost"]
      BY <1>1, <2>1, <2>2, <2>4 DEF Submit, SomeSession
    <3> QED BY <3>1, <2>2, <2>4
  <2> QED BY <2>3, <2>4
<1>3. nsSession[s] \in SomeSession /\ nsSession[s].state = "open"
  BY <1>1 DEF Submit
<1>4. nsSession'[s] = [nsSession[s] EXCEPT !.sent = r, !.state = st] /\ \A q \in NsSession : q # s => nsSession'[q] = nsSession[q]
  BY <1>1, <1>2
<1>5. nsSession'[s].sent = r /\ nsSession'[s].writer = nsSession[s].writer /\ nsSession'[s].state = st
      /\ nsSession'[s] \in SomeSession
  BY <1>3, <1>4 DEF SomeSession
<1>6. nsSession' \in [NsSession -> SomeSession]
  BY <1>1, <1>2, <1>4, <1>5
<1> QED BY <1>2, <1>3, <1>4, <1>5, <1>6 DEF SendsOne

\* A new request: its number was never used, so it is at no place yet.
LEMMA SubmitKeeps ==
    ASSUME RequestInv, NEW s \in NsSession, Submit(s)
    PROVE  RequestInv'
<1>1. SendsOne(s)
  BY SubmitSendsOne
<1>2. nsSession \in [NsSession -> SomeSession] /\ nsConf \in SomeConf /\ nsQueue \in Seq(SomeJob)
  BY DEF RequestInv, Places
<1>3. PICK r \in Nat : r = nsSession[s].sent + 1
  BY <1>2 DEF SomeSession
<1>4. r \notin 1..nsSession[s].sent /\ \A m \in Nat : m \in 1..nsSession'[s].sent <=> m \in 1..nsSession[s].sent \/ m = r
  BY <1>1, <1>2, <1>3 DEF SendsOne, SomeSession
<1>5. ~InQueue(s, r) /\ ~AtWorker(s, r) /\ ~HasAnswer(s, r)
  BY <1>4 DEF RequestInv, InOnePlace
<1>6. r \in DOMAIN nsConf.programs[s] /\ nsConf.programs[s] \in Seq(SentCall)
  BY <1>2, <1>3 DEF Submit, SomeConf, SomeSession
<1>7. PICK call \in SentCall : call = nsConf.programs[s][r]
  BY <1>6
<1>8. PICK job \in SomeJob : job = [session |-> s, req |-> r, call |-> call]
  BY DEF SomeJob
<1>9. Key(job) = <<s, r>> /\ job.session = s /\ job.req = r
  BY <1>8 DEF Key
<1>10. UNCHANGED <<nsConf, nsWorker>>
  BY DEF Submit
<1>11. <<s, r>> \notin nsPending.pending /\ <<s, r>> \notin nsPending.cancelled /\ <<s, r>> \notin nsHistory.cancelled
  BY <1>5 DEF RequestInv, PendingIsQueued, CancelsKept
<1>12. nsPending \in [pending : SUBSET SomeKey, cancelled : SUBSET SomeKey] /\ <<s, r>> \in SomeKey
  BY DEF RequestInv, Places, SomeKey
<1>13. WorkedOnce' /\ \A q, m : AtWorker(q, m)' <=> AtWorker(q, m)
  BY <1>10 DEF RequestInv, WorkedOnce, AtWorker, At, Job
<1>14. CASE Len(nsQueue) < QueueCapacity
  <2>1. nsQueue' = Append(nsQueue, job) /\ nsPending' = Register(nsPending, <<s, r>>) /\ nsHistory' = nsHistory
    BY <1>3, <1>7, <1>8, <1>9, <1>14 DEF Submit
  <2>2. /\ nsQueue' \in Seq(SomeJob)
        /\ \A i \in DOMAIN nsQueue : i \in DOMAIN nsQueue' /\ nsQueue'[i] = nsQueue[i]
        /\ \A i \in DOMAIN nsQueue' : i \in DOMAIN nsQueue \/ (i = Len(nsQueue) + 1 /\ nsQueue'[i] = job)
        /\ Len(nsQueue) + 1 \in DOMAIN nsQueue' /\ nsQueue'[Len(nsQueue) + 1] = job
        /\ Len(nsQueue) + 1 \notin DOMAIN nsQueue
    BY <1>2, <2>1, AppendFact
  <2>3. \A q, m : InQueue(q, m)' <=> InQueue(q, m) \/ (q = s /\ m = r)
    BY <1>9, <2>2 DEF InQueue
  <2>4. \A q, m : HasAnswer(q, m)' <=> HasAnswer(q, m)
    BY <2>1 DEF HasAnswer
  <2>5. /\ nsPending'.pending = nsPending.pending \cup {<<s, r>>} /\ nsPending'.cancelled = nsPending.cancelled \ {<<s, r>>}
        /\ nsPending' \in [pending : SUBSET SomeKey, cancelled : SUBSET SomeKey]
    BY <1>12, <2>1 DEF Register
  <2>6. Places'
    BY <1>1, <1>10, <2>1, <2>2, <2>5 DEF RequestInv, Places, SendsOne
  <2>7. QueuedOnce'
    <3> SUFFICES ASSUME NEW i \in DOMAIN nsQueue', NEW k \in DOMAIN nsQueue',
                        nsQueue'[i].session = nsQueue'[k].session, nsQueue'[i].req = nsQueue'[k].req
                 PROVE  i = k
      BY DEF QueuedOnce
    <3>1. CASE i \in DOMAIN nsQueue /\ k \in DOMAIN nsQueue
      BY <3>1, <2>2 DEF RequestInv, QueuedOnce
    <3>2. CASE i \notin DOMAIN nsQueue \/ k \notin DOMAIN nsQueue
      BY <3>2, <1>5, <1>9, <2>2 DEF InQueue
    <3> QED BY <3>1, <3>2
  <2>8. InOnePlace'
    <3> SUFFICES ASSUME NEW q \in NsSession, NEW m \in Nat
                 PROVE  /\ ~(InQueue(q, m) /\ AtWorker(q, m))' /\ ~(InQueue(q, m) /\ HasAnswer(q, m))'
                        /\ ~(AtWorker(q, m) /\ HasAnswer(q, m))'
                        /\ (InQueue(q, m) \/ AtWorker(q, m) \/ HasAnswer(q, m))' <=> m \in 1..nsSession'[q].sent
      BY DEF InOnePlace
    <3>1. m \in 1..nsSession'[q].sent <=> m \in 1..nsSession[q].sent \/ (q = s /\ m = r)
      BY <1>1, <1>4 DEF SendsOne
    <3> QED BY <3>1, <1>5, <1>13, <2>3, <2>4 DEF RequestInv, InOnePlace
  <2>9. PendingIsQueued'
    BY <1>11, <2>3, <2>5 DEF RequestInv, PendingIsQueued
  <2>10. CancelsKept'
    BY <1>11, <2>1, <2>4, <2>5 DEF RequestInv, CancelsKept
  <2>11. ClosedIsIdle'
    BY <1>1, <1>9, <1>10, <2>2 DEF RequestInv, ClosedIsIdle, Working, Queued, SendsOne
  <2> QED BY <1>13, <2>1, <2>6, <2>7, <2>8, <2>9, <2>10, <2>11 DEF RequestInv
<1>15. CASE ~(Len(nsQueue) < QueueCapacity)
  <2>1. nsQueue' = nsQueue /\ nsPending' = StartPending(Register(nsPending, <<s, r>>), <<s, r>>)
        /\ nsHistory' = Answered(nsHistory, Answer(s, r, "full", 0))
    BY <1>3, <1>7, <1>8, <1>9, <1>15 DEF Submit
  <2>2. nsPending' = nsPending
    <3>1. (nsPending.pending \cup {<<s, r>>}) \ {<<s, r>>} = nsPending.pending
          /\ (nsPending.cancelled \ {<<s, r>>}) \ {<<s, r>>} = nsPending.cancelled
      BY <1>11
    <3>2. nsPending' = [pending |-> nsPending.pending, cancelled |-> nsPending.cancelled]
      BY <2>1, <3>1 DEF StartPending, Register
    <3> QED BY <1>12, <3>2
  <2>3. Delivered(s, r, "full")
    BY <2>1, ReplyDelivers DEF RequestInv
  <2>4. PICK a : a.session = s /\ a.req = r /\ a.what = "full" /\ nsHistory'.answers = nsHistory.answers \cup {a}
    BY <2>3 DEF Delivered
  <2>5. nsHistory'.twice = {} /\ nsHistory'.cancelled = nsHistory.cancelled
    BY <2>3, <1>5 DEF Delivered, RequestInv
  <2>6. nsHistory' = [answers |-> nsHistory'.answers, twice |-> nsHistory'.twice, cancelled |-> nsHistory'.cancelled,
                      staged |-> nsHistory'.staged, committed |-> nsHistory'.committed]
    BY <2>3 DEF Delivered
  <2>7. Places'
    BY <1>1, <1>10, <2>1, <2>2, <2>5, <2>6 DEF RequestInv, Places, SendsOne
  <2>8. \A q, m : /\ InQueue(q, m)' <=> InQueue(q, m)
                  /\ HasAnswer(q, m)' <=> HasAnswer(q, m) \/ (q = s /\ m = r)
    BY <2>1, <2>4 DEF InQueue, HasAnswer
  <2>9. InOnePlace'
    <3> SUFFICES ASSUME NEW q \in NsSession, NEW m \in Nat
                 PROVE  /\ ~(InQueue(q, m) /\ AtWorker(q, m))' /\ ~(InQueue(q, m) /\ HasAnswer(q, m))'
                        /\ ~(AtWorker(q, m) /\ HasAnswer(q, m))'
                        /\ (InQueue(q, m) \/ AtWorker(q, m) \/ HasAnswer(q, m))' <=> m \in 1..nsSession'[q].sent
      BY DEF InOnePlace
    <3>1. m \in 1..nsSession'[q].sent <=> m \in 1..nsSession[q].sent \/ (q = s /\ m = r)
      BY <1>1, <1>4 DEF SendsOne
    <3> QED BY <3>1, <1>5, <1>13, <2>8 DEF RequestInv, InOnePlace
  <2>10. QueuedOnce' /\ PendingIsQueued'
    BY <2>1, <2>2, <2>8 DEF RequestInv, PendingIsQueued, QueuedOnce
  <2>11. CancelsKept'
    BY <1>11, <2>2, <2>4, <2>5, <2>8 DEF RequestInv, CancelsKept
  <2>12. ClosedIsIdle'
    BY <1>1, <1>10, <2>1 DEF RequestInv, ClosedIsIdle, Working, Queued, SendsOne
  <2>13. \A b \in nsHistory'.answers : b.session \in NsSession /\ b.req \in Nat
    BY <2>4 DEF RequestInv
  <2> QED BY <1>13, <2>5, <2>7, <2>9, <2>10, <2>11, <2>12, <2>13 DEF RequestInv
<1> QED BY <1>14, <1>15

\* A step that leaves every request where it is: a connection ends or breaks,
\* or the routing table changes.
Turns ==
    /\ nsConf' \in SomeConf
    /\ nsSession' \in [NsSession -> SomeSession]
    /\ \A q \in NsSession : /\ nsSession'[q].sent = nsSession[q].sent
                            /\ nsSession'[q].state = "closed" => nsSession[q].state = "closed" \/ Drained(q)
    /\ UNCHANGED <<nsQueue, nsWorker, nsPending, nsHistory>>

\* Such a step keeps the place of every request.
LEMMA TurnsKeeps ==
    ASSUME RequestInv, Turns
    PROVE  RequestInv'
<1>1. UNCHANGED <<nsQueue, nsWorker, nsPending, nsHistory>> /\ \A q \in NsSession : nsSession'[q].sent = nsSession[q].sent
  BY DEF Turns
<1>2. \A q, m : /\ InQueue(q, m)' <=> InQueue(q, m)
                /\ AtWorker(q, m)' <=> AtWorker(q, m)
                /\ HasAnswer(q, m)' <=> HasAnswer(q, m)
  BY <1>1 DEF InQueue, AtWorker, HasAnswer, At, Job
<1>3. Places'
  BY DEF RequestInv, Places, Turns
<1>4. QueuedOnce' /\ WorkedOnce'
  BY <1>1 DEF RequestInv, QueuedOnce, WorkedOnce, At, Job
<1>5. InOnePlace'
  BY <1>1, <1>2 DEF RequestInv, InOnePlace
<1>6. PendingIsQueued' /\ CancelsKept'
  BY <1>1, <1>2 DEF RequestInv, PendingIsQueued, CancelsKept
<1>7. \A q \in NsSession : /\ Working(q)' <=> Working(q)
                           /\ Queued(q)' <=> Queued(q)
  BY <1>1 DEF Working, Queued
<1>8. ClosedIsIdle'
  BY <1>7 DEF RequestInv, ClosedIsIdle, Turns, Drained
<1> QED BY <1>1, <1>3, <1>4, <1>5, <1>6, <1>8 DEF RequestInv

\* The session of one connection with a new state.
LEMMA StateSet ==
    ASSUME Places, NEW s \in NsSession, NEW x \in {"open", "draining", "closed", "lost"},
           nsSession' = [nsSession EXCEPT ![s].state = x]
    PROVE  /\ nsSession' \in [NsSession -> SomeSession]
           /\ \A q \in NsSession : nsSession'[q].sent = nsSession[q].sent /\ nsSession'[q].writer = nsSession[q].writer
                                   /\ nsSession'[q].state = IF q = s THEN x ELSE nsSession[q].state
<1>1. nsSession \in [NsSession -> SomeSession]
  BY DEF Places
<1> QED BY <1>1 DEF SomeSession

\* The same with a new writer.
LEMMA WriterSet ==
    ASSUME Places, NEW s \in NsSession, NEW x \in {"ok", "failed"},
           nsSession' = [nsSession EXCEPT ![s].writer = x]
    PROVE  /\ nsSession' \in [NsSession -> SomeSession]
           /\ \A q \in NsSession : nsSession'[q].sent = nsSession[q].sent /\ nsSession'[q].state = nsSession[q].state
                                   /\ nsSession'[q].writer = IF q = s THEN x ELSE nsSession[q].writer
<1>1. nsSession \in [NsSession -> SomeSession]
  BY DEF Places
<1> QED BY <1>1 DEF SomeSession

\* An instance with the same limits and no fault more.
SameLimits(c) == c \in SomeConf /\ c.window = nsConf.window /\ c.limit = nsConf.limit /\ c.breaks <= nsConf.breaks

\* One fault or cancel fewer, or a new epoch, leaves the limits.
LEMMA ConfSet ==
    ASSUME Places
    PROVE  /\ nsConf.breaks > 0 => SameLimits([nsConf EXCEPT !.breaks = @ - 1])
           /\ nsConf.cancels > 0 => SameLimits([nsConf EXCEPT !.cancels = @ - 1])
           /\ nsConf.reroutes > 0 => SameLimits([nsConf EXCEPT !.reroutes = @ - 1, !.epoch = @ + 1])
<1>1. nsConf \in SomeConf
  BY DEF Places
<1>2. ASSUME nsConf.breaks > 0 PROVE SameLimits([nsConf EXCEPT !.breaks = @ - 1])
  <2>1. PICK n \in Nat : n = nsConf.breaks - 1 /\ n <= nsConf.breaks
    BY <1>1, <1>2 DEF SomeConf
  <2>2. PICK c : c = [nsConf EXCEPT !.breaks = n]
    OBVIOUS
  <2>3. c \in SomeConf /\ c.window = nsConf.window /\ c.limit = nsConf.limit /\ c.breaks = n
    BY <1>1, <2>2 DEF SomeConf
  <2>4. SameLimits(c)
    BY <2>1, <2>3 DEF SameLimits
  <2> QED BY <2>1, <2>2, <2>4
<1>3. ASSUME nsConf.cancels > 0 PROVE SameLimits([nsConf EXCEPT !.cancels = @ - 1])
  <2>1. PICK n \in Nat : n = nsConf.cancels - 1
    BY <1>1, <1>3 DEF SomeConf
  <2>2. PICK c : c = [nsConf EXCEPT !.cancels = n]
    OBVIOUS
  <2>3. c \in SomeConf /\ c.window = nsConf.window /\ c.limit = nsConf.limit /\ c.breaks = nsConf.breaks
    BY <1>1, <2>2 DEF SomeConf
  <2>4. SameLimits(c)
    BY <2>3 DEF SameLimits, SomeConf
  <2> QED BY <2>1, <2>2, <2>4
<1>4. ASSUME nsConf.reroutes > 0 PROVE SameLimits([nsConf EXCEPT !.reroutes = @ - 1, !.epoch = @ + 1])
  <2>1. PICK n \in Nat, m \in Nat : n = nsConf.reroutes - 1 /\ m = nsConf.epoch + 1
    BY <1>1, <1>4 DEF SomeConf
  <2>2. PICK c : c = [nsConf EXCEPT !.reroutes = n, !.epoch = m]
    OBVIOUS
  <2>3. c \in SomeConf /\ c.window = nsConf.window /\ c.limit = nsConf.limit /\ c.breaks = nsConf.breaks
    BY <1>1, <2>2 DEF SomeConf
  <2>4. SameLimits(c)
    BY <2>3 DEF SameLimits, SomeConf
  <2> QED BY <2>1, <2>2, <2>4
<1> QED BY <1>2, <1>3, <1>4

\* No request of a drained connection is pending.
LEMMA DrainedPending ==
    ASSUME RequestInv, NEW s \in NsSession, ~Queued(s)
    PROVE  ClosePending(nsPending, s) = nsPending /\ \A k \in nsPending.pending \cup nsPending.cancelled : k[1] # s
<1>1. nsPending \in [pending : SUBSET SomeKey, cancelled : SUBSET SomeKey]
  BY DEF RequestInv, Places
<1>2. ASSUME NEW k \in nsPending.pending \cup nsPending.cancelled
      PROVE  k[1] # s
  <2>1. PICK q \in NsSession, m \in Nat : k = <<q, m>>
    BY <1>1 DEF SomeKey
  <2>2. InQueue(q, m)
    BY <2>1 DEF RequestInv, PendingIsQueued
  <2>3. q # s
    BY <2>2 DEF InQueue, Queued
  <2> QED BY <2>1, <2>3
<1>3. {k \in nsPending.pending : k[1] # s} = nsPending.pending /\ {k \in nsPending.cancelled : k[1] # s} = nsPending.cancelled
  BY <1>2
<1>4. ClosePending(nsPending, s) = [pending |-> nsPending.pending, cancelled |-> nsPending.cancelled]
  BY <1>3 DEF ClosePending
<1> QED BY <1>1, <1>2, <1>4

\* The steps that turn.
LEMMA QuitTurns ==
    ASSUME RequestInv, NEW s \in NsSession, Quit(s) \/ ReadFails(s) \/ WriteFails(s) \/ CloseNativeSession(s) \/ RoutingChanges
    PROVE  Turns
<1> Places
  BY DEF RequestInv
<1>1. CASE Quit(s)
  <2>1. nsSession' = [nsSession EXCEPT ![s].state = "draining"] /\ UNCHANGED <<nsConf, nsQueue, nsWorker, nsPending, nsHistory>>
    BY <1>1 DEF Quit, stores
  <2>2. /\ nsSession' \in [NsSession -> SomeSession]
        /\ \A q \in NsSession : nsSession'[q].sent = nsSession[q].sent /\ nsSession'[q].writer = nsSession[q].writer
                                /\ nsSession'[q].state = IF q = s THEN "draining" ELSE nsSession[q].state
    BY <2>1, StateSet
  <2> QED BY <2>1, <2>2 DEF Turns, Places
<1>2. CASE ReadFails(s)
  <2>1. nsSession' = [nsSession EXCEPT ![s].state = "lost"] /\ UNCHANGED <<nsQueue, nsWorker, nsPending, nsHistory>>
    BY <1>2 DEF ReadFails, stores
  <2>2. nsConf' \in SomeConf
    BY <1>2, ConfSet DEF ReadFails, SameLimits
  <2>3. /\ nsSession' \in [NsSession -> SomeSession]
        /\ \A q \in NsSession : nsSession'[q].sent = nsSession[q].sent /\ nsSession'[q].writer = nsSession[q].writer
                                /\ nsSession'[q].state = IF q = s THEN "lost" ELSE nsSession[q].state
    BY <2>1, StateSet
  <2> QED BY <2>1, <2>2, <2>3 DEF Turns
<1>3. CASE WriteFails(s)
  <2>1. nsSession' = [nsSession EXCEPT ![s].writer = "failed"] /\ UNCHANGED <<nsQueue, nsWorker, nsPending, nsHistory>>
    BY <1>3 DEF WriteFails, stores
  <2>2. nsConf' \in SomeConf
    BY <1>3, ConfSet DEF WriteFails, SameLimits
  <2>3. nsSession' \in [NsSession -> SomeSession]
        /\ \A q \in NsSession : /\ nsSession'[q].sent = nsSession[q].sent
                                /\ nsSession'[q].state = nsSession[q].state \/ nsSession'[q].state = "lost"
    BY <2>1, WriterSet
  <2> QED BY <2>1, <2>2, <2>3 DEF Turns
<1>4. CASE CloseNativeSession(s)
  <2>1. nsPending' = nsPending /\ Drained(s) /\ UNCHANGED <<nsConf, nsQueue, nsWorker, nsHistory>>
    BY <1>4, DrainedPending DEF CloseNativeSession, Drained
  <2>2. nsSession' = [nsSession EXCEPT ![s].state = "closed"] \/ nsSession' = [nsSession EXCEPT ![s].state = "lost"]
    BY <1>4 DEF CloseNativeSession
  <2> QED BY <2>1, <2>2, StateSet DEF Turns, Places
<1>5. CASE RoutingChanges
  <2>1. nsSession' = nsSession /\ UNCHANGED <<nsQueue, nsWorker, nsPending, nsHistory>>
    BY <1>5 DEF RoutingChanges, stores
  <2>2. nsConf' \in SomeConf
    BY <1>5, ConfSet DEF RoutingChanges, SameLimits
  <2> QED BY <2>1, <2>2 DEF Turns, Places
<1> QED BY <1>1, <1>2, <1>3, <1>4, <1>5

\* What a Cancel does to the session: nothing, or its end.
LEMMA CancelSession ==
    ASSUME RequestInv, NEW s \in NsSession, CancelPendingRequest(s)
    PROVE  /\ nsSession' \in [NsSession -> SomeSession] /\ SameLimits(nsConf')
           /\ \A q \in NsSession : /\ nsSession'[q].sent = nsSession[q].sent /\ nsSession'[q].writer = nsSession[q].writer
                                   /\ nsSession'[q].state = nsSession[q].state
                                        \/ (nsSession'[q].state = "lost" /\ nsSession[q].writer = "failed")
           /\ nsSession[s].state = "open"
<1>1. Places /\ nsSession \in [NsSession -> SomeSession]
  BY DEF RequestInv, Places
<1>2. PICK x \in {"open", "draining", "closed", "lost"} : x = IF nsSession[s].writer = "failed" THEN "lost" ELSE nsSession[s].state
  BY <1>1 DEF SomeSession
<1>3. nsSession' = [nsSession EXCEPT ![s].state = x]
  BY <1>1, <1>2 DEF CancelPendingRequest, SomeSession
<1>4. /\ nsSession' \in [NsSession -> SomeSession]
      /\ \A q \in NsSession : nsSession'[q].sent = nsSession[q].sent /\ nsSession'[q].writer = nsSession[q].writer
                              /\ nsSession'[q].state = IF q = s THEN x ELSE nsSession[q].state
  BY ZenonT(60), <1>1, <1>3, StateSet
<1>5. SameLimits(nsConf')
  BY <1>1, ConfSet DEF CancelPendingRequest
<1> QED BY <1>2, <1>4, <1>5 DEF CancelPendingRequest

\* A Cancel marks a pending request and is confirmed only then.
LEMMA CancelKeeps ==
    ASSUME RequestInv, NEW s \in NsSession, CancelPendingRequest(s)
    PROVE  RequestInv'
<1>1. /\ nsSession' \in [NsSession -> SomeSession] /\ SameLimits(nsConf')
      /\ \A q \in NsSession : nsSession'[q].sent = nsSession[q].sent
                              /\ (nsSession'[q].state = nsSession[q].state \/ nsSession'[q].state = "lost")
  BY CancelSession
<1>2. PICK r \in 1..nsSession[s].sent :
        /\ nsPending' = CancelPending(nsPending, <<s, r>>)
        /\ nsHistory' = IF <<s, r>> \in nsPending.pending
                        THEN [nsHistory EXCEPT !.cancelled = @ \cup {<<s, r>>}] ELSE nsHistory
  BY DEF CancelPendingRequest
<1>3. UNCHANGED <<nsQueue, nsWorker>>
  BY DEF CancelPendingRequest
<1>4. CASE <<s, r>> \notin nsPending.pending
  <2>1. UNCHANGED <<nsPending, nsHistory>>
    BY <1>2, <1>4 DEF CancelPending
  <2>2. Turns
    BY <1>1, <1>3, <2>1 DEF Turns, SameLimits
  <2> QED BY <2>2, TurnsKeeps
<1>5. CASE <<s, r>> \in nsPending.pending
  <2>1. nsPending \in [pending : SUBSET SomeKey, cancelled : SUBSET SomeKey]
    BY DEF RequestInv, Places
  <2>2. <<s, r>> \in SomeKey /\ r \in Nat
    BY <1>5, <2>1 DEF SomeKey
  <2>3. /\ nsPending' \in [pending : SUBSET SomeKey, cancelled : SUBSET SomeKey]
        /\ nsPending'.pending = nsPending.pending /\ nsPending'.cancelled = nsPending.cancelled \cup {<<s, r>>}
    BY <1>2, <1>5, <2>1, <2>2 DEF CancelPending
  <2>4. nsHistory' = [answers |-> nsHistory.answers, twice |-> nsHistory.twice,
                      cancelled |-> nsHistory.cancelled \cup {<<s, r>>},
                      staged |-> nsHistory.staged, committed |-> nsHistory.committed]
    BY <1>2, <1>5, HistoryCancelled DEF RequestInv
  <2>5. /\ nsHistory'.answers = nsHistory.answers /\ nsHistory'.twice = nsHistory.twice
        /\ nsHistory'.cancelled = nsHistory.cancelled \cup {<<s, r>>}
        /\ nsHistory'.staged = nsHistory.staged /\ nsHistory'.committed = nsHistory.committed
    BY <2>4
  <2>6. Places'
    BY <1>1, <1>3, <2>2, <2>3, <2>4, <2>5 DEF RequestInv, Places, SameLimits
  <2>7. \A q, m : /\ InQueue(q, m)' <=> InQueue(q, m)
                  /\ AtWorker(q, m)' <=> AtWorker(q, m)
                  /\ HasAnswer(q, m)' <=> HasAnswer(q, m)
    BY <1>3, <2>5 DEF InQueue, AtWorker, HasAnswer, At, Job
  <2>8. QueuedOnce' /\ WorkedOnce' /\ InOnePlace'
    BY <1>1, <1>3, <2>7 DEF RequestInv, QueuedOnce, WorkedOnce, InOnePlace, At, Job
  <2>9. PendingIsQueued'
    BY <1>5, <2>3, <2>7 DEF RequestInv, PendingIsQueued
  <2>10. CancelsKept'
    BY <2>3, <2>5, <2>7 DEF RequestInv, CancelsKept
  <2>11. ClosedIsIdle'
    BY <1>1, <1>3 DEF RequestInv, ClosedIsIdle, Working, Queued
  <2> QED BY <2>5, <2>6, <2>8, <2>9, <2>10, <2>11 DEF RequestInv
<1> QED BY <1>4, <1>5

\* In the first state there is no request.
LEMMA RequestInit ==
    ASSUME SessionsInit
    PROVE  RequestInv
<1>1. nsConf \in SomeConf
  BY InstancesAssumption DEF SessionsInit, SomeConf
<1>2. nsSession \in [NsSession -> SomeSession] /\ \A s \in NsSession : nsSession[s].sent = 0 /\ nsSession[s].state = "open"
  BY DEF SessionsInit, SomeSession
<1>3. nsQueue \in Seq(SomeJob) /\ DOMAIN nsQueue = {} /\ \A w \in NsWorker : nsWorker[w] = IdleWorker
  BY DEF SessionsInit
<1>4. nsPending.pending = {} /\ nsPending.cancelled = {} /\ nsHistory.answers = {} /\ nsHistory.twice = {}
      /\ nsHistory.cancelled = {}
  BY DEF SessionsInit
<1>5. IdleWorker.stage = "idle"
  BY DEF IdleWorker
<1>6. Places
  BY <1>1, <1>2, <1>3, <1>4 DEF SessionsInit, Places
<1>7. \A s, r : ~InQueue(s, r) /\ ~AtWorker(s, r) /\ ~HasAnswer(s, r)
  BY <1>3, <1>4, <1>5 DEF InQueue, AtWorker, HasAnswer, At
<1>8. InOnePlace
  BY <1>2, <1>7 DEF InOnePlace
<1>9. QueuedOnce /\ WorkedOnce /\ PendingIsQueued /\ CancelsKept /\ ClosedIsIdle
  BY <1>2, <1>3, <1>4, <1>5 DEF QueuedOnce, WorkedOnce, PendingIsQueued, CancelsKept, ClosedIsIdle, At
<1> QED BY <1>4, <1>6, <1>8, <1>9 DEF RequestInv

\* Every step keeps the place of every request.
LEMMA RequestStep ==
    ASSUME RequestInv, [SessionsNext]_nsVars
    PROVE  RequestInv'
<1>1. CASE RoutingChanges
  <2>1. CASE NsSession # {}
    BY <1>1, <2>1, QuitTurns, TurnsKeeps
  <2>2. CASE NsSession = {}
    <3>1. Turns
      BY <1>1, <2>2, ConfSet DEF RoutingChanges, Turns, SameLimits, stores, RequestInv, Places
    <3> QED BY <3>1, TurnsKeeps
  <2> QED BY <2>1, <2>2
<1>2. ASSUME NEW s \in NsSession, SessionStep(s)
      PROVE  RequestInv'
  BY <1>2, SubmitKeeps, CancelKeeps, QuitTurns, TurnsKeeps DEF SessionStep
<1>3. ASSUME NEW w \in NsWorker, WorkerStep(w)
      PROVE  RequestInv'
  <2>1. CASE TakeJob(w)
    BY <2>1, TakeJobKeeps
  <2>2. CASE ~TakeJob(w)
    <3>1. Moves(w) \/ Replies(w)
      BY <1>3, <2>2, WorkerMovesOrReplies DEF RequestInv
    <3> QED BY <3>1, MovesKeeps, RepliesKeeps
  <2> QED BY <2>1, <2>2
<1>4. CASE UNCHANGED nsVars
  <2>1. Turns
    BY <1>4 DEF nsVars, Turns, RequestInv, Places
  <2> QED BY <2>1, TurnsKeeps
<1> QED BY <1>1, <1>2, <1>3, <1>4 DEF SessionsNext

\* At every moment each request sent is in the queue, at one worker or
\* answered, and a cancel is still to be obeyed or was answered as one.
THEOREM RequestSafety == SessionsSpec => []RequestInv
<1>1. SessionsInit => RequestInv
  BY RequestInit
<1>2. RequestInv /\ [SessionsNext]_nsVars => RequestInv'
  BY RequestStep
<1> QED BY <1>1, <1>2, PTL DEF SessionsSpec

\* Whatever the queue, the workers and the breaking of connections do, no
\* request of a client is answered twice, one whose cancel was confirmed is
\* answered as cancelled, and a session that closed had all its answers.
THEOREM RequestsAnsweredOnceTheorem == SessionsSpec => []RequestsAnsweredOnce
<1>1. ASSUME RequestInv
      PROVE  RequestsAnsweredOnce
  <2>1. ASSUME NEW a \in nsHistory.answers, <<a.session, a.req>> \in nsHistory.cancelled
        PROVE  a.what = "cancelled"
    <3>1. a.session \in NsSession /\ a.req \in Nat /\ HasAnswer(a.session, a.req)
      BY <1>1 DEF RequestInv, HasAnswer
    <3>2. ~InQueue(a.session, a.req)
      BY <1>1, <3>1 DEF RequestInv, InOnePlace
    <3>3. <<a.session, a.req>> \notin nsPending.cancelled
      BY <1>1, <3>1, <3>2 DEF RequestInv, PendingIsQueued
    <3> QED BY <1>1, <2>1, <3>1, <3>3 DEF RequestInv, CancelsKept
  <2>2. ASSUME NEW s \in NsSession, nsSession[s].state = "closed", NEW r \in 1..nsSession[s].sent
        PROVE  \E a \in nsHistory.answers : a.session = s /\ a.req = r
    <3>1. ~Working(s) /\ ~Queued(s)
      BY <1>1, <2>2 DEF RequestInv, ClosedIsIdle
    <3>2. ~InQueue(s, r) /\ ~AtWorker(s, r)
      BY <3>1 DEF InQueue, AtWorker, Working, Queued, At, Job
    <3>3. r \in Nat
      BY <1>1 DEF RequestInv, Places, SomeSession
    <3> QED BY <1>1, <2>2, <3>2, <3>3 DEF RequestInv, InOnePlace, HasAnswer
  <2> QED BY <1>1, <2>1, <2>2 DEF RequestsAnsweredOnce, RequestInv
<1> QED BY <1>1, RequestSafety, PTL

-----------------------------------------------------------------------------
(* Each kind of step keeps PermitInv.                                      *)

AtPermit == {w \in NsWorker : At(w, "permit")}

\* PermitsAccounted, with the two counts named.
LEMMA PermitCounts ==
    ASSUME RequestInv, PermitInv
    PROVE  /\ IsFiniteSet(AtPermit) /\ Cardinality(AtPermit) \in Nat /\ Cardinality(nsCursors) \in Nat
           /\ nsConf.limit \in Nat /\ nsActive \in Nat
           /\ nsConf.limit # Unlimited => /\ nsActive = Cardinality(nsCursors) + Cardinality(AtPermit)
                                          /\ nsActive <= nsConf.limit
<1>1. IsFiniteSet(AtPermit)
  BY WorkersAssumption, FS_Subset DEF AtPermit
<1>2. Cardinality(AtPermit) \in Nat /\ Cardinality(nsCursors) \in Nat
  BY <1>1, FS_CardinalityType DEF PermitInv, CursorsKept
<1>3. nsConf.limit \in Nat /\ nsActive \in Nat
  BY DEF RequestInv, Places, SomeConf, PermitInv, CursorsKept
<1> QED BY <1>1, <1>2, <1>3 DEF PermitInv, PermitsAccounted, AtPermit

\* Steps away from cursors and permits.
LEMMA PermitsSame ==
    ASSUME RequestInv, PermitInv, UNCHANGED <<nsCursors, nsActive>>, nsConf'.limit = nsConf.limit, AtPermit' = AtPermit,
           nsIds' \in [cursor : Nat, prepared : Nat, tx : Nat], nsIds'.cursor = nsIds.cursor
    PROVE  PermitInv'
<1>1. CursorsKept'
  BY DEF PermitInv, CursorsKept
<1>2. PermitsAccounted'
  BY DEF PermitInv, PermitsAccounted, AtPermit
<1> QED BY <1>1, <1>2 DEF PermitInv

\* Where a worker's stage leaves the set of permits.
LEMMA PermitStage ==
    ASSUME Places, NEW w \in NsWorker, NEW x, nsWorker' = [nsWorker EXCEPT ![w] = x]
    PROVE  AtPermit' = IF x.stage = "permit" THEN AtPermit \cup {w} ELSE AtPermit \ {w}
<1>1. \A v \in NsWorker : nsWorker'[v] = IF v = w THEN x ELSE nsWorker[v]
  BY DEF Places
<1> QED BY <1>1 DEF AtPermit, At

\* Cursors go, and their permits with them.
LEMMA CursorsGo ==
    ASSUME RequestInv, PermitInv, NEW gone, gone \subseteq nsCursors, nsCursors' = nsCursors \ gone,
           nsActive' = Released(nsActive, Cardinality(gone)),
           nsConf'.limit = nsConf.limit, AtPermit' = AtPermit, nsIds' = nsIds
    PROVE  PermitInv'
<1>1. IsFiniteSet(nsCursors)
  BY DEF PermitInv, CursorsKept
<1>2. IsFiniteSet(gone) /\ Cardinality(gone) \in Nat
  BY <1>1, FS_Subset, FS_CardinalityType
<1>3. gone = nsCursors \cap gone
  OBVIOUS
<1>4. IsFiniteSet(nsCursors') /\ Cardinality(nsCursors') = Cardinality(nsCursors) - Cardinality(gone)
      /\ Cardinality(nsCursors') \in Nat
  <2>1. IsFiniteSet(nsCursors \ gone) /\ Cardinality(nsCursors \ gone) = Cardinality(nsCursors) - Cardinality(nsCursors \cap gone)
    BY <1>1, FS_Difference
  <2>2. Cardinality(nsCursors \cap gone) = Cardinality(gone)
    BY <1>3
  <2>3. Cardinality(nsCursors \ gone) \in Nat
    BY <2>1, FS_CardinalityType
  <2> QED BY <2>1, <2>2, <2>3
<1>5. /\ IsFiniteSet(AtPermit) /\ Cardinality(AtPermit) \in Nat /\ Cardinality(nsCursors) \in Nat
      /\ nsConf.limit \in Nat /\ nsActive \in Nat
      /\ nsConf.limit # Unlimited => /\ nsActive = Cardinality(nsCursors) + Cardinality(AtPermit)
                                     /\ nsActive <= nsConf.limit
  BY PermitCounts
<1>6. nsActive' \in Nat
  BY <1>2, <1>5 DEF Released
<1>7. CursorsKept'
  BY <1>4, <1>6 DEF PermitInv, CursorsKept
<1>8. nsConf.limit # Unlimited => /\ nsActive' = Cardinality(nsCursors') + Cardinality(AtPermit)
                                  /\ nsActive' <= nsConf.limit
  BY <1>2, <1>4, <1>5 DEF Released
<1>9. PermitsAccounted'
  BY <1>8 DEF PermitsAccounted, AtPermit
<1> QED BY <1>7, <1>9 DEF PermitInv

\* A page: the cursor stays with fewer rows or goes with its permit.
LEMMA FetchKeeps ==
    ASSUME RequestInv, PermitInv, NEW c \in nsCursors, nsCursors' = FetchPage(c).cursors, nsActive' = FetchPage(c).active,
           nsConf'.limit = nsConf.limit, AtPermit' = AtPermit, nsIds' = nsIds
    PROVE  PermitInv'
<1>1. PICK left : left = IF c.left > PageSize THEN c.left - PageSize ELSE 0
  OBVIOUS
<1>2. FetchPage(c) = [cursors |-> IF left = 0 THEN nsCursors \ {c} ELSE (nsCursors \ {c}) \cup {[c EXCEPT !.left = left]},
                      active |-> IF left = 0 THEN Released(nsActive, 1) ELSE nsActive]
  BY <1>1 DEF FetchPage
<1>3. CASE left = 0
  <2>1. nsCursors' = nsCursors \ {c} /\ nsActive' = Released(nsActive, Cardinality({c}))
    BY <1>2, <1>3, FS_Singleton
  <2> QED BY <2>1, CursorsGo
<1>4. CASE left # 0
  <2>1. nsActive' = nsActive
    BY <1>2, <1>4
  <2>2. PICK d : d = [id |-> c.id, session |-> c.session, left |-> left]
    OBVIOUS
  <2>3. c = [id |-> c.id, session |-> c.session, left |-> c.left] /\ c.id \in 1..nsIds.cursor
    BY DEF PermitInv, CursorsKept
  <2>4. [c EXCEPT !.left = left] = d
    <3>1. PICK i, s, l : c = [id |-> i, session |-> s, left |-> l]
      BY <2>3
    <3> QED BY <2>2, <3>1
  <2>5. nsCursors' = (nsCursors \ {c}) \cup {d}
    BY <1>2, <1>4, <2>4
  <2>6. d.id = c.id /\ d.session = c.session /\ d.left = left
    BY <2>2
  <2>7. IsFiniteSet(nsCursors) /\ \A e \in nsCursors : e.id = c.id => e = c
    BY DEF PermitInv, CursorsKept
  <2>8. d \notin nsCursors \ {c}
    BY <2>6, <2>7
  <2>9. IsFiniteSet(nsCursors \ {c}) /\ Cardinality(nsCursors \ {c}) = Cardinality(nsCursors) - 1
    BY <2>7, FS_RemoveElement
  <2>10. IsFiniteSet(nsCursors') /\ Cardinality(nsCursors') = Cardinality(nsCursors \ {c}) + 1
    BY <2>5, <2>8, <2>9, FS_AddElement
  <2>11. Cardinality(nsCursors') = Cardinality(nsCursors)
    BY <2>9, <2>10, <2>7, FS_CardinalityType
  <2>12. \A e \in nsCursors' : e = [id |-> e.id, session |-> e.session, left |-> e.left] /\ e.id \in 1..nsIds.cursor
    BY <2>2, <2>3, <2>5, <2>6 DEF PermitInv, CursorsKept
  <2>13. \A e, f \in nsCursors' : e.id = f.id => e = f
    BY <2>5, <2>6, <2>7 DEF PermitInv, CursorsKept
  <2>14. CursorsKept'
    BY <2>1, <2>10, <2>12, <2>13 DEF PermitInv, CursorsKept
  <2>15. PermitsAccounted'
    BY <2>1, <2>11 DEF PermitInv, PermitsAccounted, AtPermit
  <2> QED BY <2>14, <2>15 DEF PermitInv
<1> QED BY <1>3, <1>4

\* A worker that never held a permit leaves the set of permits alone.
LEMMA NoPermitMoves ==
    ASSUME Places, NEW w \in NsWorker, ~At(w, "permit"), NEW x, x.stage # "permit", nsWorker' = [nsWorker EXCEPT ![w] = x]
    PROVE  AtPermit' = AtPermit
<1>1. AtPermit' = AtPermit \ {w}
  BY PermitStage
<1> QED BY <1>1 DEF AtPermit

\* The same for a worker that is done.
LEMMA NoPermitReplies ==
    ASSUME Places, NEW w \in NsWorker, ~At(w, "permit"), nsWorker' = [nsWorker EXCEPT ![w] = IdleWorker]
    PROVE  AtPermit' = AtPermit
<1>1. IdleWorker.stage # "permit"
  BY DEF IdleWorker
<1> QED BY <1>1, NoPermitMoves

\* A permit is taken only below the limit.
LEMMA AcquireKeeps ==
    ASSUME RequestInv, PermitInv, NEW w \in NsWorker, AcquireQuery(w)
    PROVE  PermitInv'
<1> Places
  BY DEF RequestInv
<1>1. ~At(w, "permit") /\ UNCHANGED <<nsConf, nsCursors, nsIds>>
  BY DEF AcquireQuery, At
<1>2. CASE nsActive' = nsActive /\ Reply(w, "error", 0)
  <2>1. AtPermit' = AtPermit
    BY <1>1, <1>2, NoPermitReplies DEF Reply
  <2> QED BY <1>1, <1>2, <2>1, PermitsSame DEF PermitInv, CursorsKept
<1>3. CASE Admitted /\ nsActive' = Acquire(nsActive) /\ Stage(w, "permit", 0)
  <2>1. PICK x : x = [stage |-> "permit", job |-> Job(w), data |-> 0]
    OBVIOUS
  <2>2. x.stage = "permit" /\ nsWorker' = [nsWorker EXCEPT ![w] = x]
    BY <1>3, <2>1 DEF Stage
  <2>3. AtPermit' = AtPermit \cup {w} /\ w \notin AtPermit
    BY <1>1, <2>2, PermitStage DEF AtPermit
  <2>4. /\ IsFiniteSet(AtPermit) /\ Cardinality(AtPermit) \in Nat /\ Cardinality(nsCursors) \in Nat
        /\ nsConf.limit \in Nat /\ nsActive \in Nat
        /\ nsConf.limit # Unlimited => /\ nsActive = Cardinality(nsCursors) + Cardinality(AtPermit)
                                       /\ nsActive <= nsConf.limit
    BY PermitCounts
  <2>5. Cardinality(AtPermit') = Cardinality(AtPermit) + 1
    BY <2>3, <2>4, FS_AddElement
  <2>6. nsActive' \in Nat
    BY <1>3, <2>4 DEF Acquire
  <2>7. CursorsKept'
    BY <1>1, <2>6 DEF PermitInv, CursorsKept
  <2>8. nsConf.limit # Unlimited => /\ nsActive' = Cardinality(nsCursors) + Cardinality(AtPermit')
                                    /\ nsActive' <= nsConf.limit
    BY <1>3, <2>4, <2>5 DEF Acquire, Admitted
  <2>9. PermitsAccounted'
    BY <1>1, <2>8 DEF PermitsAccounted, AtPermit
  <2> QED BY <2>7, <2>9 DEF PermitInv
<1> QED BY <1>2, <1>3 DEF AcquireQuery

\* A query hands its permit to its cursor, or gives it back.
LEMMA RunQueryKeeps ==
    ASSUME RequestInv, PermitInv, NEW w \in NsWorker, RunQuery(w)
    PROVE  PermitInv'
<1> Places
  BY DEF RequestInv
<1>1. At(w, "permit") /\ nsConf' = nsConf
  BY DEF RunQuery
<1>2. w \in AtPermit
  BY <1>1 DEF AtPermit
<1>3. /\ IsFiniteSet(AtPermit) /\ Cardinality(AtPermit) \in Nat /\ Cardinality(nsCursors) \in Nat
      /\ nsConf.limit \in Nat /\ nsActive \in Nat
      /\ nsConf.limit # Unlimited => /\ nsActive = Cardinality(nsCursors) + Cardinality(AtPermit)
                                     /\ nsActive <= nsConf.limit
  BY PermitCounts
<1>4. Cardinality(AtPermit \ {w}) = Cardinality(AtPermit) - 1 /\ Cardinality(AtPermit \ {w}) \in Nat
  BY <1>2, <1>3, FS_RemoveElement, FS_CardinalityType
<1>5. IsFiniteSet(nsCursors) /\ nsIds \in [cursor : Nat, prepared : Nat, tx : Nat]
  BY DEF PermitInv, CursorsKept
<1>6. CASE nsActive' = Released(nsActive, 1) /\ Reply(w, "error", 0) /\ UNCHANGED <<nsIds, nsCursors>>
  <2>1. IdleWorker.stage # "permit"
    BY DEF IdleWorker
  <2>2. AtPermit' = AtPermit \ {w}
    BY <1>6, <2>1, PermitStage DEF Reply
  <2>3. nsActive' \in Nat
    BY <1>3, <1>6 DEF Released
  <2>4. CursorsKept'
    BY <1>6, <2>3 DEF PermitInv, CursorsKept
  <2>5. nsConf.limit # Unlimited => /\ nsActive' = Cardinality(nsCursors) + Cardinality(AtPermit')
                                    /\ nsActive' <= nsConf.limit
    BY <1>3, <1>4, <1>6, <2>2 DEF Released
  <2>6. PermitsAccounted'
    BY <1>1, <1>6, <2>5 DEF PermitsAccounted, AtPermit
  <2> QED BY <2>4, <2>6 DEF PermitInv
<1>7. CASE /\ nsIds' = [nsIds EXCEPT !.cursor = @ + 1]
           /\ nsCursors' = nsCursors \cup {NewCursor(nsIds.cursor + 1, Job(w).session, Job(w).call.rows)}
           /\ Stage(w, "cursor", nsIds.cursor + 1)
           /\ UNCHANGED nsActive
  <2>1. PICK n \in Nat : n = nsIds.cursor + 1
    BY <1>5
  <2>2. PICK d : d = [id |-> n, session |-> Job(w).session, left |-> Job(w).call.rows]
    OBVIOUS
  <2>3. d.id = n /\ d = [id |-> d.id, session |-> d.session, left |-> d.left]
    BY <2>2
  <2>4. nsCursors' = nsCursors \cup {d}
    BY <1>7, <2>1, <2>2 DEF NewCursor
  <2>5. nsIds' \in [cursor : Nat, prepared : Nat, tx : Nat] /\ nsIds'.cursor = n
    BY <1>5, <1>7, <2>1
  <2>6. \A c \in nsCursors : c.id \in 1..nsIds.cursor
    BY DEF PermitInv, CursorsKept
  <2>7. \A c \in nsCursors : c.id # n
    BY <1>5, <2>1, <2>6
  <2>8. IsFiniteSet(nsCursors') /\ Cardinality(nsCursors') = Cardinality(nsCursors) + 1
    BY <1>5, <2>3, <2>4, <2>7, FS_AddElement
  <2>9. \A c \in nsCursors' : c = [id |-> c.id, session |-> c.session, left |-> c.left] /\ c.id \in 1..nsIds'.cursor
    <3>1. \A i \in 1..nsIds.cursor : i \in 1..n
      BY <1>5, <2>1
    <3> QED BY <2>1, <2>3, <2>4, <2>5, <3>1, <1>5 DEF PermitInv, CursorsKept
  <2>10. \A c, e \in nsCursors' : c.id = e.id => c = e
    BY <2>3, <2>4, <2>7 DEF PermitInv, CursorsKept
  <2>11. CursorsKept'
    BY <1>7, <2>5, <2>8, <2>9, <2>10 DEF PermitInv, CursorsKept
  <2>12. PICK x : x = [stage |-> "cursor", job |-> Job(w), data |-> nsIds.cursor + 1]
    OBVIOUS
  <2>13. x.stage # "permit" /\ nsWorker' = [nsWorker EXCEPT ![w] = x]
    BY <1>7, <2>12 DEF Stage
  <2>14. AtPermit' = AtPermit \ {w}
    BY <2>13, PermitStage
  <2>15. nsConf.limit # Unlimited => /\ nsActive' = Cardinality(nsCursors') + Cardinality(AtPermit')
                                     /\ nsActive' <= nsConf.limit
    BY <1>3, <1>4, <1>7, <2>8, <2>14
  <2>16. PermitsAccounted'
    BY <1>1, <2>15 DEF PermitsAccounted, AtPermit
  <2> QED BY <2>11, <2>16 DEF PermitInv
<1> QED BY <1>6, <1>7 DEF RunQuery

\* The steps that end cursors or fetch from them.
LEMMA CursorStepKeeps ==
    ASSUME RequestInv, PermitInv, NEW w \in NsWorker, FirstPage(w) \/ FetchCursor(w) \/ CloseCursor(w)
    PROVE  PermitInv'
<1> Places
  BY DEF RequestInv
<1>1. ~At(w, "permit") /\ UNCHANGED <<nsConf, nsIds>> /\ nsWorker' = [nsWorker EXCEPT ![w] = IdleWorker]
  BY DEF FirstPage, FetchCursor, CloseCursor, At, Reply
<1>2. AtPermit' = AtPermit
  BY <1>1, NoPermitReplies
<1>3. CASE FirstPage(w) \/ FetchCursor(w)
  <2>1. UNCHANGED <<nsCursors, nsActive>>
        \/ \E c \in nsCursors : nsCursors' = FetchPage(c).cursors /\ nsActive' = FetchPage(c).active
    BY <1>3 DEF FirstPage, FetchCursor, Cursor
  <2>2. CASE UNCHANGED <<nsCursors, nsActive>>
    BY <1>1, <1>2, <2>2, PermitsSame DEF PermitInv, CursorsKept
  <2> QED BY <1>1, <1>2, <2>1, <2>2, FetchKeeps
<1>4. CASE CloseCursor(w)
  <2>1. PICK mine : /\ mine = {c \in Cursor(Job(w).call.id) : c.session = Job(w).session}
                    /\ nsCursors' = nsCursors \ mine /\ nsActive' = Released(nsActive, Cardinality(mine))
    BY <1>4 DEF CloseCursor
  <2>2. mine \subseteq nsCursors
    BY <2>1 DEF Cursor
  <2> QED BY <1>1, <1>2, <2>1, <2>2, CursorsGo
<1> QED BY <1>3, <1>4

\* The other steps of a worker leave cursors and permits alone.
LEMMA OtherWorkKeeps ==
    ASSUME RequestInv, PermitInv, NEW w \in NsWorker,
           \/ PrepareQuery(w) \/ ClosePreparedQuery(w) \/ BeginTx(w) \/ StageTxWrite(w) \/ CommitRead(w) \/ CommitClose(w)
           \/ RollbackTx(w) \/ KillTx(w) \/ ListCommand(w) \/ TxStatus(w) \/ TakeJob(w)
    PROVE  PermitInv'
<1> Places
  BY DEF RequestInv
<1>1. ~At(w, "permit") /\ UNCHANGED <<nsConf, nsCursors, nsActive>>
  BY DEF PrepareQuery, ClosePreparedQuery, BeginTx, StageTxWrite, CommitRead, CommitClose, RollbackTx, KillTx,
         ListCommand, TxStatus, TakeJob, At
<1>2. nsIds \in [cursor : Nat, prepared : Nat, tx : Nat]
  BY DEF PermitInv, CursorsKept
<1>3. nsIds' \in [cursor : Nat, prepared : Nat, tx : Nat] /\ nsIds'.cursor = nsIds.cursor
  <2>1. nsIds' = nsIds \/ nsIds' = [nsIds EXCEPT !.prepared = @ + 1] \/ nsIds' = [nsIds EXCEPT !.tx = @ + 1]
    BY DEF PrepareQuery, ClosePreparedQuery, BeginTx, StageTxWrite, CommitRead, CommitClose, RollbackTx, KillTx,
           ListCommand, TxStatus, TakeJob
  <2> QED BY <1>2, <2>1
<1>4. nsWorker' = nsWorker \/ \E x : x.stage # "permit" /\ nsWorker' = [nsWorker EXCEPT ![w] = x]
  <2>1. IdleWorker.stage # "permit"
    BY DEF IdleWorker
  <2>2. CASE TakeJob(w)
    <3>1. PICK x : x = [stage |-> "taken", job |-> Head(nsQueue), data |-> 0]
      OBVIOUS
    <3> QED BY <2>2, <3>1 DEF TakeJob
  <2>3. CASE CommitRead(w)
    <3>1. \E data : Stage(w, "commit", data) \/ Reply(w, "error", 0)
      BY <2>3 DEF CommitRead
    <3>2. PICK data : Stage(w, "commit", data) \/ Reply(w, "error", 0)
      BY <3>1
    <3>3. PICK x : x = [stage |-> "commit", job |-> Job(w), data |-> data]
      OBVIOUS
    <3> QED BY <2>1, <3>2, <3>3 DEF Stage, Reply
  <2>4. CASE ~TakeJob(w) /\ ~CommitRead(w)
    <3>1. nsWorker' = [nsWorker EXCEPT ![w] = IdleWorker]
      BY <2>4 DEF PrepareQuery, ClosePreparedQuery, BeginTx, StageTxWrite, CommitClose, RollbackTx, KillTx,
                  ListCommand, TxStatus, Reply
    <3> QED BY <2>1, <3>1
  <2> QED BY <2>2, <2>3, <2>4
<1>5. AtPermit' = AtPermit
  <2>1. CASE nsWorker' = nsWorker
    BY <2>1 DEF AtPermit, At
  <2> QED BY <1>1, <1>4, <2>1, NoPermitMoves
<1> QED BY <1>1, <1>3, <1>5, PermitsSame

\* The limits of the instance never change.
LEMMA LimitsStay ==
    ASSUME RequestInv, [SessionsNext]_nsVars
    PROVE  SameLimits(nsConf')
<1>1. nsConf \in SomeConf /\ Places
  BY DEF RequestInv, Places
<1>2. CASE nsConf' = nsConf
  BY <1>1, <1>2 DEF SameLimits, SomeConf
<1>3. CASE RoutingChanges
  BY <1>1, <1>3, ConfSet DEF RoutingChanges
<1>4. ASSUME NEW s \in NsSession, SessionStep(s)
      PROVE  SameLimits(nsConf')
  <2>1. CASE CancelPendingRequest(s)
    BY <2>1, CancelSession
  <2>2. CASE ReadFails(s) \/ WriteFails(s)
    BY <1>1, <2>2, ConfSet DEF ReadFails, WriteFails
  <2>3. CASE Submit(s) \/ Quit(s) \/ CloseNativeSession(s)
    BY <1>2, <2>3 DEF Submit, Quit, CloseNativeSession
  <2> QED BY <1>4, <2>1, <2>2, <2>3 DEF SessionStep
<1>5. ASSUME NEW w \in NsWorker, WorkerStep(w)
      PROVE  nsConf' = nsConf
  BY <1>5 DEF WorkerStep, TakeJob, AcquireQuery, RunQuery, FirstPage, FetchCursor, CloseCursor, PrepareQuery,
         ClosePreparedQuery, BeginTx, StageTxWrite, CommitRead, CommitClose, RollbackTx, KillTx, ListCommand, TxStatus
<1>6. CASE UNCHANGED nsVars
  BY <1>2, <1>6 DEF nsVars
<1> QED BY <1>2, <1>3, <1>4, <1>5, <1>6 DEF SessionsNext

\* Every step keeps the account of the permits.
LEMMA PermitStep ==
    ASSUME RequestInv, PermitInv, [SessionsNext]_nsVars
    PROVE  PermitInv'
<1>1. nsConf'.limit = nsConf.limit
  BY LimitsStay DEF SameLimits
<1>2. nsIds \in [cursor : Nat, prepared : Nat, tx : Nat]
  BY DEF PermitInv, CursorsKept
<1>3. CASE UNCHANGED <<nsWorker, nsCursors, nsActive, nsIds>>
  <2>1. AtPermit' = AtPermit
    BY <1>3 DEF AtPermit, At
  <2> QED BY <1>1, <1>2, <1>3, <2>1, PermitsSame
<1>4. ASSUME NEW s \in NsSession, SessionStep(s)
      PROVE  PermitInv'
  <2>1. CASE CloseNativeSession(s) /\ nsSession[s].writer = "ok"
    <3>1. PICK gone : gone = nsCursors \ CloseSessionCursors(s)
      OBVIOUS
    <3>2. gone \subseteq nsCursors /\ nsCursors' = nsCursors \ gone /\ nsActive' = Released(nsActive, Cardinality(gone))
      BY <2>1, <3>1 DEF CloseNativeSession, CloseSessionCursors
    <3>3. AtPermit' = AtPermit /\ nsIds' = nsIds
      BY <2>1 DEF CloseNativeSession, AtPermit, At
    <3> QED BY <1>1, <3>2, <3>3, CursorsGo
  <2>2. CASE ~(CloseNativeSession(s) /\ nsSession[s].writer = "ok")
    <3>1. UNCHANGED <<nsWorker, nsCursors, nsActive, nsIds>>
      BY <1>4, <2>2 DEF SessionStep, Submit, CancelPendingRequest, Quit, ReadFails, WriteFails, CloseNativeSession, stores
    <3> QED BY <3>1, <1>3
  <2> QED BY <2>1, <2>2
<1>5. ASSUME NEW w \in NsWorker, WorkerStep(w)
      PROVE  PermitInv'
  BY <1>5, AcquireKeeps, RunQueryKeeps, CursorStepKeeps, OtherWorkKeeps DEF WorkerStep
<1>6. CASE RoutingChanges \/ UNCHANGED nsVars
  <2>1. UNCHANGED <<nsWorker, nsCursors, nsActive, nsIds>>
    BY <1>6 DEF RoutingChanges, stores, nsVars
  <2> QED BY <2>1, <1>3
<1> QED BY <1>4, <1>5, <1>6 DEF SessionsNext

\* At first no permit is held.
LEMMA PermitInit ==
    ASSUME SessionsInit
    PROVE  PermitInv
<1>1. nsCursors = {} /\ nsActive = 0 /\ nsIds = [cursor |-> 0, prepared |-> 0, tx |-> 0]
      /\ \A w \in NsWorker : nsWorker[w] = IdleWorker
  BY DEF SessionsInit
<1>2. AtPermit = {}
  BY <1>1 DEF AtPermit, At, IdleWorker
<1>3. IsFiniteSet({}) /\ Cardinality({}) = 0
  BY FS_EmptySet
<1>4. CursorsKept
  BY <1>1, <1>3 DEF CursorsKept
<1>5. nsConf.limit \in Nat
  BY RequestInit DEF RequestInv, Places, SomeConf
<1>6. PermitsAccounted
  BY <1>1, <1>2, <1>3, <1>5 DEF PermitsAccounted, AtPermit
<1> QED BY <1>4, <1>6 DEF PermitInv

\* The count of active queries of a limited tenant is at every moment the
\* number of cursors and of workers holding a permit, and within the limit,
\* also when connections break, are lost or close while queries run.
THEOREM PermitsAccountedTheorem == SessionsSpec => []PermitsAccounted
<1>1. SessionsInit => PermitInv
  BY PermitInit
<1>2. RequestInv /\ PermitInv /\ [SessionsNext]_nsVars => PermitInv'
  BY PermitStep
<1>3. PermitInv => PermitsAccounted
  BY DEF PermitInv
<1> QED BY <1>1, <1>2, <1>3, RequestSafety, PTL DEF SessionsSpec

-----------------------------------------------------------------------------
(* Each step keeps OwnerInv, when no connection breaks.                    *)

\* No instance breaks a connection: a lost connection does leave its cursors,
\* prepared queries and transactions in the stores.
NoBreaks == \A c \in NsConf : c.breaks = 0

\* What a worker's step may add to the stores belongs to its own session.
OwnAdded(w) ==
    \A x \in nsCursors' \cup nsPrepared' \cup nsTx' :
        (\E y \in nsCursors \cup nsPrepared \cup nsTx : y.session = x.session) \/ x.session = Job(w).session

\* Every step of a worker past TakeJob adds only for its own session.
LEMMA WorkerOwns ==
    ASSUME RequestInv, PermitInv, TxShaped, NEW w \in NsWorker, WorkerStep(w), ~TakeJob(w)
    PROVE  OwnAdded(w)
<1>1. CASE nsCursors' \subseteq nsCursors /\ nsPrepared' \subseteq nsPrepared /\ nsTx' \subseteq nsTx
  BY <1>1 DEF OwnAdded
<1>2. CASE RunQuery(w)
  <2>1. nsPrepared' = nsPrepared /\ nsTx' = nsTx
    BY <1>2 DEF RunQuery
  <2>2. nsCursors' = nsCursors \/ \E id, rows : nsCursors' = nsCursors \cup {NewCursor(id, Job(w).session, rows)}
    BY <1>2 DEF RunQuery
  <2>3. \A id, rows : NewCursor(id, Job(w).session, rows).session = Job(w).session
    BY DEF NewCursor
  <2> QED BY <2>1, <2>2, <2>3 DEF OwnAdded
<1>3. CASE FirstPage(w) \/ FetchCursor(w)
  <2>1. nsPrepared' = nsPrepared /\ nsTx' = nsTx
    BY <1>3 DEF FirstPage, FetchCursor
  <2>2. nsCursors' = nsCursors \/ \E c \in nsCursors : nsCursors' = FetchPage(c).cursors
    BY <1>3 DEF FirstPage, FetchCursor, Cursor
  <2>3. ASSUME NEW c \in nsCursors, nsCursors' = FetchPage(c).cursors
        PROVE  \A x \in nsCursors' : \E y \in nsCursors : y.session = x.session
    <3>1. PICK i, s, l : c = [id |-> i, session |-> s, left |-> l]
      BY DEF PermitInv, CursorsKept
    <3>2. \A n : [c EXCEPT !.left = n].session = c.session
      BY <3>1
    <3>3. \A x \in nsCursors' : x \in nsCursors \/ \E n : x = [c EXCEPT !.left = n]
      BY <2>3 DEF FetchPage
    <3> QED BY <3>2, <3>3
  <2> QED BY <2>1, <2>2, <2>3 DEF OwnAdded
<1>4. CASE PrepareQuery(w)
  <2>1. nsCursors' = nsCursors /\ nsTx' = nsTx
    BY <1>4 DEF PrepareQuery
  <2>2. \E id : nsPrepared' = nsPrepared \cup {[id |-> id, session |-> Job(w).session]}
    BY <1>4 DEF PrepareQuery
  <2>3. \A id : [id |-> id, session |-> Job(w).session].session = Job(w).session
    OBVIOUS
  <2> QED BY <2>1, <2>2, <2>3 DEF OwnAdded
<1>5. CASE BeginTx(w)
  <2>1. nsCursors' = nsCursors /\ nsPrepared' = nsPrepared
    BY <1>5 DEF BeginTx
  <2>2. \E id, mode : nsTx' = nsTx \cup {NewTransaction(id, Job(w).session, mode)}
    BY <1>5 DEF BeginTx
  <2>3. \A id, mode : NewTransaction(id, Job(w).session, mode).session = Job(w).session
    BY DEF NewTransaction
  <2> QED BY <2>1, <2>2, <2>3 DEF OwnAdded
<1>6. CASE StageTxWrite(w)
  <2>1. nsCursors' = nsCursors /\ nsPrepared' = nsPrepared
    BY <1>6 DEF StageTxWrite
  <2>2. nsTx' = nsTx \/ \E t \in nsTx : StagesIn(w, t)
    BY <1>6 DEF StageTxWrite, StagesIn, OwnTx
  <2>3. ASSUME NEW t \in nsTx, StagesIn(w, t)
        PROVE  \A x \in nsTx' : \E y \in nsTx : y.session = x.session
    <3>1. PICK i, s, m, g, e : t = [id |-> i, session |-> s, mode |-> m, staged |-> g, epoch |-> e]
      BY DEF TxShaped
    <3>2. StageWrite(t, Job(w).call.write).session = t.session
      BY <3>1 DEF StageWrite
    <3> QED BY <2>3, <3>2 DEF StagesIn
  <2> QED BY <2>1, <2>2, <2>3 DEF OwnAdded
<1>7. CASE AcquireQuery(w) \/ CloseCursor(w) \/ ClosePreparedQuery(w) \/ CommitRead(w) \/ CommitClose(w)
           \/ RollbackTx(w) \/ KillTx(w) \/ ListCommand(w) \/ TxStatus(w)
  <2>1. nsCursors' \subseteq nsCursors /\ nsPrepared' \subseteq nsPrepared /\ nsTx' \subseteq nsTx
    BY <1>7 DEF AcquireQuery, CloseCursor, ClosePreparedQuery, CommitRead, CommitClose, RollbackTx, KillTx,
           ListCommand, TxStatus
  <2> QED BY <1>1, <2>1
<1> QED BY <1>2, <1>3, <1>4, <1>5, <1>6, <1>7 DEF WorkerStep

\* A transaction keeps its fields.
LEMMA TxShapeKept ==
    ASSUME TxShaped, [SessionsNext]_nsVars
    PROVE  TxShaped'
<1>1. CASE nsTx' \subseteq nsTx
  BY <1>1 DEF TxShaped
<1>2. ASSUME NEW s \in NsSession, SessionStep(s)
      PROVE  nsTx' \subseteq nsTx
  BY <1>2 DEF SessionStep, Submit, CancelPendingRequest, Quit, ReadFails, WriteFails, CloseNativeSession, CloseSessionTx, stores
<1>3. ASSUME NEW w \in NsWorker, WorkerStep(w)
      PROVE  TxShaped'
  <2>1. CASE BeginTx(w)
    <3>1. PICK i, s, m, e : nsTx' = nsTx \cup {[id |-> i, session |-> s, mode |-> m, staged |-> <<>>, epoch |-> e]}
      BY <2>1 DEF BeginTx, NewTransaction
    <3>2. PICK t : t = [id |-> i, session |-> s, mode |-> m, staged |-> <<>>, epoch |-> e]
      OBVIOUS
    <3>3. t = [id |-> t.id, session |-> t.session, mode |-> t.mode, staged |-> t.staged, epoch |-> t.epoch]
      BY <3>2
    <3> QED BY <3>1, <3>2, <3>3 DEF TxShaped
  <2>2. CASE StageTxWrite(w)
    <3>1. nsTx' = nsTx \/ \E t \in nsTx : nsTx' = (nsTx \ {t}) \cup {StageWrite(t, Job(w).call.write)}
      BY <2>2 DEF StageTxWrite, OwnTx
    <3>2. ASSUME NEW t \in nsTx, nsTx' = (nsTx \ {t}) \cup {StageWrite(t, Job(w).call.write)}
          PROVE  TxShaped'
      <4>1. PICK i, s, m, g, e : t = [id |-> i, session |-> s, mode |-> m, staged |-> g, epoch |-> e]
        BY DEF TxShaped
      <4>2. PICK u : u = [id |-> i, session |-> s, mode |-> m, staged |-> Append(g, Job(w).call.write), epoch |-> e]
        OBVIOUS
      <4>3. StageWrite(t, Job(w).call.write) = u
        BY <4>1, <4>2 DEF StageWrite
      <4>4. u = [id |-> u.id, session |-> u.session, mode |-> u.mode, staged |-> u.staged, epoch |-> u.epoch]
        BY <4>2
      <4> QED BY <3>2, <4>3, <4>4 DEF TxShaped
    <3> QED BY <1>1, <3>1, <3>2
  <2>3. CASE ~BeginTx(w) /\ ~StageTxWrite(w)
    <3>1. nsTx' \subseteq nsTx
      BY <1>3, <2>3 DEF WorkerStep, TakeJob, AcquireQuery, RunQuery, FirstPage, FetchCursor, CloseCursor, PrepareQuery,
             ClosePreparedQuery, CommitRead, CommitClose, RollbackTx, KillTx, ListCommand, TxStatus
    <3> QED BY <1>1, <3>1
  <2> QED BY <2>1, <2>2, <2>3
<1>4. CASE RoutingChanges \/ UNCHANGED nsVars
  BY <1>1, <1>4 DEF RoutingChanges, stores, nsVars
<1> QED BY <1>1, <1>2, <1>3, <1>4 DEF SessionsNext

\* While no connection breaks none is lost.
LEMMA NoneLostStep ==
    ASSUME RequestInv, NoneLost, [SessionsNext]_nsVars
    PROVE  NoneLost'
<1>1. Places /\ nsConf \in SomeConf
  BY DEF RequestInv, Places
<1>2. nsConf'.breaks = 0
  <2>1. nsConf' \in SomeConf /\ nsConf'.breaks <= nsConf.breaks
    BY LimitsStay DEF SameLimits
  <2>2. nsConf'.breaks \in Nat
    BY <2>1 DEF SomeConf
  <2> QED BY <2>1, <2>2 DEF NoneLost
<1>3. CASE nsSession' = nsSession
  BY <1>2, <1>3 DEF NoneLost
<1>4. ASSUME NEW s \in NsSession, SessionStep(s)
      PROVE  NoneLost'
  <2>1. CASE Submit(s)
    <3>1. SendsOne(s)
      BY <2>1, SubmitSendsOne
    <3> QED BY <1>2, <3>1 DEF SendsOne, NoneLost
  <2>2. CASE CancelPendingRequest(s)
    <3>1. \A q \in NsSession : /\ nsSession'[q].writer = nsSession[q].writer
                               /\ nsSession'[q].state = nsSession[q].state
                                    \/ (nsSession'[q].state = "lost" /\ nsSession[q].writer = "failed")
      BY <2>2, CancelSession
    <3> QED BY <1>2, <3>1 DEF NoneLost
  <2>3. CASE Quit(s)
    <3>1. \A q \in NsSession : nsSession'[q].writer = nsSession[q].writer
                               /\ nsSession'[q].state = IF q = s THEN "draining" ELSE nsSession[q].state
      BY <1>1, <2>3, StateSet DEF Quit
    <3> QED BY <1>2, <3>1 DEF NoneLost
  <2>4. CASE CloseNativeSession(s)
    <3>1. nsSession' = [nsSession EXCEPT ![s].state = "closed"]
      BY <2>4 DEF CloseNativeSession, NoneLost
    <3>2. \A q \in NsSession : nsSession'[q].writer = nsSession[q].writer
                               /\ nsSession'[q].state = IF q = s THEN "closed" ELSE nsSession[q].state
      BY <1>1, <3>1, StateSet
    <3> QED BY <1>2, <3>2 DEF NoneLost
  <2>5. ~ReadFails(s) /\ ~WriteFails(s)
    BY DEF ReadFails, WriteFails, NoneLost
  <2> QED BY <1>4, <2>1, <2>2, <2>3, <2>4, <2>5 DEF SessionStep
<1>5. ASSUME NEW w \in NsWorker, WorkerStep(w)
      PROVE  nsSession' = nsSession
  BY <1>5 DEF WorkerStep, TakeJob, AcquireQuery, RunQuery, FirstPage, FetchCursor, CloseCursor, PrepareQuery,
         ClosePreparedQuery, BeginTx, StageTxWrite, CommitRead, CommitClose, RollbackTx, KillTx, ListCommand, TxStatus
<1>6. CASE RoutingChanges \/ UNCHANGED nsVars
  BY <1>3, <1>6 DEF RoutingChanges, nsVars
<1> QED BY <1>3, <1>4, <1>5, <1>6 DEF SessionsNext

\* Nothing comes to belong to a closed session.
LEMMA OwnsNothingStep ==
    ASSUME RequestInv, PermitInv, OwnerInv, [SessionsNext]_nsVars
    PROVE  ClosedOwnsNothing'
<1>1. Places
  BY DEF RequestInv
<1>2. ASSUME nsSession' = nsSession, nsCursors' \subseteq nsCursors, nsPrepared' \subseteq nsPrepared, nsTx' \subseteq nsTx,
             nsPending'.pending \subseteq nsPending.pending, nsPending'.cancelled \subseteq nsPending.cancelled
      PROVE  ClosedOwnsNothing'
  BY <1>2 DEF OwnerInv, ClosedOwnsNothing
<1>3. ASSUME NEW s \in NsSession, Submit(s) \/ CancelPendingRequest(s)
      PROVE  ClosedOwnsNothing'
  <2>1. /\ nsSession[s].state = "open"
        /\ \A q \in NsSession : nsSession'[q].state = "closed" => nsSession[q].state = "closed" /\ q # s
    <3>1. CASE Submit(s)
      <4>1. SendsOne(s)
        BY <3>1, SubmitSendsOne
      <4> QED BY <4>1 DEF SendsOne
    <3>2. CASE CancelPendingRequest(s)
      <4>1. nsSession[s].state = "open" /\ \A q \in NsSession : nsSession'[q].state = nsSession[q].state
                                                \/ (nsSession'[q].state = "lost" /\ nsSession[q].writer = "failed")
        BY <3>2, CancelSession
      <4> QED BY <4>1
    <3> QED BY <1>3, <3>1, <3>2
  <2>2. nsPending \in [pending : SUBSET SomeKey, cancelled : SUBSET SomeKey]
    BY <1>1 DEF Places
  <2>3. \E r : /\ nsPending'.pending \subseteq nsPending.pending \cup {<<s, r>>}
               /\ nsPending'.cancelled \subseteq nsPending.cancelled \cup {<<s, r>>}
    <3>1. CASE Submit(s)
      <4>1. PICK r : r = nsSession[s].sent + 1
        OBVIOUS
      <4>2. PICK job : job = [session |-> s, req |-> r, call |-> nsConf.programs[s][r]]
        OBVIOUS
      <4>3. Key(job) = <<s, r>>
        BY <4>2 DEF Key
      <4>4. nsPending' = Register(nsPending, <<s, r>>) \/ nsPending' = StartPending(Register(nsPending, <<s, r>>), <<s, r>>)
        BY <3>1, <4>1, <4>2, <4>3 DEF Submit
      <4> QED BY <4>4 DEF Register, StartPending
    <3>2. CASE CancelPendingRequest(s)
      <4>1. PICK r : nsPending' = CancelPending(nsPending, <<s, r>>)
        BY <3>2 DEF CancelPendingRequest
      <4> QED BY <4>1, <2>2 DEF CancelPending
    <3> QED BY <1>3, <3>1, <3>2
  <2>4. UNCHANGED <<nsCursors, nsPrepared, nsTx>>
    BY <1>3 DEF Submit, CancelPendingRequest
  <2>5. \A r : <<s, r>>[1] = s
    OBVIOUS
  <2> QED BY <2>1, <2>3, <2>4, <2>5 DEF OwnerInv, ClosedOwnsNothing
<1>4. ASSUME NEW s \in NsSession, Quit(s)
      PROVE  ClosedOwnsNothing'
  <2>1. \A q \in NsSession : nsSession'[q].state = IF q = s THEN "draining" ELSE nsSession[q].state
    BY <1>1, <1>4, StateSet DEF Quit
  <2>2. UNCHANGED <<nsCursors, nsPrepared, nsTx, nsPending>>
    BY <1>4 DEF Quit, stores
  <2> QED BY <2>1, <2>2 DEF OwnerInv, ClosedOwnsNothing
<1>5. ASSUME NEW s \in NsSession, CloseNativeSession(s)
      PROVE  ClosedOwnsNothing'
  <2>1. nsSession[s].writer = "ok"
    BY DEF OwnerInv, NoneLost
  <2>2. /\ nsSession' = [nsSession EXCEPT ![s].state = "closed"]
        /\ nsCursors' = CloseSessionCursors(s) /\ nsPrepared' = CloseSessionPrepared(s) /\ nsTx' = CloseSessionTx(s)
        /\ nsPending' = ClosePending(nsPending, s) /\ ~Queued(s)
    BY <1>5, <2>1 DEF CloseNativeSession, Drained
  <2>3. \A q \in NsSession : nsSession'[q].state = IF q = s THEN "closed" ELSE nsSession[q].state
    BY <1>1, <2>2, StateSet
  <2>4. nsPending' = nsPending /\ \A k \in nsPending.pending \cup nsPending.cancelled : k[1] # s
    BY <2>2, DrainedPending
  <2>5. \A x \in nsCursors' \cup nsPrepared' \cup nsTx' : x \in nsCursors \cup nsPrepared \cup nsTx /\ x.session # s
    BY <2>2 DEF CloseSessionCursors, CloseSessionPrepared, CloseSessionTx
  <2> QED BY <2>3, <2>4, <2>5 DEF OwnerInv, ClosedOwnsNothing
<1>6. ASSUME NEW s \in NsSession
      PROVE  ~ReadFails(s) /\ ~WriteFails(s)
  BY DEF ReadFails, WriteFails, OwnerInv, NoneLost
<1>7. ASSUME NEW w \in NsWorker, TakeJob(w)
      PROVE  ClosedOwnsNothing'
  <2>1. /\ nsPending'.pending \subseteq nsPending.pending /\ nsPending'.cancelled \subseteq nsPending.cancelled
    BY <1>7 DEF TakeJob, TakeCancelled
  <2>2. UNCHANGED <<nsSession, nsCursors, nsPrepared, nsTx>>
    BY <1>7 DEF TakeJob
  <2> QED BY <1>2, <2>1, <2>2
<1>8. ASSUME NEW w \in NsWorker, WorkerStep(w), ~TakeJob(w)
      PROVE  ClosedOwnsNothing'
  <2>1. Moves(w) \/ Replies(w)
    BY <1>1, <1>8, WorkerMovesOrReplies
  <2>2. ~At(w, "idle") /\ SettledPending(w) /\ nsSession' = nsSession
    BY <2>1 DEF Moves, Replies
  <2>3. nsPending' = nsPending
    BY <2>2, TakenIsNotPending
  <2>4. OwnAdded(w)
    BY <1>8, WorkerOwns DEF OwnerInv
  <2>5. \A s \in NsSession : nsSession[s].state = "closed" => Job(w).session # s
    BY <2>2 DEF RequestInv, ClosedIsIdle, Working, At, Job
  <2> QED BY <2>2, <2>3, <2>4, <2>5 DEF OwnerInv, ClosedOwnsNothing, OwnAdded
<1>9. CASE RoutingChanges \/ UNCHANGED nsVars
  <2>1. UNCHANGED <<nsSession, nsCursors, nsPrepared, nsTx, nsPending>>
    BY <1>9 DEF RoutingChanges, stores, nsVars
  <2> QED BY <1>2, <2>1
<1> QED BY <1>3, <1>4, <1>5, <1>6, <1>7, <1>8, <1>9 DEF SessionsNext, SessionStep

\* Where no connection breaks, nothing is held for nobody: the active queries
\* are those of open cursors and running queries, and a session that closed
\* left no cursor, prepared query, transaction or pending request behind,
\* whatever its last requests were doing when it quit.
THEOREM HeldOnlyInUseTheorem ==
    ASSUME NoBreaks
    PROVE  SessionsSpec => []HeldOnlyInUse
<1>1. SessionsInit => OwnerInv
  BY NoBreaks DEF NoBreaks, SessionsInit, OwnerInv, NoneLost, ClosedOwnsNothing, TxShaped
<1>2. RequestInv /\ PermitInv /\ OwnerInv /\ [SessionsNext]_nsVars => OwnerInv'
  BY TxShapeKept, NoneLostStep, OwnsNothingStep DEF OwnerInv
<1>3. OwnerInv => EndedSessionsLeaveNothing
  BY DEF OwnerInv, NoneLost, ClosedOwnsNothing, EndedSessionsLeaveNothing
<1>4. SessionsInit => PermitInv
  BY PermitInit
<1>5. RequestInv /\ PermitInv /\ [SessionsNext]_nsVars => PermitInv'
  BY PermitStep
<1>6. PermitInv /\ OwnerInv => HeldOnlyInUse
  BY <1>3 DEF HeldOnlyInUse, PermitInv
<1> QED BY <1>1, <1>2, <1>4, <1>5, <1>6, RequestSafety, PTL DEF SessionsSpec

-----------------------------------------------------------------------------
(* Each step keeps StagedInv, when every client waits for its answers.     *)

\* No client sends ahead: a write staged while the commit of its transaction
\* is planned would be confirmed and lost.
NoSendingAhead == \A c \in NsConf : c.window <= 1

\* Answers stay.
LEMMA AnswersStay ==
    ASSUME RequestInv, [SessionsNext]_nsVars
    PROVE  nsHistory.answers \subseteq nsHistory'.answers
<1>1. Places
  BY DEF RequestInv
<1>2. CASE nsHistory' = nsHistory
  BY <1>2
<1>3. ASSUME NEW s, NEW r, NEW what, Delivered(s, r, what)
      PROVE  nsHistory.answers \subseteq nsHistory'.answers
  BY <1>3 DEF Delivered
<1>4. ASSUME NEW s \in NsSession, SessionStep(s)
      PROVE  nsHistory.answers \subseteq nsHistory'.answers
  <2>1. CASE Submit(s)
    <3>1. nsHistory' = nsHistory \/ \E r : nsHistory' = Answered(nsHistory, Answer(s, r, "full", 0))
      BY <2>1 DEF Submit
    <3> QED BY <1>1, <1>2, <1>3, <3>1, ReplyDelivers
  <2>2. CASE CancelPendingRequest(s)
    <3>1. nsHistory' = nsHistory \/ \E x : nsHistory' = [nsHistory EXCEPT !.cancelled = @ \cup {x}]
      BY <2>2 DEF CancelPendingRequest
    <3> QED BY <1>1, <3>1, HistoryCancelled
  <2>3. CASE Quit(s) \/ ReadFails(s) \/ WriteFails(s) \/ CloseNativeSession(s)
    BY <1>2, <2>3 DEF Quit, ReadFails, WriteFails, CloseNativeSession
  <2> QED BY <1>4, <2>1, <2>2, <2>3 DEF SessionStep
<1>5. ASSUME NEW w \in NsWorker, WorkerStep(w)
      PROVE  nsHistory.answers \subseteq nsHistory'.answers
  <2>1. CASE TakeJob(w)
    <3>1. nsHistory' = nsHistory \/ \E s, r : nsHistory' = Answered(nsHistory, Answer(s, r, "cancelled", 0))
      BY <2>1 DEF TakeJob
    <3> QED BY <1>1, <1>2, <1>3, <3>1, ReplyDelivers
  <2>2. CASE ~TakeJob(w)
    <3>1. Moves(w) \/ Replies(w)
      BY <1>1, <1>5, <2>2, WorkerMovesOrReplies
    <3> QED BY <1>2, <1>3, <3>1 DEF Moves, Replies
  <2> QED BY <2>1, <2>2
<1>6. CASE RoutingChanges \/ UNCHANGED nsVars
  BY <1>2, <1>6 DEF RoutingChanges, nsVars
<1> QED BY <1>4, <1>5, <1>6 DEF SessionsNext

\* A client that waits has one request under way.
LEMMA OneEachStep ==
    ASSUME RequestInv, OneEach, [SessionsNext]_nsVars
    PROVE  OneEach'
<1>1. Places /\ nsSession \in [NsSession -> SomeSession] /\ nsConf \in SomeConf
  BY DEF RequestInv, Places
<1>2. nsConf'.window <= 1
  BY LimitsStay DEF SameLimits, OneEach
<1>3. \A s, r : HasAnswer(s, r) => HasAnswer(s, r)'
  BY AnswersStay DEF HasAnswer
<1>4. CASE \A s \in NsSession : nsSession'[s].sent = nsSession[s].sent
  BY <1>2, <1>3, <1>4 DEF OneEach
<1>5. ASSUME NEW s \in NsSession, Submit(s)
      PROVE  OneEach'
  <2>1. SendsOne(s)
    BY <1>5, SubmitSendsOne
  <2>2. PICK open : open = {r \in 1..nsSession[s].sent : ~HasAnswer(s, r)}
    OBVIOUS
  <2>3. open \subseteq 1..nsSession[s].sent /\ nsSession[s].sent \in Nat
    BY <1>1, <2>2 DEF SomeSession
  <2>4. IsFiniteSet(open)
    <3>1. PICK n \in Nat : n = nsSession[s].sent
      BY <2>3
    <3>2. IsFiniteSet(1..n)
      BY FS_Interval
    <3>3. open \in SUBSET (1..n)
      BY <2>3, <3>1
    <3> QED BY <3>2, <3>3, FS_Subset
  <2>5. Cardinality(open) \in Nat
    BY <2>4, FS_CardinalityType
  <2>6. Cardinality(open) < nsConf.window
    BY <1>5, <2>2 DEF Submit, Outstanding, HasAnswer
  <2>7. Cardinality(open) = 0
    BY <1>1, <2>5, <2>6 DEF OneEach, SomeConf
  <2>8. open = {}
    BY <2>4, <2>7, FS_EmptySet
  <2>9. \A r \in 1..nsSession[s].sent : HasAnswer(s, r)'
    BY <2>2, <2>8, <1>3
  <2>10. \A r \in 1..nsSession'[s].sent : r \in 1..nsSession[s].sent \/ r = nsSession[s].sent + 1
    BY <2>1, <2>3 DEF SendsOne
  <2>11. \A q, r \in 1..nsSession'[s].sent : ~HasAnswer(s, q)' /\ ~HasAnswer(s, r)' => q = r
    BY <2>9, <2>10
  <2>12. \A u \in NsSession : u # s => nsSession'[u].sent = nsSession[u].sent
    BY <2>1 DEF SendsOne
  <2> QED BY <1>2, <1>3, <2>11, <2>12 DEF OneEach
<1>6. ASSUME NEW s \in NsSession, SessionStep(s), ~Submit(s)
      PROVE  \A q \in NsSession : nsSession'[q].sent = nsSession[q].sent
  <2>1. CASE CancelPendingRequest(s)
    BY <2>1, CancelSession
  <2>2. CASE Quit(s) \/ ReadFails(s) \/ WriteFails(s) \/ CloseNativeSession(s)
    BY <2>2, QuitTurns DEF Turns
  <2> QED BY <1>6, <2>1, <2>2 DEF SessionStep
<1>7. ASSUME NEW w \in NsWorker, WorkerStep(w)
      PROVE  nsSession' = nsSession
  BY <1>7 DEF WorkerStep, TakeJob, AcquireQuery, RunQuery, FirstPage, FetchCursor, CloseCursor, PrepareQuery,
         ClosePreparedQuery, BeginTx, StageTxWrite, CommitRead, CommitClose, RollbackTx, KillTx, ListCommand, TxStatus
<1>8. CASE RoutingChanges \/ UNCHANGED nsVars
  BY <1>4, <1>8 DEF RoutingChanges, nsVars
<1> QED BY <1>4, <1>5, <1>6, <1>7, <1>8 DEF SessionsNext

\* So two workers are never at requests of the same session.
LEMMA OneWorkerEach ==
    ASSUME RequestInv, OneEach, NEW v \in NsWorker, NEW w \in NsWorker, ~At(v, "idle"), ~At(w, "idle"),
           Job(v).session = Job(w).session
    PROVE  v = w
<1>1. Job(v) \in SomeJob /\ Job(w) \in SomeJob
  BY WorkerIsBusy DEF RequestInv
<1>2. PICK s \in NsSession, q \in Nat, r \in Nat : s = Job(v).session /\ q = Job(v).req /\ r = Job(w).req
  BY <1>1 DEF SomeJob
<1>3. AtWorker(s, q) /\ AtWorker(s, r)
  BY <1>2 DEF AtWorker
<1>4. q \in 1..nsSession[s].sent /\ r \in 1..nsSession[s].sent /\ ~HasAnswer(s, q) /\ ~HasAnswer(s, r)
  BY <1>3 DEF RequestInv, InOnePlace
<1>5. q = r
  BY <1>4 DEF OneEach
<1> QED BY <1>2, <1>5 DEF RequestInv, WorkedOnce

\* Where a worker's step leaves it.
LEMMA WorkerStages ==
    ASSUME Places, NEW w \in NsWorker, WorkerStep(w)
    PROVE  \/ nsWorker' = nsWorker
           \/ \E x : /\ nsWorker' = [nsWorker EXCEPT ![w] = x]
                     /\ \/ x.stage \notin {"permit", "commit"}
                        \/ AcquireQuery(w) /\ x.stage = "permit" /\ x.job = Job(w)
                        \/ /\ CommitRead(w) /\ x.stage = "commit" /\ x.job = Job(w)
                           /\ \E t \in OwnTx(Job(w).session, Job(w).call.id) : x.data = t.staged
<1> DEFINE Goal == \/ nsWorker' = nsWorker
                   \/ \E x : /\ nsWorker' = [nsWorker EXCEPT ![w] = x]
                             /\ \/ x.stage \notin {"permit", "commit"}
                                \/ AcquireQuery(w) /\ x.stage = "permit" /\ x.job = Job(w)
                                \/ /\ CommitRead(w) /\ x.stage = "commit" /\ x.job = Job(w)
                                   /\ \E t \in OwnTx(Job(w).session, Job(w).call.id) : x.data = t.staged
<1>1. CASE nsWorker' = [nsWorker EXCEPT ![w] = IdleWorker]
  <2>1. IdleWorker.stage = "idle"
    BY DEF IdleWorker
  <2> QED BY <1>1, <2>1
<1>2. ASSUME NEW stage, NEW data, Stage(w, stage, data), stage \notin {"permit", "commit"}
      PROVE  Goal
  <2>1. PICK x : x = [stage |-> stage, job |-> Job(w), data |-> data]
    OBVIOUS
  <2>2. nsWorker' = [nsWorker EXCEPT ![w] = x] /\ x.stage = stage
    BY <1>2, <2>1 DEF Stage
  <2> QED BY <1>2, <2>2
<1>3. CASE TakeJob(w)
  <2>1. PICK x : x = [stage |-> "taken", job |-> Head(nsQueue), data |-> 0]
    OBVIOUS
  <2>2. x.stage = "taken"
    BY <2>1
  <2>3. nsWorker' = nsWorker \/ nsWorker' = [nsWorker EXCEPT ![w] = x]
    BY <1>3, <2>1 DEF TakeJob
  <2> QED BY <2>2, <2>3
<1>4. CASE AcquireQuery(w)
  <2>1. PICK x : x = [stage |-> "permit", job |-> Job(w), data |-> 0]
    OBVIOUS
  <2>2. x.stage = "permit" /\ x.job = Job(w)
    BY <2>1
  <2>3. nsWorker' = [nsWorker EXCEPT ![w] = IdleWorker] \/ nsWorker' = [nsWorker EXCEPT ![w] = x]
    BY <1>4, <2>1 DEF AcquireQuery, Reply, Stage
  <2> QED BY <1>1, <1>4, <2>2, <2>3
<1>5. CASE CommitRead(w)
  <2>1. CASE Reply(w, "error", 0)
    BY <1>1, <2>1 DEF Reply
  <2>2. ASSUME NEW t \in OwnTx(Job(w).session, Job(w).call.id), Stage(w, "commit", t.staged)
        PROVE  Goal
    <3>1. PICK x : x = [stage |-> "commit", job |-> Job(w), data |-> t.staged]
      OBVIOUS
    <3>2. x.stage = "commit" /\ x.job = Job(w) /\ x.data = t.staged
      BY <3>1
    <3>3. nsWorker' = [nsWorker EXCEPT ![w] = x]
      BY <2>2, <3>1 DEF Stage
    <3> QED BY <1>5, <3>2, <3>3
  <2> QED BY <1>5, <2>1, <2>2 DEF CommitRead
<1>6. CASE RunQuery(w)
  <2>1. (\E data : Stage(w, "cursor", data)) \/ Reply(w, "error", 0)
    BY <1>6 DEF RunQuery
  <2> QED BY <1>1, <1>2, <2>1 DEF Reply
<1>7. CASE ~TakeJob(w) /\ ~AcquireQuery(w) /\ ~CommitRead(w) /\ ~RunQuery(w)
  <2>1. nsWorker' = [nsWorker EXCEPT ![w] = IdleWorker]
    BY <1>7 DEF WorkerStep, FirstPage, FetchCursor, CloseCursor, PrepareQuery, ClosePreparedQuery, BeginTx, StageTxWrite,
           CommitClose, RollbackTx, KillTx, ListCommand, TxStatus, Reply
  <2> QED BY <1>1, <2>1
<1> QED BY <1>3, <1>4, <1>5, <1>6, <1>7

\* Only queries hold permits.
LEMMA QueryPermitsStep ==
    ASSUME RequestInv, QueryPermits, [SessionsNext]_nsVars
    PROVE  QueryPermits'
<1>1. Places
  BY DEF RequestInv
<1>2. CASE nsWorker' = nsWorker
  BY <1>2 DEF QueryPermits, At, Op, Job
<1>3. ASSUME NEW w \in NsWorker, WorkerStep(w)
      PROVE  QueryPermits'
  <2>1. nsWorker' = nsWorker
        \/ \E x : /\ nsWorker' = [nsWorker EXCEPT ![w] = x]
                  /\ x.stage # "permit" \/ (AcquireQuery(w) /\ x.job = Job(w))
    BY <1>1, <1>3, WorkerStages
  <2>2. ASSUME NEW x, nsWorker' = [nsWorker EXCEPT ![w] = x], x.stage # "permit" \/ (AcquireQuery(w) /\ x.job = Job(w))
        PROVE  QueryPermits'
    <3>1. \A v \in NsWorker : nsWorker'[v] = IF v = w THEN x ELSE nsWorker[v]
      BY <1>1, <2>2 DEF Places
    <3>2. x.stage = "permit" => x.job.call.op \in QueryOps
      BY <2>2 DEF AcquireQuery, Op
    <3> QED BY <3>1, <3>2 DEF QueryPermits, At, Op, Job
  <2> QED BY <1>2, <2>1, <2>2
<1>4. ASSUME NEW s \in NsSession, SessionStep(s)
      PROVE  nsWorker' = nsWorker
  BY <1>4 DEF SessionStep, Submit, CancelPendingRequest, Quit, ReadFails, WriteFails, CloseNativeSession
<1>5. CASE RoutingChanges \/ UNCHANGED nsVars
  BY <1>2, <1>5 DEF RoutingChanges, nsVars
<1> QED BY <1>2, <1>3, <1>4, <1>5 DEF SessionsNext

\* What a step may change of the transactions: it removes some, or changes
\* those of the session it works for.
LEMMA TxChanges ==
    ASSUME TxShaped, NEW w \in NsWorker, WorkerStep(w)
    PROVE  \A t \in nsTx' : t \in nsTx \/ ((BeginTx(w) \/ StageTxWrite(w)) /\ t.session = Job(w).session)
<1>1. CASE BeginTx(w)
  <2>1. PICK i, m : nsTx' = nsTx \cup {NewTransaction(i, Job(w).session, m)}
    BY <1>1 DEF BeginTx
  <2>2. NewTransaction(i, Job(w).session, m).session = Job(w).session
    BY DEF NewTransaction
  <2> QED BY <1>1, <2>1, <2>2
<1>2. CASE StageTxWrite(w)
  <2>1. nsTx' = nsTx \/ \E t \in nsTx : t.session = Job(w).session /\ nsTx' = (nsTx \ {t}) \cup {StageWrite(t, Job(w).call.write)}
    BY <1>2 DEF StageTxWrite, OwnTx
  <2>2. ASSUME NEW t \in nsTx
        PROVE  StageWrite(t, Job(w).call.write).session = t.session
    <3>1. PICK i, s, m, g, e : t = [id |-> i, session |-> s, mode |-> m, staged |-> g, epoch |-> e]
      BY DEF TxShaped
    <3> QED BY <3>1 DEF StageWrite
  <2> QED BY <1>2, <2>1, <2>2
<1>3. CASE ~BeginTx(w) /\ ~StageTxWrite(w)
  <2>1. nsTx' \subseteq nsTx
    BY <1>3 DEF WorkerStep, TakeJob, AcquireQuery, RunQuery, FirstPage, FetchCursor, CloseCursor, PrepareQuery,
           ClosePreparedQuery, CommitRead, CommitClose, RollbackTx, KillTx, ListCommand, TxStatus
  <2> QED BY <2>1
<1> QED BY <1>1, <1>2, <1>3

\* The copy of a commit stays current: only requests of the same session could
\* change the transaction, and there are none.
LEMMA CommitIsCurrentStep ==
    ASSUME RequestInv, StagedInv, [SessionsNext]_nsVars
    PROVE  CommitIsCurrent'
<1>1. Places /\ TxShaped /\ OneEach /\ CommitIsCurrent /\ \A t, u \in nsTx : t.id = u.id => t = u
  BY DEF RequestInv, StagedInv, TxKept, SomeTx, TxShaped
<1>2. CASE nsWorker' = nsWorker /\ nsTx' \subseteq nsTx
  BY <1>1, <1>2 DEF CommitIsCurrent, OwnTx, At, Job
<1>3. ASSUME NEW w \in NsWorker, WorkerStep(w)
      PROVE  CommitIsCurrent'
  <2> SUFFICES ASSUME NEW v \in NsWorker, nsWorker'[v].stage = "commit", NEW t \in nsTx',
                      t.id = nsWorker'[v].job.call.id, t.session = nsWorker'[v].job.session
               PROVE  nsWorker'[v].data = t.staged
    BY DEF CommitIsCurrent, OwnTx, At, Job
  <2>1. t \in nsTx \/ ((BeginTx(w) \/ StageTxWrite(w)) /\ t.session = Job(w).session)
    BY <1>1, <1>3, TxChanges
  <2>2. CASE nsWorker'[v] = nsWorker[v]
    <3>1. At(v, "commit") /\ Job(v).session = t.session /\ Job(v).call.id = t.id
      BY <2>2 DEF At, Job
    <3>2. CASE t \in nsTx
      BY <1>1, <2>2, <3>1, <3>2 DEF CommitIsCurrent, OwnTx
    <3>3. CASE (BeginTx(w) \/ StageTxWrite(w)) /\ t.session = Job(w).session
      <4>1. At(w, "taken")
        BY <3>3 DEF BeginTx, StageTxWrite
      <4>2. ~At(v, "idle") /\ ~At(w, "idle") /\ v # w
        BY <3>1, <4>1 DEF At
      <4> QED BY <1>1, <3>1, <3>3, <4>2, OneWorkerEach
    <3> QED BY <2>1, <3>2, <3>3
  <2>3. CASE nsWorker'[v] # nsWorker[v]
    <3>1. PICK x : /\ nsWorker' = [nsWorker EXCEPT ![w] = x]
                   /\ \/ x.stage # "commit"
                      \/ /\ CommitRead(w) /\ x.job = Job(w)
                         /\ \E u \in OwnTx(Job(w).session, Job(w).call.id) : x.data = u.staged
      BY <1>1, <1>3, <2>3, WorkerStages
    <3>2. v = w /\ nsWorker'[v] = x
      BY <1>1, <2>3, <3>1 DEF Places
    <3>3. PICK u \in OwnTx(Job(w).session, Job(w).call.id) : x.data = u.staged /\ CommitRead(w) /\ x.job = Job(w)
      BY <3>1, <3>2
    <3>4. nsTx' = nsTx
      BY <3>3 DEF CommitRead
    <3>5. u \in nsTx /\ u.id = t.id
      BY <3>2, <3>3 DEF OwnTx
    <3> QED BY <1>1, <3>2, <3>3, <3>4, <3>5
  <2> QED BY <2>2, <2>3
<1>4. ASSUME NEW s \in NsSession, SessionStep(s)
      PROVE  nsWorker' = nsWorker /\ nsTx' \subseteq nsTx
  BY <1>4 DEF SessionStep, Submit, CancelPendingRequest, Quit, ReadFails, WriteFails, CloseNativeSession, CloseSessionTx, stores
<1>5. CASE RoutingChanges \/ UNCHANGED nsVars
  BY <1>2, <1>5 DEF RoutingChanges, nsVars, stores
<1> QED BY <1>2, <1>3, <1>4, <1>5 DEF SessionsNext

TxInv == TxKept /\ StagedIsSomewhere

SameStaged == nsHistory'.staged = nsHistory.staged /\ nsHistory'.committed = nsHistory.committed

\* Steps that confirm nothing: transactions may go, and writes may be added.
LEMMA TxSame ==
    ASSUME TxInv, SameStaged, nsTx' \subseteq nsTx, nsIds' \in [cursor : Nat, prepared : Nat, tx : Nat], nsIds'.tx = nsIds.tx,
           nsStored' \in Seq(SentWrite), \A x : Holds(nsStored, x) => Holds(nsStored', x)
    PROVE  TxInv'
<1>1. TxKept'
  BY DEF TxInv, TxKept, SomeTx, SameStaged
<1>2. StagedIsSomewhere'
  BY DEF TxInv, StagedIsSomewhere, SameStaged
<1> QED BY <1>1, <1>2 DEF TxInv

\* What a sequence holds after another is added to it.
LEMMA HoldsConcat ==
    ASSUME NEW a \in Seq(SentWrite), NEW b \in Seq(SentWrite)
    PROVE  /\ a \o b \in Seq(SentWrite)
           /\ \A x : Holds(a, x) => Holds(a \o b, x)
           /\ \A x : Holds(b, x) => Holds(a \o b, x)
<1>1. a \o b \in Seq(SentWrite) /\ Len(a) \in Nat /\ Len(b) \in Nat
  OBVIOUS
<1>2. ASSUME NEW x, Holds(a, x) PROVE Holds(a \o b, x)
  <2>1. PICK i \in DOMAIN a : a[i] = x
    BY <1>2 DEF Holds
  <2>2. i \in DOMAIN (a \o b) /\ (a \o b)[i] = x
    BY <2>1
  <2> QED BY <2>2 DEF Holds
<1>3. ASSUME NEW x, Holds(b, x) PROVE Holds(a \o b, x)
  <2>1. PICK i \in DOMAIN b : b[i] = x
    BY <1>3 DEF Holds
  <2>2. Len(a) + i \in DOMAIN (a \o b) /\ (a \o b)[Len(a) + i] = x
    BY <2>1
  <2> QED BY <2>2 DEF Holds
<1> QED BY <1>1, <1>2, <1>3

\* A transaction begins under an id that no confirmed write carries.
LEMMA BeginKeeps ==
    ASSUME RequestInv, StagedInv, NEW w \in NsWorker, BeginTx(w)
    PROVE  TxInv'
<1>1. TxKept /\ StagedIsSomewhere /\ nsIds \in [cursor : Nat, prepared : Nat, tx : Nat] /\ Places
  BY DEF StagedInv, TxKept, RequestInv
<1>2. PICK n \in Nat : n = nsIds.tx + 1
  BY <1>1
<1>3. nsIds' \in [cursor : Nat, prepared : Nat, tx : Nat] /\ nsIds'.tx = n
  BY <1>1, <1>2 DEF BeginTx
<1>4. PICK t : t = [id |-> n, session |-> Job(w).session, mode |-> Job(w).call.mode, staged |-> <<>>, epoch |-> nsConf.epoch]
  OBVIOUS
<1>5. nsTx' = nsTx \cup {t} /\ nsStored' = nsStored
  BY <1>2, <1>4 DEF BeginTx, NewTransaction
<1>6. t.id = n /\ t.staged = <<>> /\ t = [id |-> t.id, session |-> t.session, mode |-> t.mode, staged |-> t.staged, epoch |-> t.epoch]
  BY <1>4
<1>7. SameStaged
  <2>1. \E what, m : nsHistory' = Answered(nsHistory, Answer(Job(w).session, Job(w).req, what, m))
    BY DEF BeginTx, Reply
  <2> QED BY <1>1, <2>1, ReplyDelivers DEF SameStaged
<1>8. \A i \in 1..nsIds.tx : i \in 1..n /\ i # n
  BY <1>1, <1>2
<1>9. n \in 1..n
  BY <1>1, <1>2
<1>10. \A u \in nsTx : u.id \in 1..nsIds.tx
  BY <1>1 DEF TxKept, SomeTx
<1>11. n \notin nsHistory.committed
  BY <1>1, <1>8 DEF TxKept
<1>12. \A u \in nsTx' : SomeTx(u)'
  <2>1. SomeTx(t)'
    BY <1>3, <1>6, <1>9 DEF SomeTx
  <2>2. \A u \in nsTx : SomeTx(u)'
    BY <1>1, <1>3, <1>8 DEF TxKept, SomeTx
  <2> QED BY <1>5, <2>1, <2>2
<1>13. \A u, v \in nsTx' : u.id = v.id => u = v
  BY <1>1, <1>5, <1>6, <1>8, <1>10 DEF TxKept
<1>14. nsHistory.committed \subseteq 1..n
  BY <1>1, <1>8 DEF TxKept
<1>15. \A u \in nsTx' : u.id \notin nsHistory.committed
  BY <1>1, <1>5, <1>6, <1>11 DEF TxKept
<1>16. TxKept'
  BY <1>1, <1>3, <1>5, <1>7, <1>12, <1>13, <1>14, <1>15 DEF TxKept, SameStaged
<1>17. StagedIsSomewhere'
  <2> SUFFICES ASSUME NEW m \in Nat, NEW x \in SentWrite, <<m, x>> \in nsHistory.staged
               PROVE  /\ m \in 1..n
                      /\ \A u \in nsTx' : u.id = m => Holds(u.staged, x)
                      /\ m \in nsHistory.committed => Holds(nsStored, x)
    BY <1>3, <1>5, <1>7 DEF StagedIsSomewhere, SameStaged
  <2>1. /\ m \in 1..nsIds.tx
        /\ \A u \in nsTx : u.id = m => Holds(u.staged, x)
        /\ m \in nsHistory.committed => Holds(nsStored, x)
    BY <1>1 DEF StagedIsSomewhere
  <2>2. m # n /\ m \in 1..n
    BY <1>8, <2>1
  <2> QED BY <1>5, <1>6, <2>1, <2>2
<1> QED BY <1>16, <1>17 DEF TxInv

\* A staged write is in its transaction when it is confirmed.
LEMMA StagesInKeeps ==
    ASSUME RequestInv, StagedInv, NEW w \in NsWorker, StageTxWrite(w), NEW t \in nsTx, StagesIn(w, t)
    PROVE  TxInv'
<1>1. TxKept /\ StagedIsSomewhere /\ Places
  BY DEF StagedInv, RequestInv
<1>2. At(w, "taken") /\ Op(w) = "stage" /\ UNCHANGED <<nsIds, nsStored, nsConf, nsSession, nsQueue>> /\ SettledPending(w)
  BY DEF StageTxWrite, Started, SettledPending
<1>3. ~At(w, "idle")
  BY <1>2 DEF At
<1>4. Job(w) \in SomeJob
  BY <1>1, <1>3, WorkerIsBusy
<1>5. PICK y \in SentWrite : y = Job(w).call.write
  <2>1. Job(w).call \in SentCall /\ Job(w).call.op = "stage"
    BY <1>2, <1>4 DEF SomeJob, Op
  <2>2. Job(w).call \in {d \in SentCall : d.op = "stage"}
    BY <2>1
  <2> QED BY <2>2 DEF SentWrite
<1>6. nsHistory'.staged = nsHistory.staged \cup {<<t.id, y>>} /\ nsHistory'.committed = nsHistory.committed
  BY <1>1, <1>2, <1>3, <1>5, StagedReplies
<1>7. SomeTx(t) /\ t.id \in Nat /\ t.staged \in Seq(SentWrite)
  BY <1>1 DEF TxKept, SomeTx
<1>8. PICK i, s, m, g, e : t = [id |-> i, session |-> s, mode |-> m, staged |-> g, epoch |-> e]
  BY <1>7 DEF SomeTx
<1>9. t.id = i /\ t.staged = g
  BY <1>8
<1>10. PICK u : u = [id |-> i, session |-> s, mode |-> m, staged |-> Append(g, y), epoch |-> e]
  OBVIOUS
<1>11. StageWrite(t, y) = u
  <2>1. PICK h : h = Append(g, y)
    OBVIOUS
  <2>2. StageWrite(t, y) = [t EXCEPT !.staged = h]
    BY <1>9, <2>1 DEF StageWrite
  <2>3. [t EXCEPT !.staged = h] = [id |-> i, session |-> s, mode |-> m, staged |-> h, epoch |-> e]
    BY <1>8
  <2> QED BY <1>10, <2>1, <2>2, <2>3
<1>12. nsTx' = (nsTx \ {t}) \cup {u}
  BY <1>5, <1>11 DEF StagesIn
<1>13. u.id = t.id /\ u.staged = Append(g, y)
       /\ u = [id |-> u.id, session |-> u.session, mode |-> u.mode, staged |-> u.staged, epoch |-> u.epoch]
  BY <1>9, <1>10
<1>14. /\ u.staged \in Seq(SentWrite) /\ Holds(u.staged, y)
       /\ \A x : Holds(t.staged, x) => Holds(u.staged, x)
  <2>1. g \in Seq(SentWrite) /\ Append(g, y) \in Seq(SentWrite)
    BY <1>7, <1>9
  <2>2. Len(g) + 1 \in DOMAIN Append(g, y) /\ Append(g, y)[Len(g) + 1] = y
    BY <2>1
  <2>3. \A k \in DOMAIN g : k \in DOMAIN Append(g, y) /\ Append(g, y)[k] = g[k]
    BY <2>1
  <2> QED BY <1>9, <1>13, <2>1, <2>2, <2>3 DEF Holds
<1>15. \A v \in nsTx' : SomeTx(v)'
  <2>1. SomeTx(u)'
    BY <1>2, <1>7, <1>13, <1>14 DEF SomeTx
  <2>2. \A v \in nsTx : SomeTx(v)'
    BY <1>1, <1>2 DEF TxKept, SomeTx
  <2> QED BY <1>12, <2>1, <2>2
<1>16. \A v, z \in nsTx' : v.id = z.id => v = z
  BY <1>1, <1>12, <1>13 DEF TxKept
<1>17. \A v \in nsTx' : v.id \notin nsHistory.committed
  BY <1>1, <1>12, <1>13 DEF TxKept
<1>18. nsHistory'.staged \subseteq Nat \X SentWrite
  BY <1>1, <1>6, <1>7 DEF TxKept
<1>19. TxKept'
  BY <1>1, <1>2, <1>6, <1>15, <1>16, <1>17, <1>18 DEF TxKept
<1>20. StagedIsSomewhere'
  <2> SUFFICES ASSUME NEW n \in Nat, NEW x \in SentWrite, <<n, x>> \in nsHistory'.staged
               PROVE  /\ n \in 1..nsIds.tx
                      /\ \A v \in nsTx' : v.id = n => Holds(v.staged, x)
                      /\ n \in nsHistory.committed => Holds(nsStored, x)
    BY <1>2, <1>6 DEF StagedIsSomewhere
  <2>1. CASE <<n, x>> \in nsHistory.staged
    <3>1. /\ n \in 1..nsIds.tx
          /\ \A v \in nsTx : v.id = n => Holds(v.staged, x)
          /\ n \in nsHistory.committed => Holds(nsStored, x)
      BY <1>1, <2>1 DEF StagedIsSomewhere
    <3> QED BY <1>12, <1>13, <1>14, <3>1
  <2>2. CASE <<n, x>> = <<t.id, y>>
    <3>1. n = t.id /\ x = y /\ n \in 1..nsIds.tx /\ n \notin nsHistory.committed
      BY <1>1, <1>7, <2>2 DEF TxKept, SomeTx
    <3>2. \A v \in nsTx' : v.id = n => v = u
      BY <1>1, <1>12, <3>1 DEF TxKept
    <3> QED BY <1>14, <3>1, <3>2
  <2> QED BY <1>6, <2>1, <2>2
<1> QED BY <1>19, <1>20 DEF TxInv

\* A commit applies what the transaction holds, so every write confirmed in it
\* reaches the database with the confirmation of the commit.
LEMMA CommitsTxKeeps ==
    ASSUME RequestInv, StagedInv, NEW w \in NsWorker, CommitClose(w), NEW t \in nsTx, CommitsTx(w, t)
    PROVE  TxInv'
<1>1. TxKept /\ StagedIsSomewhere /\ CommitIsCurrent /\ Places
  BY DEF StagedInv, RequestInv
<1>2. At(w, "commit") /\ UNCHANGED <<nsIds, nsConf, nsSession, nsQueue>> /\ SettledPending(w)
  BY DEF CommitClose, SettledPending
<1>3. ~At(w, "idle")
  BY <1>2 DEF At
<1>4. nsHistory'.staged = nsHistory.staged /\ nsHistory'.committed = nsHistory.committed \cup {t.id}
  BY <1>1, <1>2, <1>3, CommitReplies
<1>5. nsWorker[w].data = t.staged
  BY <1>1, <1>2 DEF CommitIsCurrent, OwnTx, CommitsTx
<1>6. SomeTx(t) /\ t.staged \in Seq(SentWrite) /\ nsStored \in Seq(SentWrite)
  BY <1>1 DEF TxKept, SomeTx
<1>7. nsStored' = nsStored \o t.staged /\ nsTx' = nsTx \ {t}
  BY <1>5 DEF CommitsTx
<1>8. PICK g \in Seq(SentWrite) : g = t.staged
  BY <1>6
<1>9. /\ nsStored' \in Seq(SentWrite)
      /\ \A x : Holds(nsStored, x) => Holds(nsStored', x)
      /\ \A x : Holds(t.staged, x) => Holds(nsStored', x)
  BY <1>6, <1>7, <1>8, HoldsConcat
<1>10. TxKept'
  <2>1. \A u \in nsTx' : SomeTx(u)'
    BY <1>1, <1>2, <1>7 DEF TxKept, SomeTx
  <2>2. t.id \in 1..nsIds.tx
    BY <1>6 DEF SomeTx
  <2>3. \A u \in nsTx' : u.id \notin nsHistory'.committed
    BY <1>1, <1>4, <1>7 DEF TxKept
  <2> QED BY <1>1, <1>2, <1>4, <1>7, <1>9, <2>1, <2>2, <2>3 DEF TxKept
<1>11. StagedIsSomewhere'
  BY <1>1, <1>2, <1>4, <1>7, <1>9 DEF StagedIsSomewhere
<1> QED BY <1>10, <1>11 DEF TxInv

\* Every other step of a worker.
LEMMA PlainWorkKeeps ==
    ASSUME RequestInv, StagedInv, NEW w \in NsWorker,
           \/ AcquireQuery(w) \/ FirstPage(w) \/ FetchCursor(w) \/ CloseCursor(w) \/ PrepareQuery(w) \/ ClosePreparedQuery(w)
           \/ CommitRead(w) \/ RollbackTx(w) \/ KillTx(w) \/ ListCommand(w) \/ TxStatus(w) \/ TakeJob(w)
    PROVE  TxInv'
<1>1. Places /\ TxInv /\ TxKept
  BY DEF RequestInv, StagedInv, TxInv
<1>2. nsStored' = nsStored /\ nsTx' \subseteq nsTx
  BY DEF AcquireQuery, FirstPage, FetchCursor, CloseCursor, PrepareQuery, ClosePreparedQuery, CommitRead, RollbackTx, KillTx,
         ListCommand, TxStatus, TakeJob
<1>3. nsHistory' = nsHistory \/ \E s, r, what, n : nsHistory' = Answered(nsHistory, Answer(s, r, what, n))
  BY DEF AcquireQuery, FirstPage, FetchCursor, CloseCursor, PrepareQuery, ClosePreparedQuery, CommitRead, RollbackTx, KillTx,
         ListCommand, TxStatus, TakeJob, Reply
<1>4. SameStaged
  BY <1>1, <1>3, ReplyDelivers DEF SameStaged
<1>5. nsIds' \in [cursor : Nat, prepared : Nat, tx : Nat] /\ nsIds'.tx = nsIds.tx
  <2>1. nsIds' = nsIds \/ nsIds' = [nsIds EXCEPT !.prepared = @ + 1]
    BY DEF AcquireQuery, FirstPage, FetchCursor, CloseCursor, PrepareQuery, ClosePreparedQuery, CommitRead, RollbackTx, KillTx,
           ListCommand, TxStatus, TakeJob
  <2> QED BY <1>1, <2>1 DEF TxKept
<1>6. nsStored' \in Seq(SentWrite) /\ \A x : Holds(nsStored, x) => Holds(nsStored', x)
  BY <1>1, <1>2 DEF TxKept, Holds
<1> QED BY <1>1, <1>2, <1>4, <1>5, <1>6, TxSame

\* A query only adds writes.
LEMMA RunQueryStores ==
    ASSUME RequestInv, StagedInv, NEW w \in NsWorker, RunQuery(w)
    PROVE  TxInv'
<1>1. Places /\ TxInv /\ TxKept
  BY DEF RequestInv, StagedInv, TxInv
<1>2. At(w, "permit") /\ nsTx' = nsTx
  BY DEF RunQuery
<1>3. ~At(w, "idle") /\ Op(w) \in QueryOps
  BY <1>2 DEF At, StagedInv, QueryPermits
<1>4. Job(w).call \in SentCall
  BY <1>1, <1>3, WorkerIsBusy DEF SomeJob
<1>5. PICK ws \in Seq(SentWrite) : ws = Job(w).call.writes
  BY <1>3, <1>4, WritesAssumption DEF Op
<1>6. nsStored' = nsStored \/ nsStored' = nsStored \o ws
  BY <1>5 DEF RunQuery
<1>7. nsStored \in Seq(SentWrite)
  BY <1>1 DEF TxKept
<1>8. nsStored' \in Seq(SentWrite) /\ \A x : Holds(nsStored, x) => Holds(nsStored', x)
  <2>1. CASE nsStored' = nsStored
    BY <1>7, <2>1
  <2>2. CASE nsStored' = nsStored \o ws
    BY <1>7, <2>2, HoldsConcat
  <2> QED BY <1>6, <2>1, <2>2
<1>9. nsHistory' = nsHistory \/ nsHistory' = Answered(nsHistory, Answer(Job(w).session, Job(w).req, "error", 0))
  BY DEF RunQuery, Reply
<1>10. SameStaged
  BY <1>1, <1>9, ReplyDelivers DEF SameStaged
<1>11. nsIds' \in [cursor : Nat, prepared : Nat, tx : Nat] /\ nsIds'.tx = nsIds.tx
  <2>1. nsIds' = nsIds \/ nsIds' = [nsIds EXCEPT !.cursor = @ + 1]
    BY DEF RunQuery
  <2> QED BY <1>1, <2>1 DEF TxKept
<1> QED BY <1>1, <1>2, <1>8, <1>10, <1>11, TxSame

\* Staging and committing, refused or not.
LEMMA TxWorkKeeps ==
    ASSUME RequestInv, StagedInv, NEW w \in NsWorker, StageTxWrite(w) \/ CommitClose(w)
    PROVE  TxInv'
<1>1. Places /\ TxInv /\ TxKept
  BY DEF RequestInv, StagedInv, TxInv
<1>2. ASSUME nsTx' \subseteq nsTx, UNCHANGED <<nsStored, nsIds>>, NEW what, Reply(w, what, 0)
      PROVE  TxInv'
  <2>1. SameStaged
    BY <1>1, <1>2, ReplyDelivers DEF SameStaged, Reply
  <2>2. nsStored' \in Seq(SentWrite) /\ \A x : Holds(nsStored, x) => Holds(nsStored', x)
    BY <1>1, <1>2 DEF TxKept
  <2>3. nsIds' \in [cursor : Nat, prepared : Nat, tx : Nat] /\ nsIds'.tx = nsIds.tx
    BY <1>1, <1>2 DEF TxKept
  <2> QED BY <1>1, <1>2, <2>1, <2>2, <2>3, TxSame
<1>3. CASE StageTxWrite(w)
  <2>1. UNCHANGED <<nsStored, nsIds>>
    BY <1>3 DEF StageTxWrite
  <2>2. (nsTx' = nsTx /\ Reply(w, "error", 0)) \/ \E t \in nsTx : StagesIn(w, t)
    BY <1>3 DEF StageTxWrite, StagesIn, OwnTx
  <2> QED BY <1>2, <1>3, <2>1, <2>2, StagesInKeeps
<1>4. CASE CommitClose(w)
  <2>1. nsIds' = nsIds
    BY <1>4 DEF CommitClose
  <2>2. (nsTx' \subseteq nsTx /\ nsStored' = nsStored /\ \E what : Reply(w, what, 0)) \/ \E t \in nsTx : CommitsTx(w, t)
    BY <1>4 DEF CommitClose, CommitsTx, OwnTx
  <2> QED BY <1>2, <1>4, <2>1, <2>2, CommitsTxKeeps
<1> QED BY <1>3, <1>4

\* Every step keeps each staged write in its transaction or in the database.
LEMMA TxStep ==
    ASSUME RequestInv, StagedInv, [SessionsNext]_nsVars
    PROVE  TxInv'
<1>1. Places /\ TxInv /\ TxKept
  BY DEF RequestInv, StagedInv, TxInv
<1>2. ASSUME NEW w \in NsWorker, WorkerStep(w)
      PROVE  TxInv'
  BY <1>2, BeginKeeps, PlainWorkKeeps, RunQueryStores, TxWorkKeeps DEF WorkerStep
<1>3. ASSUME nsTx' \subseteq nsTx, UNCHANGED <<nsStored, nsIds>>, SameStaged
      PROVE  TxInv'
  <2>1. nsStored' \in Seq(SentWrite) /\ \A x : Holds(nsStored, x) => Holds(nsStored', x)
    BY <1>1, <1>3 DEF TxKept
  <2>2. nsIds' \in [cursor : Nat, prepared : Nat, tx : Nat] /\ nsIds'.tx = nsIds.tx
    BY <1>1, <1>3 DEF TxKept
  <2> QED BY <1>1, <1>3, <2>1, <2>2, TxSame
<1>4. ASSUME NEW s \in NsSession, SessionStep(s)
      PROVE  TxInv'
  <2>1. nsTx' \subseteq nsTx /\ UNCHANGED <<nsStored, nsIds>>
    BY <1>4 DEF SessionStep, Submit, CancelPendingRequest, Quit, ReadFails, WriteFails, CloseNativeSession, CloseSessionTx, stores
  <2>2. \/ nsHistory' = nsHistory
        \/ \E r : nsHistory' = Answered(nsHistory, Answer(s, r, "full", 0))
        \/ \E x : nsHistory' = [nsHistory EXCEPT !.cancelled = @ \cup {x}]
    BY <1>4 DEF SessionStep, Submit, CancelPendingRequest, Quit, ReadFails, WriteFails, CloseNativeSession
  <2>3. ASSUME NEW x, nsHistory' = [nsHistory EXCEPT !.cancelled = @ \cup {x}]
        PROVE  SameStaged
    <3>1. nsHistory' = [answers |-> nsHistory.answers, twice |-> nsHistory.twice, cancelled |-> nsHistory.cancelled \cup {x},
                        staged |-> nsHistory.staged, committed |-> nsHistory.committed]
      BY <1>1, <2>3, HistoryCancelled
    <3> QED BY <3>1 DEF SameStaged
  <2>4. ASSUME NEW r, nsHistory' = Answered(nsHistory, Answer(s, r, "full", 0))
        PROVE  SameStaged
    BY <1>1, <2>4, ReplyDelivers DEF SameStaged
  <2>5. SameStaged
    BY <2>2, <2>3, <2>4 DEF SameStaged
  <2> QED BY <1>3, <2>1, <2>5
<1>5. CASE RoutingChanges \/ UNCHANGED nsVars
  <2>1. UNCHANGED <<nsTx, nsStored, nsIds, nsHistory>>
    BY <1>5 DEF RoutingChanges, nsVars, stores
  <2> QED BY <1>3, <2>1 DEF SameStaged
<1> QED BY <1>2, <1>4, <1>5 DEF SessionsNext

\* Where every client waits for its answers, a write that was confirmed as
\* staged in a transaction whose commit was confirmed is in the database,
\* although the commit plans a copy without the lock and other sessions kill
\* transactions, close and change the routing table meanwhile.
THEOREM StagedWritesCommittedTheorem ==
    ASSUME NoSendingAhead
    PROVE  SessionsSpec => []StagedWritesCommitted
<1>1. SessionsInit => StagedInv
  <2> SUFFICES ASSUME SessionsInit PROVE StagedInv
    OBVIOUS
  <2>1. nsConf.window <= 1
    BY NoSendingAhead DEF NoSendingAhead, SessionsInit
  <2>2. \A s \in NsSession : nsSession[s].sent = 0
    BY DEF SessionsInit
  <2>3. OneEach
    BY <2>1, <2>2 DEF OneEach
  <2>4. TxKept /\ StagedIsSomewhere
    BY DEF SessionsInit, TxKept, StagedIsSomewhere
  <2>5. CommitIsCurrent /\ QueryPermits
    BY DEF SessionsInit, CommitIsCurrent, QueryPermits, At, IdleWorker
  <2> QED BY <2>3, <2>4, <2>5 DEF StagedInv
<1>2. RequestInv /\ StagedInv /\ [SessionsNext]_nsVars => StagedInv'
  <2> SUFFICES ASSUME RequestInv, StagedInv, [SessionsNext]_nsVars PROVE StagedInv'
    OBVIOUS
  <2>1. OneEach' /\ QueryPermits'
    BY OneEachStep, QueryPermitsStep DEF StagedInv
  <2>2. CommitIsCurrent' /\ TxInv'
    BY CommitIsCurrentStep, TxStep
  <2> QED BY <2>1, <2>2 DEF StagedInv, TxInv
<1>3. StagedInv => StagedWritesCommitted
  <2> SUFFICES ASSUME StagedInv, NEW z \in nsHistory.staged, z[1] \in nsHistory.committed
               PROVE  \E i \in DOMAIN nsStored : nsStored[i] = z[2]
    BY DEF StagedWritesCommitted
  <2>1. PICK n \in Nat, x \in SentWrite : z = <<n, x>>
    BY DEF StagedInv, TxKept
  <2>2. Holds(nsStored, x)
    BY <2>1 DEF StagedInv, StagedIsSomewhere
  <2> QED BY <2>1, <2>2 DEF Holds
<1> QED BY <1>1, <1>2, <1>3, RequestSafety, PTL DEF SessionsSpec

=============================================================================
