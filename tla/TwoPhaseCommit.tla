--------------------------- MODULE TwoPhaseCommit ---------------------------
(***************************************************************************)
(* COMMIT_TX of a read-write transaction that writes to several shards.    *)
(* The server a client is connected to coordinates: it prepares the batch  *)
(* of every participant (PreparedTransactionStore, a durable map from      *)
(* prepared ids to batches), appends its decision to decisions.log, has    *)
(* the participants commit or abort, and removes the decision.  Recovery   *)
(* replays the decisions on start-up, before the server listens, and then  *)
(* periodically.                                                           *)
(*                                                                         *)
(* Remote commands are synchronous calls: the caller may lose the answer,  *)
(* and a lost call may still run later.  A server has a fixed number of    *)
(* native workers; a coordinating one is occupied until it has answered    *)
(* its client.  Every server is the primary of one shard.                  *)
(***************************************************************************)
EXTENDS Integers, Sequences, FiniteSets

CONSTANTS Server, Tx, None,
          Coord(_),      \* the server that coordinates a transaction
          Targets(_),    \* its participants: the coordinator first if it is one
          Workers,       \* native workers per server
          Crasher,       \* servers whose process may die
          TakeFaults,    \* a batch may be lost between take and apply
          MaxFaults      \* bound on deaths, lost answers, failed connects, refusals

ASSUME ActorAssumption ==
    /\ Server \cap Tx = {} /\ None \notin Server \cup Tx /\ Crasher \subseteq Server
    /\ \A t \in Tx : Coord(t) \in Server /\ Targets(t) \in Seq(Server)
ASSUME LimitAssumption ==
    Workers \in Nat \ {0} /\ TakeFaults \in BOOLEAN /\ MaxFaults \in Nat

\* A batch in a participant's store; a record of decisions.log; a call and
\* its answer; what remove_tx_ids has loaded.
Part == [at : Server, id : Nat]
Decision == [tx : Tx, decision : {"commit", "abort"}, parts : Seq(Part)]
Call == [kind : {"prepare", "commit", "abort"}, to : Server, id : Nat,
         batch : Tx \cup {None}, from : Tx \cup Server]
AnswerRec == [res : {"ok", "unknown", "err"}, id : Nat]
Loaded == [keep : Seq(Decision), write : BOOLEAN]

ASSUME NoneAssumption == None \notin Call /\ None \notin AnswerRec /\ None \notin Loaded

VARIABLES
    \* on disk
    prepared,   \* prepared[s]: prepared id -> transaction whose batch it is
    decisions,  \* decisions[s]: the records of decisions.log
    applied,    \* applied[s]: transactions whose batch s has applied
    \* in memory
    status,     \* status[s]: "down", "starting" or "serving"
    nextId,     \* PreparedTransactionStore::next_id
    co,         \* co[t]: where the commit of t is, and the batches still held
    rec,        \* rec[s]: the decision replay of s
    taken,      \* taken[s]: batches taken by a commit and not yet applied
    \* calls
    calls,      \* calls that have not been executed
    wait,       \* wait[c]: the call that caller c waits for
    inbox,      \* inbox[c]: its answer
    snap,       \* snap[c]: what remove_tx_ids of c has loaded
    streams,    \* streams[t]: peers with whom t's prepare stream is open
    \* bounds and history
    faults,     \* faults so far
    outcome     \* outcome[t]: "open", "commit" or "abort", as first recorded

disk == <<prepared, decisions, applied>>
vars == <<prepared, decisions, applied, status, nextId, co, rec, taken, calls, wait,
          inbox, snap, streams, faults, outcome>>

\* Threads that make calls: the worker that commits t, the replay of s.
Caller == Tx \cup Server
Home(c) == IF c \in Tx THEN Coord(c) ELSE c

Active == {"prepare", "commit", "abort", "clear"}
NoReplay == [on |-> FALSE, todo |-> <<>>, done |-> {}, failed |-> FALSE]
Replay(ds) == [on |-> TRUE, todo |-> ds, done |-> {}, failed |-> FALSE]

Init ==
    /\ prepared = [s \in Server |-> [i \in {} |-> None]]
    /\ decisions = [s \in Server |-> <<>>]
    /\ applied = [s \in Server |-> {}]
    /\ status = [s \in Server |-> "serving"]
    /\ nextId = [s \in Server |-> 0]
    /\ co = [t \in Tx |-> [at |-> "staged", held |-> <<>>]]
    /\ rec = [s \in Server |-> NoReplay]
    /\ taken = [s \in Server |-> {}]
    /\ calls = {}
    /\ wait = [c \in Caller |-> None] /\ inbox = [c \in Caller |-> None]
    /\ snap = [c \in Caller |-> None]
    /\ streams = [t \in Tx |-> {}]
    /\ faults = 0
    /\ outcome = [t \in Tx |-> "open"]

\* Workers of s that are occupied.
Busy(s) ==
    Cardinality({t \in Tx : Coord(t) = s /\ co[t].at \in Active})
    + Cardinality({b \in taken[s] : Home(b.call.from) # s})

Fault == faults < MaxFaults /\ faults' = faults + 1

-----------------------------------------------------------------------------
\* Calls.  A caller has one at a time; one to its own server is a plain
\* function call and cannot be lost.

Ask(c, call) ==
    /\ wait[c] = None
    /\ calls' = calls \cup {call}
    /\ wait' = [wait EXCEPT ![c] = call]

\* The answer reaches the caller if it still waits for it.
Reply(call, res, id) ==
    inbox' = IF wait[call.from] = call /\ inbox[call.from] = None
             THEN [inbox EXCEPT ![call.from] = [res |-> res, id |-> id]] ELSE inbox

\* The caller takes the answer off.
Answered(c) ==
    /\ inbox[c] # None
    /\ inbox' = [inbox EXCEPT ![c] = None]
    /\ wait' = [wait EXCEPT ![c] = None]

\* A remote call needs a listening server with a free worker.
CanServe(call) ==
    /\ call \in calls
    /\ \/ Home(call.from) = call.to
       \/ status[call.to] = "serving" /\ Busy(call.to) < Workers

\* The call that c waits for is neither queued nor under way at the peer.
PeerGone(c) ==
    /\ wait[c] # None /\ wait[c] \notin calls
    /\ \A b \in taken[wait[c].to] : b.call # wait[c]

\* A caller that does not notice the end of its connection.
LoseCallMutant(c) ==
    /\ wait[c] # None /\ inbox[c] = None /\ wait[c] \in calls /\ wait[c].to # Home(c)
    /\ Fault
    /\ calls' \in {calls, calls \ {wait[c]}}
    /\ inbox' = [inbox EXCEPT ![c] = [res |-> "err", id |-> 0]]
    /\ UNCHANGED <<disk, status, nextId, co, rec, taken, wait, snap, streams, outcome>>

\* The connection breaks, or the peer died with the call: the caller gets an
\* error, and a call that reached the peer's queue still runs.
LoseCall(c) ==
    /\ wait[c] # None /\ inbox[c] = None /\ wait[c].to # Home(c)
    /\ IF PeerGone(c) THEN UNCHANGED <<faults, calls>>
       ELSE Fault /\ calls' \in {calls, calls \ {wait[c]}}
    /\ inbox' = [inbox EXCEPT ![c] = [res |-> "err", id |-> 0]]
    /\ UNCHANGED <<disk, status, nextId, co, rec, taken, wait, snap, streams, outcome>>

-----------------------------------------------------------------------------
\* The participant.

\* prepare: the next id, saved with the batch before the answer.
Prepare(call) ==
    /\ CanServe(call) /\ call.kind = "prepare"
    /\ LET p == call.to  id == nextId[p] + 1 IN
       /\ nextId' = [nextId EXCEPT ![p] = id]
       /\ prepared' = [prepared EXCEPT ![p] =
              [i \in DOMAIN @ \cup {id} |-> IF i = id THEN call.batch ELSE @[i]]]
       /\ Reply(call, "ok", id)
    /\ calls' = calls \ {call}
    /\ UNCHANGED <<decisions, applied, status, co, rec, taken, wait, snap, streams,
                   faults, outcome>>

\* The shard is no longer local, or the store cannot be saved.
RefusePrepare(call) ==
    /\ CanServe(call) /\ call.kind = "prepare"
    /\ Fault
    /\ Reply(call, "err", 0)
    /\ calls' = calls \ {call}
    /\ UNCHANGED <<disk, status, nextId, co, rec, taken, wait, snap, streams, outcome>>

\* PreparedTransactionStore::take.
Without(f, id) == [i \in DOMAIN f \ {id} |-> f[i]]

\* TX_COMMIT_PREPARED, first half: the batch leaves the store for good.
TakeToCommit(call) ==
    /\ CanServe(call) /\ call.kind = "commit"
    /\ IF call.id \in DOMAIN prepared[call.to]
       THEN /\ taken' = [taken EXCEPT ![call.to] =
                  @ \cup {[call |-> call, batch |-> prepared[call.to][call.id]]}]
            /\ prepared' = [prepared EXCEPT ![call.to] = Without(@, call.id)]
            /\ UNCHANGED inbox
       ELSE UNCHANGED <<taken, prepared>> /\ Reply(call, "unknown", 0)
    /\ calls' = calls \ {call}
    /\ UNCHANGED <<decisions, applied, status, nextId, co, rec, wait, snap, streams,
                   faults, outcome>>

\* Second half: execute_staged_cypher_transaction_on_shard commits the batch
\* as one group of log entries, or fails and the batch is gone.
Execute(s, b) ==
    /\ b \in taken[s]
    /\ taken' = [taken EXCEPT ![s] = @ \ {b}]
    /\ \E ok \in {TRUE} \cup {~TakeFaults} :
        /\ applied' = IF ok THEN [applied EXCEPT ![s] = @ \cup {b.batch}] ELSE applied
        /\ Reply(b.call, IF ok THEN "ok" ELSE "err", 0)
    /\ UNCHANGED <<prepared, decisions, status, nextId, co, rec, calls, wait, snap,
                   streams, faults, outcome>>

\* TX_ABORT_PREPARED.
TakeToAbort(call) ==
    /\ CanServe(call) /\ call.kind = "abort"
    /\ prepared' = [prepared EXCEPT ![call.to] = Without(@, call.id)]
    /\ Reply(call, IF call.id \in DOMAIN prepared[call.to] THEN "ok" ELSE "unknown", 0)
    /\ calls' = calls \ {call}
    /\ UNCHANGED <<decisions, applied, status, nextId, co, rec, taken, wait, snap,
                   streams, faults, outcome>>

-----------------------------------------------------------------------------
\* The coordinator (TransactionCommand::Commit).

Running(t) == status[Coord(t)] = "serving"
Held(t) == co[t].held
Goto(t, at) == co' = [co EXCEPT ![t].at = at]
Record(s, t, d) ==
    decisions' = [decisions EXCEPT ![s] = Append(@, [tx |-> t, decision |-> d, parts |-> Held(t)])]

\* COMMIT_TX takes a worker and closes the transaction; ROLLBACK_TX, KILL_TX,
\* the end of the session and a COMMIT_TX under an old ownership epoch just
\* drop the staged writes.
CommitTx(t) ==
    /\ Running(t) /\ co[t].at = "staged" /\ Busy(Coord(t)) < Workers
    /\ Goto(t, "prepare")
    /\ UNCHANGED <<disk, status, nextId, rec, taken, calls, wait, inbox, snap, streams,
                   faults, outcome>>

RollbackTx(t) ==
    /\ Running(t) /\ co[t].at = "staged"
    /\ Goto(t, "err")
    /\ UNCHANGED <<disk, status, nextId, rec, taken, calls, wait, inbox, snap, streams,
                   faults, outcome>>

Preparing(t) ==
    /\ Running(t) /\ co[t].at = "prepare" /\ wait[t] = None
    /\ Len(Held(t)) < Len(Targets(t))

Following(t) == Targets(t)[Len(Held(t)) + 1]
Reachable(c, p) == p = Home(c) \/ status[p] = "serving"

AskPrepare(t) ==
    /\ Preparing(t) /\ Reachable(t, Following(t))
    /\ Ask(t, [kind |-> "prepare", to |-> Following(t), id |-> 0, batch |-> t, from |-> t])
    /\ streams' = [streams EXCEPT ![t] = @ \cup {Following(t)}]
    /\ UNCHANGED <<disk, status, nextId, co, rec, taken, inbox, snap, faults, outcome>>

\* A connection that cannot be made ends the commit at once: no abort is
\* recorded and what is prepared so far stays prepared.
PrepareUnreached(t) ==
    /\ Preparing(t) /\ Following(t) # Coord(t)
    /\ IF status[Following(t)] = "serving"
       THEN Fault ELSE UNCHANGED faults
    /\ Goto(t, "err")
    /\ UNCHANGED <<disk, status, nextId, rec, taken, calls, wait, inbox, snap, streams,
                   outcome>>

PrepareAnswer(t) ==
    /\ Running(t) /\ co[t].at = "prepare" /\ Answered(t)
    /\ IF inbox[t].res = "ok"
       THEN /\ co' = [co EXCEPT ![t].held =
                        Append(@, [at |-> wait[t].to, id |-> inbox[t].id])]
            /\ UNCHANGED <<decisions, outcome>>
       ELSE IF Held(t) = <<>> THEN Goto(t, "err") /\ UNCHANGED <<decisions, outcome>>
       ELSE /\ Record(Coord(t), t, "abort")
            /\ outcome' = [outcome EXCEPT ![t] = "abort"]
            /\ Goto(t, "abort")
    /\ UNCHANGED <<prepared, applied, status, nextId, rec, taken, calls, snap, streams,
                   faults>>

\* A coordinator that decides as soon as someone is prepared.
DecideMutant(t) ==
    /\ Running(t) /\ co[t].at = "prepare" /\ wait[t] = None
    /\ Held(t) # <<>>
    /\ Record(Coord(t), t, "commit")
    /\ outcome' = [outcome EXCEPT ![t] = "commit"]
    /\ Goto(t, "commit")
    /\ UNCHANGED <<prepared, applied, status, nextId, rec, taken, calls, wait, inbox,
                   snap, streams, faults>>

\* record_commit_decision.
Decide(t) ==
    /\ Running(t) /\ co[t].at = "prepare" /\ wait[t] = None
    /\ Len(Held(t)) = Len(Targets(t))
    /\ Record(Coord(t), t, "commit")
    /\ outcome' = [outcome EXCEPT ![t] = "commit"]
    /\ Goto(t, "commit")
    /\ UNCHANGED <<prepared, applied, status, nextId, rec, taken, calls, wait, inbox,
                   snap, streams, faults>>

Finishing(t) ==
    Running(t) /\ co[t].at \in {"commit", "abort"} /\ wait[t] = None /\ Held(t) # <<>>

\* The command goes over the stream of the prepare.
AskFinish(t) ==
    /\ Finishing(t) /\ Head(Held(t)).at \in streams[t]
    /\ Ask(t, [kind |-> co[t].at, to |-> Head(Held(t)).at, id |-> Head(Held(t)).id,
               batch |-> None, from |-> t])
    /\ UNCHANGED <<disk, status, nextId, co, rec, taken, inbox, snap, streams, faults,
                   outcome>>

\* An error ends the commit loop and leaves the decision; the abort loop goes
\* on.
NextHeld(t, ok) ==
    co' = [co EXCEPT ![t] = IF ok \/ @.at = "abort" THEN [at |-> @.at, held |-> Tail(@.held)]
                            ELSE [at |-> "err", held |-> @.held]]

StreamBroken(t) ==
    /\ Finishing(t) /\ Head(Held(t)).at \notin streams[t]
    /\ NextHeld(t, FALSE)
    /\ UNCHANGED <<disk, status, nextId, rec, taken, calls, wait, inbox, snap, streams,
                   faults, outcome>>

\* A coordinator that does not look at what the participant answered.
FinishAnswerMutant(t) ==
    /\ Running(t) /\ co[t].at \in {"commit", "abort"} /\ Answered(t)
    /\ NextHeld(t, TRUE)
    /\ UNCHANGED <<disk, status, nextId, rec, taken, calls, snap, streams, faults,
                   outcome>>

FinishAnswer(t) ==
    /\ Running(t) /\ co[t].at \in {"commit", "abort"} /\ Answered(t)
    /\ NextHeld(t, inbox[t].res = "ok")
    /\ UNCHANGED <<disk, status, nextId, rec, taken, calls, snap, streams, faults,
                   outcome>>

AbortDone(t) ==
    /\ Running(t) /\ co[t].at = "abort" /\ Held(t) = <<>>
    /\ Goto(t, "err")
    /\ UNCHANGED <<disk, status, nextId, rec, taken, calls, wait, inbox, snap, streams,
                   faults, outcome>>

\* The records of a log that are not of these transactions, in their order.
KeptAt(ds, ids) == {i \in DOMAIN ds : ds[i].tx \notin ids}
Kept(ds, ids) ==
    [k \in 1..Cardinality(KeptAt(ds, ids)) |->
        ds[CHOOSE i \in KeptAt(ds, ids) : Cardinality({j \in KeptAt(ds, ids) : j <= i}) = k]]

\* remove_tx_ids: load, then rewrite if a record goes.  Nothing is locked.
Removal(s, ids) ==
    [keep |-> Kept(decisions[s], ids), write |-> KeptAt(decisions[s], ids) # DOMAIN decisions[s]]
Rewrite(s, c) ==
    /\ decisions' = IF snap[c].write
                    THEN [decisions EXCEPT ![s] = snap[c].keep] ELSE decisions
    /\ snap' = [snap EXCEPT ![c] = None]

\* clear_transaction_decision, then the answer to the client.
ClearLoad(t) ==
    /\ Running(t) /\ co[t].at = "commit" /\ Held(t) = <<>>
    /\ snap' = [snap EXCEPT ![t] = Removal(Coord(t), {t})]
    /\ Goto(t, "clear")
    /\ UNCHANGED <<disk, status, nextId, rec, taken, calls, wait, inbox, streams,
                   faults, outcome>>

ClearSave(t) ==
    /\ Running(t) /\ co[t].at = "clear"
    /\ Rewrite(Coord(t), t)
    /\ Goto(t, "ok")
    /\ UNCHANGED <<prepared, applied, status, nextId, rec, taken, calls, wait, inbox,
                   streams, faults, outcome>>

-----------------------------------------------------------------------------
\* recover_transaction_decisions.

\* The periodic thread.
StartReplay(s) ==
    /\ status[s] = "serving" /\ ~rec[s].on /\ decisions[s] # <<>>
    /\ rec' = [rec EXCEPT ![s] = Replay(decisions[s])]
    /\ UNCHANGED <<disk, status, nextId, co, taken, calls, wait, inbox, snap, streams,
                   faults, outcome>>

\* with_persistent_config: ids continue after the highest one still stored,
\* and the decisions are replayed before the server listens.
Open(s) ==
    /\ status[s] = "down"
    /\ status' = [status EXCEPT ![s] = "starting"]
    /\ nextId' = [nextId EXCEPT ![s] =
                    IF DOMAIN prepared[s] = {} THEN 0
                    ELSE CHOOSE i \in DOMAIN prepared[s] :
                           \A j \in DOMAIN prepared[s] : j <= i]
    /\ rec' = [rec EXCEPT ![s] = Replay(decisions[s])]
    /\ UNCHANGED <<disk, co, taken, calls, wait, inbox, snap, streams, faults, outcome>>

\* A decision without the part that is done.
NextPart(d) == [tx |-> d.tx, decision |-> d.decision, parts |-> Tail(d.parts)]

Replaying(s) == rec[s].on /\ ~rec[s].failed /\ rec[s].todo # <<>>
Current(s) == Head(rec[s].todo)
Asking(s) == Replaying(s) /\ wait[s] = None /\ Current(s).parts # <<>>

AskReplay(s) ==
    /\ Asking(s)
    /\ LET part == Head(Current(s).parts) IN
       /\ Reachable(s, part.at)
       /\ Ask(s, [kind |-> Current(s).decision, to |-> part.at, id |-> part.id,
                  batch |-> None, from |-> s])
    /\ UNCHANGED <<disk, status, nextId, co, rec, taken, inbox, snap, streams, faults,
                   outcome>>

ReplayUnreached(s) ==
    /\ Asking(s)
    /\ LET p == Head(Current(s).parts).at IN
       /\ p # s
       /\ IF status[p] = "serving"
          THEN Fault ELSE UNCHANGED faults
    /\ rec' = [rec EXCEPT ![s].failed = TRUE]
    /\ UNCHANGED <<disk, status, nextId, co, taken, calls, wait, inbox, snap, streams,
                   outcome>>

\* A replay that counts every answer as done.
ReplayAnswerMutant(s) ==
    /\ Replaying(s) /\ Answered(s)
    /\ rec' = [rec EXCEPT ![s].todo = <<NextPart(Current(s))>> \o Tail(@)]
    /\ UNCHANGED <<disk, status, nextId, co, taken, calls, snap, streams, faults,
                   outcome>>

\* A batch the participant does not know counts as finished before.
ReplayAnswer(s) ==
    /\ Replaying(s) /\ Answered(s)
    /\ rec' = IF inbox[s].res \in {"ok", "unknown"}
              THEN [rec EXCEPT ![s].todo = <<NextPart(Current(s))>> \o Tail(@)]
              ELSE [rec EXCEPT ![s].failed = TRUE]
    /\ UNCHANGED <<disk, status, nextId, co, taken, calls, snap, streams, faults,
                   outcome>>

ReplayedDecision(s) ==
    /\ Replaying(s) /\ Current(s).parts = <<>>
    /\ rec' = [rec EXCEPT ![s].done = @ \cup {Current(s).tx}, ![s].todo = Tail(@)]
    /\ UNCHANGED <<disk, status, nextId, co, taken, calls, wait, inbox, snap, streams,
                   faults, outcome>>

ReplayLoad(s) ==
    /\ rec[s].on /\ (rec[s].failed \/ rec[s].todo = <<>>) /\ snap[s] = None
    /\ snap' = [snap EXCEPT ![s] = Removal(s, rec[s].done)]
    /\ UNCHANGED <<disk, status, nextId, co, rec, taken, calls, wait, inbox, streams,
                   faults, outcome>>

\* A start-up whose replay failed ends the process.
ReplaySave(s) ==
    /\ snap[s] # None
    /\ Rewrite(s, s)
    /\ rec' = [rec EXCEPT ![s] = NoReplay]
    /\ status' = [status EXCEPT ![s] =
                    IF @ = "starting" /\ rec[s].failed THEN "down" ELSE "serving"]
    /\ UNCHANGED <<prepared, applied, nextId, co, taken, calls, wait, inbox, streams,
                   faults, outcome>>

-----------------------------------------------------------------------------
\* A process dies with its threads and with the calls it has not executed.
Crash(s) ==
    /\ s \in Crasher /\ status[s] # "down" /\ Fault
    /\ taken[s] # {} => TakeFaults
    /\ status' = [status EXCEPT ![s] = "down"]
    /\ co' = [t \in Tx |-> IF Coord(t) = s /\ co[t].at \notin {"ok", "err"}
                           THEN [at |-> "gone", held |-> <<>>] ELSE co[t]]
    /\ rec' = [rec EXCEPT ![s] = NoReplay]
    /\ taken' = [taken EXCEPT ![s] = {}]
    /\ calls' = {c \in calls : c.to # s}
    /\ wait' = [c \in Caller |-> IF Home(c) = s THEN None ELSE wait[c]]
    /\ inbox' = [c \in Caller |-> IF Home(c) = s THEN None ELSE inbox[c]]
    /\ snap' = [c \in Caller |-> IF Home(c) = s THEN None ELSE snap[c]]
    /\ streams' = [t \in Tx |-> IF Coord(t) = s THEN {} ELSE streams[t] \ {s}]
    /\ UNCHANGED <<disk, nextId, outcome>>

CoordStep(t) ==
    \/ AskPrepare(t) \/ PrepareUnreached(t) \/ PrepareAnswer(t) \/ Decide(t) \/ AskFinish(t)
    \/ StreamBroken(t) \/ FinishAnswer(t) \/ AbortDone(t) \/ ClearLoad(t) \/ ClearSave(t)

ReplayStep(s) ==
    \/ StartReplay(s) \/ Open(s) \/ AskReplay(s) \/ ReplayUnreached(s) \/ ReplayAnswer(s)
    \/ ReplayedDecision(s) \/ ReplayLoad(s) \/ ReplaySave(s)

Serve(call) == Prepare(call) \/ RefusePrepare(call) \/ TakeToCommit(call) \/ TakeToAbort(call)
Serving(s) ==
    \/ \E call \in calls : call.to = s /\ Serve(call)
    \/ \E b \in taken[s] : Execute(s, b)

Next ==
    \/ \E t \in Tx : CommitTx(t) \/ RollbackTx(t) \/ CoordStep(t)
    \/ \E s \in Server : ReplayStep(s) \/ Crash(s)
    \/ \E call \in calls : Serve(call)
    \/ \E s \in Server : \E b \in taken[s] : Execute(s, b)
    \/ \E c \in Caller : LoseCall(c)

\* Threads run, a dead process is started again, recovery is run
\* periodically, the worker pool takes its jobs in order, and a caller reads
\* the end of the stream of a dead peer.
Fairness ==
    /\ \A t \in Tx : WF_vars(CoordStep(t))
    /\ \A s \in Server : WF_vars(ReplayStep(s)) /\ SF_vars(Serving(s))
    /\ \A c \in Caller : WF_vars(PeerGone(c) /\ LoseCall(c))

Spec == Init /\ [][Next]_vars /\ Fairness

-----------------------------------------------------------------------------
Participants(t) == {Targets(t)[i] : i \in DOMAIN Targets(t)}
AppliedEverywhere(t) == \A p \in Participants(t) : t \in applied[p]
OnRecord(t) ==
    \E i \in DOMAIN decisions[Coord(t)] :
        decisions[Coord(t)][i].tx = t /\ decisions[Coord(t)][i].decision = "commit"

\* The stores, threads and calls keep their shape; every prepared id is one
\* the store has handed out.
TypeOK ==
    /\ DOMAIN prepared = Server
    /\ \A s \in Server : \A i \in DOMAIN prepared[s] :
          prepared[s][i] \in Tx /\ i \in 1..nextId[s]
    /\ decisions \in [Server -> Seq(Decision)]
    /\ applied \in [Server -> SUBSET Tx]
    /\ status \in [Server -> {"down", "starting", "serving"}]
    /\ nextId \in [Server -> Nat]
    /\ co \in [Tx -> [at : Active \cup {"staged", "ok", "err", "gone"}, held : Seq(Part)]]
    /\ rec \in [Server -> [on : BOOLEAN, todo : Seq(Decision), done : SUBSET Tx, failed : BOOLEAN]]
    /\ taken \in [Server -> SUBSET [call : Call, batch : Tx]]
    /\ calls \subseteq Call
    /\ wait \in [Caller -> Call \cup {None}]
    /\ inbox \in [Caller -> AnswerRec \cup {None}]
    /\ snap \in [Caller -> Loaded \cup {None}]
    /\ streams \in [Tx -> SUBSET Server]
    /\ faults \in Nat
    /\ outcome \in [Tx -> {"open", "commit", "abort"}]

\* Batches that s has applied or is applying.
Reached(s) == applied[s] \cup {b.batch : b \in taken[s]}

\* A commit decision disappears from decisions.log only when every
\* participant has applied its batch or is applying it: neither the
\* coordinator nor replay drops the last trace of a half-done transaction.
ClearedMeansReached ==
    \A t \in Tx : outcome[t] = "commit" /\ ~OnRecord(t) =>
        \A p \in Participants(t) : t \in Reached(p)

\* A client that was told OK finds its writes at every participant, also if
\* replay overtook its own commit.
OkMeansApplied == \A t \in Tx : co[t].at = "ok" => AppliedEverywhere(t)

\* A commit that was promised is carried out: to the client by OK, to the
\* coordinator's successor by the record it must not drop too early.
CommitsHold == ClearedMeansReached /\ OkMeansApplied

\* The commit protocol implements the abstract one: one decision, batches
\* committed only under a commit decision, OK and removal only at the end.
\* A batch that a participant has taken to commit counts as committed.
Atomic == INSTANCE AtomicCommit WITH
              applied <- [s \in Server |-> Reached(s)],
              kept <- {t \in Tx : OnRecord(t)},
              answered <- {t \in Tx : co[t].at = "ok"}

ImplementsAtomicCommit == Atomic!ASpec

\* What was decided reaches every participant, through lost answers and
\* deaths of the coordinator.
CommitReachesAll == \A t \in Tx : outcome[t] = "commit" ~> AppliedEverywhere(t)

\* A worker that started a commit answers its client or dies: coordinators
\* never wait for each other for ever.
CommitEnds == \A t \in Tx : co[t].at \in Active ~> co[t].at \notin Active
=============================================================================
