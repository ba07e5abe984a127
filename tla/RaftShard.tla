----------------------------- MODULE RaftShard -----------------------------
(***************************************************************************)
(* One shard replicated over the native transport.  Every server keeps a   *)
(* RaftCore (raft.rs: term, vote, role, an in-memory log and a commit      *)
(* index) next to the shard's write-ahead log and its persisted commit     *)
(* index (Neo4rDatabase).  The two copies of the log are written by        *)
(* different code with different fences, so the module keeps both.         *)
(*                                                                         *)
(* Requests are remote calls made under no common lock: a call may be      *)
(* executed late (the callee waits for its database mutex after the caller *)
(* timed out), twice (the channel retries) or not at all.  A server that   *)
(* is publishing a write holds its own database mutex and executes nothing *)
(* else.  Snapshots, membership changes and multi-entry writes are not     *)
(* part of this module.                                                    *)
(***************************************************************************)
EXTENDS Integers, Sequences, FiniteSets

CONSTANTS Server,         \* the replicas of the shard's placement, all voters
          Primary,        \* the placement's primary in the routing table
          Value,          \* commands; each is written at most once
          None,           \* "no vote", "no write in progress"
          RequiredAcks,   \* ReplicationAckPolicy::required_acks
          Campaigner,     \* servers whose election timeout may elapse
          OperatorCatchUp,\* whether operators run the catch-up command
          MaxTerm,        \* bound on elections
          MaxRestarts     \* bound on process restarts

ASSUME ServerAssumption == IsFiniteSet(Server) /\ Primary \in Server
ASSUME NoneAssumption == None \notin Server
ASSUME AcksAssumption == RequiredAcks \in 1..Cardinality(Server)
ASSUME CampaignerAssumption == Campaigner \subseteq Server
ASSUME CatchUpAssumption == OperatorCatchUp \in BOOLEAN
ASSUME BoundAssumption == MaxTerm \in Nat /\ MaxRestarts \in Nat

VARIABLES
    srv,        \* srv[s]: RaftCore, WAL and commit index of server s
    pending,    \* pending[s]: the write s is publishing, or None
    mayElect,   \* mayElect[s]: s passed a pre-vote and may start an election
    requests,   \* RequestVote calls made; each may run at any later time
    responses,  \* RequestVote results on their way to the candidate
    published,  \* AppendEntries calls made by publish; each may run late
    announced,  \* announced[p]: highest commit index publish sent to p
    restarts,   \* restarts so far
    granted,    \* history: every vote granted, as [term, voter, cand]
    elected,    \* history: every election won by votes, as [term, server]
    acked       \* history: every write acknowledged to its client

vars == <<srv, pending, mayElect, requests, responses, published, announced,
          restarts, granted, elected, acked>>

Entry == [term : Nat, val : Value]

\* RaftCore fields, then the database's copy: the WAL, next_log_indexes and
\* the commit index (memory and commit.bin are written together).
ServerState ==
    [term : Nat, vote : Server \cup {None}, role : {"Follower", "Candidate", "Leader"},
     votes : SUBSET Server, log : Seq(Entry), rcommit : Nat, match : [Server -> Nat],
     wal : Seq(Entry), next : Nat, dcommit : Nat]

MinOf(a, b) == IF a <= b THEN a ELSE b
MaxOf(a, b) == IF a >= b THEN a ELSE b
Least(S) == CHOOSE i \in S : \A j \in S : i <= j
Take(seq, n) == SubSeq(seq, 1, n)

-----------------------------------------------------------------------------
\* RaftMembership::has_quorum without joint consensus: a strict majority.
HasQuorum(S) == 2 * Cardinality(S \cap Server) > Cardinality(Server)

\* The last position counted from zero.
LastIndexMutant(r) == Len(r.log) - 1

LastIndex(r) == Len(r.log)
LastTerm(r) == IF r.log = <<>> THEN 0 ELSE r.log[Len(r.log)].term

\* is_log_up_to_date: may a candidate with this last entry have r's vote?
UpToDate(r, index, term) ==
    \/ term > LastTerm(r)
    \/ term = LastTerm(r) /\ index >= LastIndex(r)

\* step_down that clears the vote without a new term.
StepDownMutant(r, t) ==
    [r EXCEPT !.role = "Follower", !.votes = {}, !.term = MaxOf(r.term, t), !.vote = None]

StepDown(r, t) ==
    [r EXCEPT !.role = "Follower", !.votes = {},
              !.term = MaxOf(r.term, t),
              !.vote = IF t > r.term THEN None ELSE r.vote]

\* truncate_from: the commit index follows the log down.
TruncateFrom(r, index) ==
    [r EXCEPT !.log = Take(r.log, index - 1),
              !.rcommit = MinOf(r.rcommit, index - 1)]

\* advance_leader_commit_index: the highest index a quorum of voters matches,
\* counted only when the entry there is of the leader's own term.
QuorumIndexes(r) ==
    {r.match[v] : v \in {w \in Server :
                          HasQuorum({u \in Server : r.match[u] >= r.match[w]})}}

AdvanceCommit(r) ==
    LET qs == {i \in QuorumIndexes(r) : \A j \in QuorumIndexes(r) : j <= i}
    IN  IF /\ r.role = "Leader"
           /\ \E q \in qs : /\ q > r.rcommit
                            /\ q \in DOMAIN r.log
                            /\ r.log[q].term = r.term
        THEN [r EXCEPT !.rcommit = CHOOSE q \in qs : TRUE]
        ELSE r

BecomeLeader(r, s) ==
    [r EXCEPT !.role = "Leader", !.votes = {},
              !.match = [v \in Server |-> IF v = s THEN LastIndex(r) ELSE 0]]

Campaign(r, s) ==
    [r EXCEPT !.role = "Candidate", !.term = r.term + 1, !.vote = s, !.votes = {s}]

\* pre_vote: a read-only poll, asked with the term the candidate would take.
PreVote(r, cand, c) ==
    c.term + 1 >= r.term /\ UpToDate(r, LastIndex(c), LastTerm(c)) /\ cand \in Server

\* A voter that forgets whom it voted for.
VoteGrantedMutant(r, m) ==
    m.term >= r.term /\ UpToDate(r, m.lastIndex, m.lastTerm)

\* request_vote: the callee's state after the call, and whether it granted.
VoteGranted(r, m) ==
    /\ m.term >= r.term
    /\ m.term > r.term \/ r.vote \in {None, m.cand}
    /\ UpToDate(r, m.lastIndex, m.lastTerm)

RequestVote(r, m) ==
    LET stepped == IF m.term > r.term THEN StepDown(r, m.term) ELSE r
    IN  IF VoteGranted(r, m) THEN [stepped EXCEPT !.vote = m.cand] ELSE stepped

\* record_vote_response at the candidate s.
RecordVote(r, s, m) ==
    LET counted == [r EXCEPT !.votes = IF m.granted THEN @ \cup {m.voter} ELSE @]
    IN  IF m.term > r.term THEN StepDown(r, m.term)
        ELSE IF r.role # "Candidate" \/ m.term # r.term THEN r
        ELSE IF HasQuorum(counted.votes) THEN BecomeLeader(counted, s)
        ELSE counted

WinsElection(r, s, m) ==
    /\ r.role = "Candidate" /\ m.term = r.term
    /\ RecordVote(r, s, m).role = "Leader"

-----------------------------------------------------------------------------
\* RaftCore::append_entries.  An existing entry is kept when its TERM agrees;
\* the first one that disagrees is fenced by the commit index or truncated.
Conflicts(log, prev, es) ==
    {i \in DOMAIN es : prev + i \in DOMAIN log /\ log[prev + i].term # es[i].term}

RaftMerge(r, prev, es) ==
    LET bad == Conflicts(r.log, prev, es)
        cut == prev + Least(bad)
    IN  IF bad = {}
        THEN [r EXCEPT !.log = @ \o SubSeq(es, Len(@) - prev + 1, Len(es))]
        ELSE [TruncateFrom(r, cut) EXCEPT
                 !.log = @ \o SubSeq(es, Least(bad), Len(es))]

\* The fence as an off-by-one would write it.
RaftFencedMutant(r, prev, es) ==
    LET bad == Conflicts(r.log, prev, es)
    IN  bad # {} /\ prev + Least(bad) < r.rcommit

RaftFenced(r, prev, es) ==
    LET bad == Conflicts(r.log, prev, es)
    IN  bad # {} /\ prev + Least(bad) <= r.rcommit

\* leader_commit taken as it comes, even when it is behind.
ObserveCommitMutant(r, commit) == [r EXCEPT !.rcommit = MinOf(commit, Len(r.log))]

ObserveCommit(r, commit) ==
    IF commit > r.rcommit
    THEN [r EXCEPT !.rcommit = MinOf(commit, Len(r.log))]
    ELSE r

RaftAppend(r, t, prev, prevTerm, es, commit) ==
    LET here == IF t > r.term \/ r.role # "Follower" THEN StepDown(r, t) ELSE r
    IN  IF t < r.term THEN [ok |-> FALSE, r |-> r]
        ELSE IF prev > 0 /\ prev \notin DOMAIN r.log THEN [ok |-> FALSE, r |-> here]
        ELSE IF prev > 0 /\ r.log[prev].term # prevTerm
             THEN [ok |-> FALSE,
                   r |-> IF prev <= r.rcommit THEN here ELSE TruncateFrom(here, prev)]
        ELSE IF RaftFenced(here, prev, es) THEN [ok |-> FALSE, r |-> here]
        ELSE [ok |-> TRUE, r |-> ObserveCommit(RaftMerge(here, prev, es), commit)]

\* truncate_replicated_log_for_append: the WAL compares whole entries and is
\* fenced by the database's commit index.
WalConflicts(wal, n, es) ==
    {i \in DOMAIN es : n + i - 1 \in DOMAIN wal /\ wal[n + i - 1] # es[i]}

\* The WAL's fence as an off-by-one would write it.
WalFencedMutant(r, n, es) ==
    LET bad == WalConflicts(r.wal, n, es)
    IN  bad # {} /\ n + Least(bad) - 1 < r.dcommit

WalFenced(r, n, es) ==
    LET bad == WalConflicts(r.wal, n, es)
    IN  bad # {} /\ n + Least(bad) - 1 <= r.dcommit

WalTruncate(r, n, es) ==
    LET bad == WalConflicts(r.wal, n, es)
        cut == n + Least(bad) - 1
    IN  IF bad = {} THEN r
        ELSE [r EXCEPT !.wal = Take(@, cut - 1), !.next = cut]

\* append_replicated_entries: duplicates below next_log_index are skipped, the
\* rest must continue at it.
WalAppend(r, n, es) ==
    [r EXCEPT !.wal = @ \o SubSeq(es, r.next - n + 1, Len(es)),
              !.next = MaxOf(@, n + Len(es))]

\* The sender's commit index taken without looking for the entries.
CommitThroughMutant(r, commit) ==
    IF commit > r.dcommit
    THEN [r EXCEPT !.dcommit = commit, !.next = MaxOf(@, commit + 1)]
    ELSE r

\* commit_and_apply_shards_through: commit what the local WAL holds, up to
\* `commit`; applying an entry also moves next_log_index past it.
CommitThrough(r, commit) ==
    LET last == MinOf(commit, Len(r.wal))
    IN  IF last > r.dcommit
        THEN [r EXCEPT !.dcommit = last, !.next = MaxOf(@, last + 1)]
        ELSE r

\* apply_raft_append_entries_with_response.  The wire request carries neither
\* the sender's term nor the previous entry: the receiver takes the term of
\* the last entry (its own term for a heartbeat) and looks up the previous
\* entry's term in its own WAL.
AppendBatch(r, n, es, commit) ==
    LET prev == IF es = <<>> THEN LastIndex(r) ELSE n - 1
        prevTerm == IF prev \in DOMAIN r.wal THEN r.wal[prev].term ELSE 0
        t == IF es = <<>> THEN r.term ELSE es[Len(es)].term
        core == RaftAppend(r, t, prev, prevTerm, es, commit)
        cutWal == WalTruncate(core.r, n, es)
    IN  IF ~core.ok \/ WalFenced(core.r, n, es) THEN [ok |-> FALSE, r |-> core.r]
        ELSE IF es # <<>> /\ n > cutWal.next THEN [ok |-> FALSE, r |-> cutWal]
        ELSE [ok |-> TRUE,
              r |-> CommitThrough(IF es = <<>> THEN cutWal ELSE WalAppend(cutWal, n, es),
                                  commit)]

\* apply_replicated_entries, the catch-up path: the WAL only, no RaftCore, and
\* everything received is committed.
CatchUpBatch(r, n, es) ==
    IF WalConflicts(r.wal, n, es) # {} \/ n > r.next THEN r
    ELSE CommitThrough(WalAppend(r, n, es), n + Len(es) - 1)

\* replica_targets: placement replicas with role Replica, the origin excluded.
Targets(s) == Server \ {Primary, s}

\* applied_index: next_log_index - 1, compared with the commit index.
AppliedThroughCommit(r) == r.next - 1 >= r.dcommit

-----------------------------------------------------------------------------
\* Neo4rDatabase::open on an empty data directory: the routing-table primary
\* campaigns from term 0 and makes itself leader.
Opened(r, s) ==
    IF s = Primary
    THEN BecomeLeader(IF r.term = 0 THEN Campaign(r, s) ELSE r, s)
    ELSE r

Fresh ==
    [term |-> 0, vote |-> None, role |-> "Follower", votes |-> {}, log |-> <<>>,
     rcommit |-> 0, match |-> [v \in Server |-> 0],
     wal |-> <<>>, next |-> 1, dcommit |-> 0]

\* The self-vote of Opened, for the history of granted votes.
SelfVote(r, s) ==
    IF s = Primary /\ r.term = 0 THEN {[term |-> 1, voter |-> s, cand |-> s]} ELSE {}

Init ==
    /\ srv = [s \in Server |-> Opened(Fresh, s)]
    /\ pending = [s \in Server |-> None]
    /\ mayElect = [s \in Server |-> FALSE]
    /\ requests = {} /\ responses = {} /\ published = {}
    /\ announced = [s \in Server |-> 0]
    /\ restarts = 0
    /\ granted = UNION {SelfVote(Fresh, s) : s \in Server}
    /\ elected = {} /\ acked = {}

Idle(s) == pending[s] = None

Set(s, r) == srv' = [srv EXCEPT ![s] = r]

-----------------------------------------------------------------------------
\* Elections (run_raft_election_round_with_timeout).

\* pre_vote_granted: s polls its peers; those it reaches answer from their
\* current state, and more than half of the peers (rounded up) must agree.
\* The election timeout may always have elapsed.
PreVoteRound(s) ==
    /\ s \in Campaigner /\ Idle(s) /\ srv[s].role # "Leader" /\ ~mayElect[s]
    /\ \E reached \in SUBSET (Server \ {s}) :
          /\ \A p \in reached : Idle(p) /\ PreVote(srv[p], s, srv[s])
          /\ Cardinality(reached \cup {s}) > Cardinality(Server) \div 2
    /\ mayElect' = [mayElect EXCEPT ![s] = TRUE]
    /\ UNCHANGED <<srv, pending, requests, responses, published, announced,
                   restarts, granted, elected, acked>>

\* start_raft_election: only the role and the readiness gate are read again.
StartElection(s) ==
    /\ Idle(s) /\ mayElect[s]
    /\ mayElect' = [mayElect EXCEPT ![s] = FALSE]
    /\ IF srv[s].role = "Leader" \/ ~AppliedThroughCommit(srv[s])
       THEN UNCHANGED <<srv, requests, responses, granted>>
       ELSE LET r == Campaign(srv[s], s) IN
            /\ r.term <= MaxTerm
            /\ Set(s, r)
            /\ requests' = requests \cup
                  {[term |-> r.term, cand |-> s,
                    lastIndex |-> LastIndex(r), lastTerm |-> LastTerm(r)]}
            /\ responses' = {m \in responses : m.cand # s}
            /\ granted' = granted \cup {[term |-> r.term, voter |-> s, cand |-> s]}
    /\ UNCHANGED <<pending, published, announced, restarts, elected, acked>>

\* request_raft_vote at p, whenever p gets to it.  Only results that can make
\* a difference to the candidate are kept.
HandleRequestVote(p, m) ==
    /\ Idle(p) /\ m \in requests /\ m.cand # p
    /\ LET after == RequestVote(srv[p], m)
           yes == VoteGranted(srv[p], m)
       IN  /\ Set(p, after)
           /\ responses' = IF yes \/ after.term > m.term
                           THEN responses \cup {[cand |-> m.cand, voter |-> p,
                                                 term |-> after.term, granted |-> yes]}
                           ELSE responses
           /\ granted' = IF yes
                         THEN granted \cup {[term |-> m.term, voter |-> p, cand |-> m.cand]}
                         ELSE granted
    /\ UNCHANGED <<pending, mayElect, requests, published, announced, restarts,
                   elected, acked>>

\* record_raft_vote_response at the candidate.
HandleVoteResponse(s, m) ==
    /\ Idle(s) /\ m \in responses /\ m.cand = s
    /\ Set(s, RecordVote(srv[s], s, m))
    /\ responses' = responses \ {m}
    /\ elected' = IF WinsElection(srv[s], s, m)
                  THEN elected \cup {[term |-> m.term, server |-> s]}
                  ELSE elected
    /\ UNCHANGED <<pending, mayElect, requests, published, announced, restarts,
                   granted, acked>>

-----------------------------------------------------------------------------
\* Writes (write_command), under the leader's database mutex throughout.

\* Values that some server has or may still receive.
Written ==
    {m.entry.val : m \in published}
    \cup UNION {{srv[s].wal[i].val : i \in DOMAIN srv[s].wal} : s \in Server}

\* append_local_command: the WAL record first, then RaftCore, which refuses
\* an index that does not continue its own log and so leaves the record
\* behind.  (A second record at the same index is out of the model's bounds.)
ClientWrite(s, v) ==
    LET r == srv[s]
        e == [term |-> r.term, val |-> v]
        logged == [r EXCEPT !.wal = Append(@, e)]
        both == [logged EXCEPT !.log = Append(@, e), !.match[s] = r.next,
                               !.next = r.next + 1]
    IN  /\ Idle(s) /\ r.role = "Leader" /\ AppliedThroughCommit(r)
        /\ v \in Value \ Written
        /\ Len(r.wal) = r.next - 1
        /\ IF r.next # LastIndex(r) + 1
           THEN /\ Set(s, logged)
                /\ UNCHANGED <<pending, published>>
           ELSE /\ Set(s, AdvanceCommit(both))
                /\ pending' = [pending EXCEPT ![s] =
                                 [index |-> r.next, acks |-> {s}, sent |-> FALSE]]
                /\ published' = published \cup
                                 {[index |-> r.next, entry |-> e, origin |-> s]}
        /\ UNCHANGED <<mayElect, requests, responses, announced, restarts,
                       granted, elected, acked>>

\* Any answer counted as an acknowledgement.
AcksMutant(acks, p, ok) == acks \cup {p}

\* publish_batch counts a peer whose append succeeded and was durable.
Acks(acks, p, ok) == IF ok THEN acks \cup {p} ELSE acks

\* TcpShardReplicator::publish_batch: the entry goes to one target, with
\* leader_commit 0, and the target acknowledges it.
PublishTo(s, p) ==
    /\ ~Idle(s) /\ ~pending[s].sent /\ p \in Targets(s) \ pending[s].acks /\ Idle(p)
    /\ LET n == pending[s].index
           res == AppendBatch(srv[p], n, <<srv[s].wal[n]>>, 0)
       IN  /\ Set(p, res.r)
           /\ pending' = [pending EXCEPT ![s].acks = Acks(@, p, res.ok)]
    /\ UNCHANGED <<mayElect, requests, responses, published, announced, restarts,
                   granted, elected, acked>>

\* The same call executed after the publisher gave up on it, or again.
LateAppend(p, m) ==
    /\ Idle(p) /\ m \in published /\ p \in Targets(m.origin)
    /\ Set(p, AppendBatch(srv[p], m.index, <<m.entry>>, 0).r)
    /\ UNCHANGED <<pending, mayElect, requests, responses, published, announced,
                   restarts, granted, elected, acked>>

\* publish fails the ack policy: the entry stays in the WAL and in RaftCore.
PublishFail(s) ==
    /\ ~Idle(s) /\ ~pending[s].sent
    /\ Cardinality(pending[s].acks) < RequiredAcks
    /\ pending' = [pending EXCEPT ![s] = None]
    /\ UNCHANGED <<srv, mayElect, requests, responses, published, announced,
                   restarts, granted, elected, acked>>

\* publish_raft_commit_heartbeats: the peers that acknowledged are told the
\* new commit index, before the leader has committed it itself.
AnnounceCommit(s) ==
    /\ ~Idle(s) /\ ~pending[s].sent
    /\ Cardinality(pending[s].acks) >= RequiredAcks
    /\ pending' = [pending EXCEPT ![s].sent = TRUE]
    /\ announced' = [p \in Server |->
                       IF p \in pending[s].acks \ {s}
                       THEN MaxOf(announced[p], pending[s].index) ELSE announced[p]]
    /\ UNCHANGED <<srv, mayElect, requests, responses, published, restarts,
                   granted, elected, acked>>

\* observe_raft_replication_outcome, commit_entry, apply_entry and the reply:
\* an error if RaftCore did not commit the entry or the database's commit
\* index is not just below it.
LeaderCommit(s) ==
    /\ ~Idle(s) /\ pending[s].sent
    /\ LET n == pending[s].index
           r == AdvanceCommit([srv[s] EXCEPT !.match =
                   [v \in Server |-> IF v \in pending[s].acks THEN n ELSE @[v]]])
       IN  IF r.rcommit >= n /\ n = r.dcommit + 1
           THEN /\ Set(s, [r EXCEPT !.dcommit = n])
                /\ acked' = acked \cup {[server |-> s, index |-> n, entry |-> r.wal[n]]}
           ELSE Set(s, r) /\ UNCHANGED acked
    /\ pending' = [pending EXCEPT ![s] = None]
    /\ UNCHANGED <<mayElect, requests, responses, published, announced, restarts,
                   granted, elected>>

-----------------------------------------------------------------------------
\* Background traffic.

\* send_raft_heartbeats: every server, whatever its role, sends its commit
\* index to every peer; publish's commit heartbeats are the same call.
Heartbeat(p) ==
    /\ Idle(p)
    /\ \E c \in {announced[p]} \cup {srv[q].dcommit : q \in Server \ {p}} :
          Set(p, AppendBatch(srv[p], 0, <<>>, c).r)
    /\ UNCHANGED <<pending, mayElect, requests, responses, published, announced,
                   restarts, granted, elected, acked>>

\* run_raft_replication_pump: s sends its own committed WAL entries, from the
\* peer's next index on, to any peer.
Pump(s, p) ==
    /\ s # p /\ Idle(p)
    /\ \E n \in 1..srv[s].dcommit :
          Set(p, AppendBatch(srv[p], n, SubSeq(srv[s].wal, n, srv[s].dcommit),
                             srv[s].dcommit).r)
    /\ UNCHANGED <<pending, mayElect, requests, responses, published, announced,
                   restarts, granted, elected, acked>>

\* catch_up_from_tcp_primaries at p: the routing-table primary answers with
\* its WAL from p's commit index on, uncommitted entries included.
CatchUp(p) ==
    /\ OperatorCatchUp /\ p # Primary /\ Idle(p) /\ Idle(Primary)
    /\ \A s \in {p, Primary} : Len(srv[s].wal) = srv[s].next - 1
    /\ LET n == srv[p].dcommit + 1
           es == SubSeq(srv[Primary].wal, n, Len(srv[Primary].wal))
       IN  es # <<>> /\ Set(p, CatchUpBatch(srv[p], n, es))
    /\ UNCHANGED <<pending, mayElect, requests, responses, published, announced,
                   restarts, granted, elected, acked>>

\* The process stops and Neo4rDatabase::open runs again: RaftCore's log is the
\* WAL, its commit index the persisted one, and the routing-table primary is
\* made leader without an election.
Reopened(r, s) ==
    Opened([r EXCEPT !.role = "Follower", !.votes = {}, !.log = r.wal,
                     !.rcommit = MinOf(r.dcommit, Len(r.wal)),
                     !.match = [v \in Server |-> 0], !.next = Len(r.wal) + 1], s)

Restart(s) ==
    /\ restarts < MaxRestarts
    /\ restarts' = restarts + 1
    /\ Set(s, Reopened(srv[s], s))
    /\ granted' = granted \cup SelfVote(srv[s], s)
    /\ pending' = [pending EXCEPT ![s] = None]
    /\ mayElect' = [mayElect EXCEPT ![s] = FALSE]
    /\ responses' = {m \in responses : m.cand # s}
    /\ UNCHANGED <<requests, published, announced, elected, acked>>

Next ==
    \/ \E s \in Server : PreVoteRound(s)
    \/ \E s \in Server : StartElection(s)
    \/ \E p \in Server, m \in requests : HandleRequestVote(p, m)
    \/ \E s \in Server, m \in responses : HandleVoteResponse(s, m)
    \/ \E s \in Server, v \in Value : ClientWrite(s, v)
    \/ \E s, p \in Server : PublishTo(s, p)
    \/ \E p \in Server, m \in published : LateAppend(p, m)
    \/ \E s \in Server : PublishFail(s)
    \/ \E s \in Server : AnnounceCommit(s)
    \/ \E s \in Server : LeaderCommit(s)
    \/ \E p \in Server : Heartbeat(p)
    \/ \E s, p \in Server : Pump(s, p)
    \/ \E p \in Server : CatchUp(p)
    \/ \E s \in Server : Restart(s)

Spec == Init /\ [][Next]_vars

-----------------------------------------------------------------------------
\* Every variable keeps its shape: RaftCore and WAL fields of each server, the
\* write being published, the calls in flight and the histories.
TypeOK ==
    /\ srv \in [Server -> ServerState]
    /\ pending \in [Server -> {None} \cup
                      [index : Nat, acks : SUBSET Server, sent : BOOLEAN]]
    /\ mayElect \in [Server -> BOOLEAN]
    /\ requests \subseteq [term : Nat, cand : Server, lastIndex : Nat, lastTerm : Nat]
    /\ responses \subseteq [cand : Server, voter : Server, term : Nat, granted : BOOLEAN]
    /\ published \subseteq [index : Nat \ {0}, entry : Entry, origin : Server]
    /\ announced \in [Server -> Nat]
    /\ restarts \in Nat
    /\ granted \subseteq [term : Nat, voter : Server, cand : Server]
    /\ elected \subseteq [term : Nat, server : Server]
    /\ acked \subseteq [server : Server, index : Nat, entry : Entry]

\* Election safety of the voting protocol: request_vote and
\* record_vote_response never let two servers win the same term, whatever
\* calls are delayed or repeated and whoever restarts in between.
OneElectedPerTerm ==
    \A a, b \in elected : a.term = b.term => a.server = b.server

\* A WAL holds everything its commit index covers, so replay_logs can apply
\* it and the readiness gate of ensure_local_primary can open.
CommitWithinWal ==
    \A s \in Server : /\ srv[s].dcommit <= Len(srv[s].wal)
                      /\ srv[s].next \in {Len(srv[s].wal), Len(srv[s].wal) + 1}
                      /\ AppliedThroughCommit(srv[s])

\* The entries a server has committed, in order.
Committed(s) == Take(srv[s].wal, srv[s].dcommit)

\* A server that acknowledged a write to its client keeps it, at its index,
\* in its committed log: through step-downs, overwrites of its suffix by a
\* new leader, heartbeats, pumps, catch-ups and restarts.
AckedStaysCommitted ==
    \A a \in acked : /\ a.index <= srv[a.server].dcommit
                     /\ srv[a.server].wal[a.index] = a.entry

\* RaftCore and the WAL agree on what the WAL has committed as far as RaftCore
\* still holds it: the term-only comparison of append_entries and the
\* full-entry comparison of the WAL do not part below the commit index.
CommittedTermsAgree ==
    \A s \in Server : \A i \in 1..MinOf(srv[s].dcommit, Len(srv[s].log)) :
        srv[s].log[i].term = srv[s].wal[i].term

\* Committed logs agree: what two servers both committed is the same.
StateMachineSafety ==
    \A p, q \in Server : \A i \in 1..MinOf(srv[p].dcommit, srv[q].dcommit) :
        srv[p].wal[i] = srv[q].wal[i]

\* Nothing is committed anywhere before a majority of the WALs hold it.
CommitNeedsQuorum ==
    \A s \in Server : \A i \in 1..srv[s].dcommit :
        HasQuorum({q \in Server : i \in DOMAIN srv[q].wal
                                  /\ srv[q].wal[i] = srv[s].wal[i]})

\* As long as nobody but the routing-table primary has stood for election,
\* nothing is committed anywhere before a majority of the WALs hold it, through
\* catch-ups, restarts and new terms of the primary; since two majorities meet,
\* committed logs then agree.
PrimaryAlone == \A g \in granted : g.cand = Primary

SteadyCommitsNeedQuorum == PrimaryAlone => CommitNeedsQuorum

\* read_index: a leader whose match indexes show a majority at its commit
\* index.  They are the ones stored when the followers last answered: no
\* round is made for the read.  (An unexpired lease serves without even this.)
ReadIndexConfirmed(r) ==
    /\ r.role = "Leader"
    /\ HasQuorum({p \in Server : r.rcommit > 0 /\ r.match[p] >= r.rcommit})

\* A strong read is served: the read index is confirmed and reached, and what
\* is committed is applied.
StrongReadServed(r) ==
    ReadIndexConfirmed(r) /\ r.dcommit >= r.rcommit /\ r.next - 1 = r.dcommit

\* A strong read sees every write that any server has acknowledged ("A strong
\* read must observe at least the confirmed committed index").
StrongReadsFresh ==
    \A s \in Server, a \in acked :
        StrongReadServed(srv[s]) => a.index <= srv[s].dcommit

-----------------------------------------------------------------------------
\* No step takes anything back from a committed log: the commit index never
\* falls and the committed entries are a prefix of what comes later ("Committed
\* data must never roll back"), across restarts too.
CommitStep ==
    \A s \in Server : /\ srv'[s].dcommit >= srv[s].dcommit
                      /\ Take(srv'[s].wal, srv[s].dcommit) = Committed(s)

CommittedPrefixStable == [][CommitStep]_vars

\* A server's persisted term never falls, and within a term its vote, once
\* cast, is never taken back or moved to another candidate.
VoteStep ==
    \A s \in Server :
        /\ srv'[s].term >= srv[s].term
        /\ srv'[s].term = srv[s].term /\ srv[s].vote # None
              => srv'[s].vote = srv[s].vote

VoteStable == [][VoteStep]_vars

\* RaftCore's own fence: in the life of one process its commit index never
\* falls and the terms of the entries it covers never change.
RaftCommitStep ==
    \A s \in Server : restarts' = restarts =>
        /\ srv'[s].rcommit >= srv[s].rcommit
        /\ \A i \in 1..srv[s].rcommit : i \in DOMAIN srv'[s].log
                /\ srv'[s].log[i] = srv[s].log[i]

RaftCommitStable == [][RaftCommitStep]_vars
=============================================================================
