-------------------------- MODULE RaftShardProofs ---------------------------
(***************************************************************************)
(* Theorems about RaftShard for every set of servers, every ack policy and *)
(* every bound: type correctness, the WAL and its commit index, the        *)
(* stability of committed logs, of votes and of acknowledged writes,       *)
(* election safety, and the stability of RaftCore's own log.               *)
(*                                                                         *)
(* First come lemmas on what the calls do to the state of the one server   *)
(* that runs them: the state stays well formed, the committed part of the  *)
(* WAL only grows, and terms and votes are respected.                      *)
(***************************************************************************)
EXTENDS RaftShard, FiniteSetTheorems, SequenceTheorems, WellFoundedInduction, TLAPS

-----------------------------------------------------------------------------
\* What holds of one server's state between two calls: its type, a commit
\* index within the WAL, and next_log_index at the WAL's end or at the one
\* record that RaftCore refused.
Good(r) ==
    /\ r \in ServerState
    /\ r.dcommit <= Len(r.wal)
    /\ r.next >= Len(r.wal) /\ r.next <= Len(r.wal) + 1
    /\ r.next >= r.dcommit + 1

\* What every call does to one server's state: it stays good, the committed
\* part of the WAL only grows, the term only grows and a vote is kept.
Evolves(r, q) ==
    /\ Good(q)
    /\ q.dcommit >= r.dcommit
    /\ \A i \in 1..r.dcommit : q.wal[i] = r.wal[i]
    /\ q.term >= r.term
    /\ q.term = r.term /\ r.vote # None => q.vote = r.vote

\* A call that is not part of an election: within a term it keeps the vote, it
\* keeps the role or steps down, and whoever is a candidate after it was one
\* before, with the same ballots.
NotVoting(r, q) ==
    /\ q.term = r.term => q.vote = r.vote
    /\ q.role \in {r.role, "Follower"}
    /\ q.role = "Candidate" => q.role = r.role /\ q.term = r.term /\ q.votes = r.votes

\* A call that leaves the database's copy of the log alone.
SameWal(r, q) == q.wal = r.wal /\ q.dcommit = r.dcommit /\ q.next = r.next

\* A call that leaves RaftCore's term, vote, role and ballots alone.
SameBallot(r, q) ==
    q.term = r.term /\ q.vote = r.vote /\ q.role = r.role /\ q.votes = r.votes

\* New values for RaftCore's log and commit index, for the WAL with its next and
\* commit indexes, and for the match indexes.
WithLog(r, log, c) == [r EXCEPT !.log = log, !.rcommit = c]
WithWal(r, wal, next, d) == [r EXCEPT !.wal = wal, !.next = next, !.dcommit = d]
WithMatch(r, match) == [r EXCEPT !.match = match]

-----------------------------------------------------------------------------
\* The smallest element that the fences and truncations look for exists in
\* every nonempty set of naturals.
LEMMA LeastProperty ==
    ASSUME NEW S, S \subseteq Nat, S # {}
    PROVE  Least(S) \in S /\ \A j \in S : Least(S) <= j
<1> DEFINE R == {ss \in Nat \X Nat : ss[1] < ss[2]}
<1>1. R = OpToRel(<, Nat)
    BY DEF OpToRel
<1>2. IsWellFoundedOn(R, Nat)
    BY <1>1, NatLessThanWellFounded
<1> HIDE DEF R
<1>3. PICK x \in S : \A y \in S : ~(<<y, x>> \in R)
    BY <1>2, WFMin
<1>4. ASSUME NEW y \in S PROVE x <= y
    <2>1. <<y, x>> \in Nat \X Nat
        OBVIOUS
    <2>2. ~(<<y, x>>[1] < <<y, x>>[2])
        BY <1>3, <2>1 DEF R
    <2> QED
        BY <2>2
<1> QED
    BY <1>4 DEF Least

\* A state evolves into itself, and evolution composes.
LEMMA EvolvesRefl ==
    ASSUME NEW r, Good(r)
    PROVE  Evolves(r, r) /\ NotVoting(r, r)
BY DEF Evolves, Good, ServerState, NotVoting

\* Evolution composes, so a handler may be taken call by call.
LEMMA EvolvesTrans ==
    ASSUME NEW r, NEW q, NEW u, Good(r), Evolves(r, q), Evolves(q, u)
    PROVE  Evolves(r, u)
<1>1. /\ r.dcommit \in Nat /\ q.dcommit \in Nat /\ u.dcommit \in Nat
      /\ r.term \in Nat /\ q.term \in Nat /\ u.term \in Nat
    BY DEF Evolves, Good, ServerState
<1>2. q.dcommit >= r.dcommit /\ u.dcommit >= q.dcommit
    BY DEF Evolves
<1>3. \A i \in 1..r.dcommit : u.wal[i] = r.wal[i]
    BY <1>1, <1>2 DEF Evolves
<1>4. u.term >= r.term /\ (u.term = r.term /\ r.vote # None => u.vote = r.vote)
    BY <1>1 DEF Evolves
<1> QED
    BY <1>1, <1>2, <1>3, <1>4 DEF Evolves

\* A call that keeps the WAL and respects the vote evolves the server's state.
LEMMA SameWalEvolves ==
    ASSUME NEW r, NEW q, Good(r), q \in ServerState, SameWal(r, q), q.term >= r.term,
           q.term = r.term /\ r.vote # None => q.vote = r.vote
    PROVE  Evolves(r, q)
<1>1. Good(q)
    BY DEF Good, SameWal
<1> QED
    BY <1>1 DEF Evolves, SameWal, Good, ServerState

\* A call that keeps the ballot is not part of an election.
LEMMA SameBallotNotVoting ==
    ASSUME NEW r, NEW q, SameBallot(r, q)
    PROVE  NotVoting(r, q)
BY DEF SameBallot, NotVoting

\* Two calls outside an election, one after the other, are one such call.
LEMMA NotVotingTrans ==
    ASSUME NEW r, NEW q, NEW u, Evolves(r, q), Evolves(q, u), Good(r),
           NotVoting(r, q), NotVoting(q, u)
    PROVE  NotVoting(r, u)
<1>1. r.term \in Nat /\ q.term \in Nat /\ u.term \in Nat
    BY DEF Evolves, Good, ServerState
<1>2. q.term >= r.term /\ u.term >= q.term
    BY DEF Evolves
<1> QED
    BY <1>1, <1>2 DEF NotVoting

\* The tail of a sequence, when it may start beyond the end.
LEMMA TailType ==
    ASSUME NEW S, NEW es \in Seq(S), NEW m \in Nat, m >= 1
    PROVE  /\ SubSeq(es, m, Len(es)) \in Seq(S)
           /\ Len(SubSeq(es, m, Len(es))) = IF m <= Len(es) THEN Len(es) - m + 1 ELSE 0
<1>1. CASE m <= Len(es) + 1
    <2>1. m \in 1..Len(es)+1 /\ Len(es) \in m-1..Len(es)
        BY <1>1
    <2> QED
        BY <1>1, <2>1, SubSeqProperties
<1>2. CASE m > Len(es) + 1
    BY <1>2
<1> QED
    BY <1>1, <1>2

\* Appending a sequence keeps what was there.
LEMMA ConcatKeeps ==
    ASSUME NEW S, NEW a \in Seq(S), NEW b \in Seq(S)
    PROVE  /\ a \o b \in Seq(S)
           /\ Len(a \o b) = Len(a) + Len(b)
           /\ \A i \in 1..Len(a) : (a \o b)[i] = a[i]
OBVIOUS

-----------------------------------------------------------------------------
\* step_down keeps the WAL and, within a term, the vote.
LEMMA StepDownEvolves ==
    ASSUME NEW r, Good(r), NEW t \in Nat
    PROVE  /\ Evolves(r, StepDown(r, t))
           /\ NotVoting(r, StepDown(r, t))
           /\ SameWal(r, StepDown(r, t))
           /\ StepDown(r, t).term = MaxOf(r.term, t)
           /\ StepDown(r, t).role = "Follower"
           /\ StepDown(r, t).log = r.log
<1> DEFINE q == StepDown(r, t)
<1>1. q \in ServerState
    BY DEF StepDown, Good, ServerState, MaxOf
<1>2. /\ SameWal(r, q)
      /\ q.role = "Follower" /\ q.term = MaxOf(r.term, t) /\ q.log = r.log
      /\ q.vote = IF t > r.term THEN None ELSE r.vote
    BY DEF StepDown, Good, ServerState, SameWal
<1> HIDE DEF q
<1>3. r.term \in Nat
    BY DEF Good, ServerState
<1>4. q.term >= r.term /\ (q.term = r.term => q.vote = r.vote)
    BY <1>2, <1>3 DEF MaxOf
<1>5. Evolves(r, q)
    BY <1>1, <1>2, <1>4, SameWalEvolves
<1>6. NotVoting(r, q)
    BY <1>2, <1>4 DEF NotVoting
<1> QED
    BY <1>2, <1>5, <1>6 DEF q

\* truncate_from works on RaftCore's log alone.
LEMMA TruncateFromEvolves ==
    ASSUME NEW r, Good(r), NEW index \in 1..Len(r.log)
    PROVE  /\ Evolves(r, TruncateFrom(r, index))
           /\ SameBallot(r, TruncateFrom(r, index))
           /\ SameWal(r, TruncateFrom(r, index))
<1> DEFINE q == TruncateFrom(r, index)
<1>1. r.log \in Seq(Entry) /\ r.rcommit \in Nat
    BY DEF Good, ServerState
<1>2. SubSeq(r.log, 1, index - 1) \in Seq(Entry)
    BY <1>1, SubSeqProperties
<1>3. MinOf(r.rcommit, index - 1) \in Nat
    BY <1>1 DEF MinOf
<1>4. q \in ServerState
    BY <1>2, <1>3 DEF TruncateFrom, Take, Good, ServerState
<1>5. SameWal(r, q) /\ SameBallot(r, q)
    BY DEF TruncateFrom, Good, ServerState, SameWal, SameBallot
<1> HIDE DEF q
<1>6. q.term >= r.term
    BY <1>5 DEF SameBallot, Good, ServerState
<1>7. Evolves(r, q)
    BY <1>4, <1>5, <1>6, SameWalEvolves DEF SameBallot
<1> QED
    BY <1>5, <1>7 DEF q

\* A new RaftCore log, a new commit index or new match indexes leave the rest.
LEMMA LogEvolves ==
    ASSUME NEW r, Good(r), NEW log \in Seq(Entry), NEW c \in Nat
    PROVE  /\ Evolves(r, WithLog(r, log, c))
           /\ SameBallot(r, WithLog(r, log, c))
           /\ SameWal(r, WithLog(r, log, c))
<1> DEFINE q == WithLog(r, log, c)
<1>1. q \in ServerState
    BY DEF WithLog, Good, ServerState
<1>2. SameWal(r, q) /\ SameBallot(r, q)
    BY DEF WithLog, Good, ServerState, SameWal, SameBallot
<1> HIDE DEF q
<1>3. q.term >= r.term
    BY <1>2 DEF SameBallot, Good, ServerState
<1>4. Evolves(r, q)
    BY <1>1, <1>2, <1>3, SameWalEvolves DEF SameBallot
<1> QED
    BY <1>2, <1>4 DEF q

\* record_replication_match writes match indexes only.
LEMMA MatchEvolves ==
    ASSUME NEW r, Good(r), NEW match \in [Server -> Nat]
    PROVE  /\ Evolves(r, WithMatch(r, match))
           /\ SameBallot(r, WithMatch(r, match))
           /\ SameWal(r, WithMatch(r, match))
<1> DEFINE q == WithMatch(r, match)
<1>1. q \in ServerState
    BY DEF WithMatch, Good, ServerState
<1>2. SameWal(r, q) /\ SameBallot(r, q)
    BY DEF WithMatch, Good, ServerState, SameWal, SameBallot
<1> HIDE DEF q
<1>3. q.term >= r.term
    BY <1>2 DEF SameBallot, Good, ServerState
<1>4. Evolves(r, q)
    BY <1>1, <1>2, <1>3, SameWalEvolves DEF SameBallot
<1> QED
    BY <1>2, <1>4 DEF q

-----------------------------------------------------------------------------
\* The positions at which append_entries finds a conflict are positions of the
\* request and of the log.
LEMMA ConflictPosition ==
    ASSUME NEW log \in Seq(Entry), NEW prev \in Nat, NEW es \in Seq(Entry),
           Conflicts(log, prev, es) # {}
    PROVE  /\ Least(Conflicts(log, prev, es)) \in 1..Len(es)
           /\ prev + Least(Conflicts(log, prev, es)) \in 1..Len(log)
<1> DEFINE bad == Conflicts(log, prev, es)
<1>1. bad \subseteq Nat /\ \A i \in bad : i \in 1..Len(es) /\ prev + i \in 1..Len(log)
    BY DEF Conflicts
<1> HIDE DEF bad
<1>2. bad # {}
    BY DEF bad
<1>3. Least(bad) \in bad
    BY <1>1, <1>2, LeastProperty
<1> QED
    BY <1>1, <1>3 DEF bad

\* The entry loop of append_entries changes RaftCore's log only.
LEMMA RaftMergeEvolves ==
    ASSUME NEW r, Good(r), NEW prev \in Nat, prev <= Len(r.log), NEW es \in Seq(Entry)
    PROVE  /\ Evolves(r, RaftMerge(r, prev, es))
           /\ SameBallot(r, RaftMerge(r, prev, es))
           /\ SameWal(r, RaftMerge(r, prev, es))
<1> DEFINE bad == Conflicts(r.log, prev, es)
           cut == prev + Least(bad)
           mid == TruncateFrom(r, cut)
<1>1. r \in ServerState /\ r.log \in Seq(Entry) /\ r.rcommit \in Nat
    BY DEF Good, ServerState
<1>2. CASE bad = {}
    <2> DEFINE log == r.log \o SubSeq(es, Len(r.log) - prev + 1, Len(es))
    <2>1. SubSeq(es, Len(r.log) - prev + 1, Len(es)) \in Seq(Entry)
        BY <1>1, TailType
    <2>2. log \in Seq(Entry)
        BY <1>1, <2>1, ConcatProperties
    <2>3. RaftMerge(r, prev, es) = WithLog(r, log, r.rcommit)
        BY <1>1, <1>2 DEF WithLog, RaftMerge, ServerState
    <2> HIDE DEF log
    <2> QED
        BY <1>1, <2>2, <2>3, LogEvolves
<1>3. CASE bad # {}
    <2>1. Least(bad) \in 1..Len(es) /\ cut \in 1..Len(r.log)
        BY <1>1, <1>3, ConflictPosition
    <2> DEFINE tail == SubSeq(es, Least(bad), Len(es))
               log == SubSeq(r.log, 1, cut - 1) \o tail
               c == MinOf(r.rcommit, cut - 1)
    <2>2. tail \in Seq(Entry)
        BY <2>1, TailType
    <2> HIDE DEF bad
    <2>3. SubSeq(r.log, 1, cut - 1) \in Seq(Entry)
        BY <1>1, <2>1, SubSeqProperties
    <2>4. log \in Seq(Entry)
        BY <2>2, <2>3, ConcatProperties
    <2>5. c \in Nat
        BY <1>1, <2>1 DEF MinOf
    <2>6. RaftMerge(r, prev, es) = [mid EXCEPT !.log = mid.log \o tail]
        BY <1>3 DEF RaftMerge, bad
    <2>7. mid = [r EXCEPT !.log = SubSeq(r.log, 1, cut - 1), !.rcommit = c]
        BY DEF TruncateFrom, Take
    <2>8. RaftMerge(r, prev, es) = WithLog(r, log, c)
        BY <1>1, <2>6, <2>7 DEF WithLog, ServerState
    <2> HIDE DEF log, c
    <2> QED
        BY <2>4, <2>5, <2>8, LogEvolves
<1> QED
    BY <1>2, <1>3

\* Observing leader_commit moves RaftCore's commit index only.
LEMMA ObserveCommitEvolves ==
    ASSUME NEW r, Good(r), NEW commit \in Nat
    PROVE  /\ Evolves(r, ObserveCommit(r, commit))
           /\ SameBallot(r, ObserveCommit(r, commit))
           /\ SameWal(r, ObserveCommit(r, commit))
<1>1. r \in ServerState /\ r.log \in Seq(Entry)
    BY DEF Good, ServerState
<1> DEFINE c == MinOf(commit, Len(r.log))
<1>2. c \in Nat
    BY <1>1 DEF MinOf
<1>3. CASE commit > r.rcommit
    <2>1. ObserveCommit(r, commit) = WithLog(r, r.log, c)
        BY <1>1, <1>3 DEF WithLog, ObserveCommit, ServerState
    <2> HIDE DEF c
    <2> QED
        BY <1>1, <1>2, <2>1, LogEvolves
<1>4. CASE ~(commit > r.rcommit)
    BY <1>4, EvolvesRefl DEF ObserveCommit, SameBallot, SameWal
<1> QED
    BY <1>3, <1>4

\* append_entries leaves the WAL to the database and casts no vote.
LEMMA RaftAppendEvolves ==
    ASSUME NEW r, Good(r), NEW t \in Nat, NEW prev \in Nat, NEW prevTerm \in Nat,
           NEW es \in Seq(Entry), NEW commit \in Nat
    PROVE  LET q == RaftAppend(r, t, prev, prevTerm, es, commit).r
           IN  Evolves(r, q) /\ NotVoting(r, q) /\ SameWal(r, q)
<1> DEFINE here == IF t > r.term \/ r.role # "Follower" THEN StepDown(r, t) ELSE r
           cutHere == TruncateFrom(here, prev)
           merged == RaftMerge(here, prev, es)
           done == ObserveCommit(merged, commit)
           q == RaftAppend(r, t, prev, prevTerm, es, commit).r
           Fine(x) == Evolves(r, x) /\ NotVoting(r, x) /\ SameWal(r, x)
<1>1. r \in ServerState /\ r.log \in Seq(Entry)
    BY DEF Good, ServerState
<1>2. Fine(r)
    BY EvolvesRefl DEF SameWal
<1>3. Fine(here) /\ here.log = r.log
    <2>1. CASE t > r.term \/ r.role # "Follower"
        BY <2>1, StepDownEvolves
    <2>2. CASE ~(t > r.term \/ r.role # "Follower")
        BY <2>2, <1>2
    <2> QED
        BY <2>1, <2>2
<1> HIDE DEF here
<1>4. ASSUME NEW x, Evolves(here, x), SameBallot(here, x), SameWal(here, x)
      PROVE  Fine(x)
    BY <1>3, <1>4, EvolvesTrans, NotVotingTrans, SameBallotNotVoting DEF SameWal
<1>5. Good(here)
    BY <1>3 DEF Evolves
<1>6. CASE t < r.term
    BY <1>2, <1>6 DEF RaftAppend
<1>7. CASE ~(t < r.term) /\ prev > 0 /\ prev \notin DOMAIN r.log
    <2>1. q = here
        BY <1>7 DEF RaftAppend, here
    <2> QED
        BY <1>3, <2>1
<1>8. CASE ~(t < r.term) /\ ~(prev > 0 /\ prev \notin DOMAIN r.log)
           /\ prev > 0 /\ r.log[prev].term # prevTerm
    <2>1. q \in {here, cutHere}
        BY <1>8 DEF RaftAppend, here
    <2>2. prev \in 1..Len(here.log)
        BY <1>1, <1>3, <1>8
    <2>3. Fine(cutHere)
        BY <1>4, <1>5, <2>2, TruncateFromEvolves
    <2> QED
        BY <1>3, <2>1, <2>3
<1>9. CASE ~(t < r.term) /\ ~(prev > 0 /\ prev \notin DOMAIN r.log)
           /\ ~(prev > 0 /\ r.log[prev].term # prevTerm)
    <2>1. q \in {here, done}
        BY <1>9 DEF RaftAppend, here
    <2>2. prev <= Len(here.log)
        BY <1>1, <1>3, <1>9
    <2>3. /\ Evolves(here, merged) /\ SameBallot(here, merged) /\ SameWal(here, merged)
          /\ Good(merged)
        BY <1>5, <2>2, RaftMergeEvolves DEF Evolves
    <2> HIDE DEF merged
    <2>4. Evolves(merged, done) /\ SameBallot(merged, done) /\ SameWal(merged, done)
        BY <2>3, ObserveCommitEvolves
    <2> HIDE DEF done
    <2>5. Evolves(here, done) /\ SameBallot(here, done) /\ SameWal(here, done)
        BY <1>5, <2>3, <2>4, EvolvesTrans DEF SameBallot, SameWal
    <2> QED
        BY <1>3, <1>4, <2>1, <2>5
<1> QED
    BY <1>6, <1>7, <1>8, <1>9

-----------------------------------------------------------------------------
\* A new WAL that keeps the committed prefix evolves the server's state.
LEMMA WalEvolves ==
    ASSUME NEW r, Good(r), NEW wal \in Seq(Entry), NEW next \in Nat, NEW d \in Nat,
           d >= r.dcommit, d <= Len(wal), next >= Len(wal), next <= Len(wal) + 1,
           next >= d + 1, \A i \in 1..r.dcommit : wal[i] = r.wal[i]
    PROVE  /\ Evolves(r, WithWal(r, wal, next, d))
           /\ SameBallot(r, WithWal(r, wal, next, d))
<1> DEFINE q == WithWal(r, wal, next, d)
<1>1. q \in ServerState
    BY DEF WithWal, Good, ServerState
<1>2. SameBallot(r, q) /\ q.wal = wal /\ q.next = next /\ q.dcommit = d
    BY DEF WithWal, Good, ServerState, SameBallot
<1> HIDE DEF q
<1>3. Good(q)
    BY <1>1, <1>2 DEF Good
<1>4. r.term \in Nat
    BY DEF Good, ServerState
<1>5. Evolves(r, q)
    BY <1>2, <1>3, <1>4 DEF Evolves, SameBallot
<1> QED
    BY <1>2, <1>5 DEF q

\* A record appended to the WAL, with or without moving next_log_index.
LEMMA WalRecordEvolves ==
    ASSUME NEW r, Good(r), NEW e \in Entry, Len(r.wal) = r.next - 1,
           NEW x \in {r.next, r.next + 1}
    PROVE  /\ Evolves(r, WithWal(r, Append(r.wal, e), x, r.dcommit))
           /\ SameBallot(r, WithWal(r, Append(r.wal, e), x, r.dcommit))
<1>1. /\ r.wal \in Seq(Entry) /\ r.next \in Nat /\ r.dcommit \in Nat
      /\ Len(r.wal) \in Nat /\ r.dcommit <= Len(r.wal) /\ r.next >= r.dcommit + 1
    BY DEF Good, ServerState
<1> DEFINE wal == Append(r.wal, e)
<1>2. /\ wal \in Seq(Entry) /\ Len(wal) = Len(r.wal) + 1
      /\ \A i \in 1..Len(r.wal) : wal[i] = r.wal[i]
    BY <1>1, AppendProperties
<1> HIDE DEF wal
<1>3. \A i \in 1..r.dcommit : wal[i] = r.wal[i]
    BY <1>1, <1>2
<1>4. /\ x \in Nat /\ r.dcommit <= Len(wal) /\ x >= Len(wal) /\ x <= Len(wal) + 1
      /\ x >= r.dcommit + 1 /\ r.dcommit >= r.dcommit
    BY <1>1, <1>2
<1>5. Evolves(r, WithWal(r, wal, x, r.dcommit)) /\ SameBallot(r, WithWal(r, wal, x, r.dcommit))
    BY <1>1, <1>2, <1>3, <1>4, WalEvolves
<1> QED
    BY <1>5 DEF wal

\* truncate_replicated_log_for_append never cuts at or below the commit index.
LEMMA WalTruncateEvolves ==
    ASSUME NEW r, Good(r), NEW n \in Nat, NEW es \in Seq(Entry), es = <<>> \/ n >= 1,
           ~WalFenced(r, n, es)
    PROVE  /\ Evolves(r, WalTruncate(r, n, es))
           /\ SameBallot(r, WalTruncate(r, n, es))
<1> DEFINE bad == WalConflicts(r.wal, n, es)
           cut == n + Least(bad) - 1
<1>1. r \in ServerState /\ r.wal \in Seq(Entry) /\ r.dcommit \in Nat
    BY DEF Good, ServerState
<1>2. CASE bad = {}
    BY <1>2, EvolvesRefl DEF WalTruncate, SameBallot
<1>3. CASE bad # {}
    <2>1. bad \subseteq Nat /\ \A i \in bad : n + i - 1 \in 1..Len(r.wal)
        BY <1>1 DEF WalConflicts
    <2>2. cut > r.dcommit \/ cut \notin Nat
        BY <1>1, <1>3 DEF WalFenced
    <2>3. WalTruncate(r, n, es) =
             [r EXCEPT !.wal = SubSeq(r.wal, 1, cut - 1), !.next = cut]
        BY <1>3 DEF WalTruncate, Take
    <2> HIDE DEF bad
    <2>4. Least(bad) \in bad
        BY <1>3, <2>1, LeastProperty
    <2>5. cut \in 1..Len(r.wal)
        BY <2>1, <2>4
    <2> DEFINE wal == SubSeq(r.wal, 1, cut - 1)
    <2> HIDE DEF cut
    <2>6. \A i \in 1..(cut - 1) : r.wal[i] \in Entry
        BY <1>1, <2>5
    <2>7. /\ wal \in Seq(Entry) /\ Len(wal) = cut - 1
          /\ \A i \in 1..(cut - 1) : wal[i] = r.wal[i]
        BY <2>5, <2>6, SubSeqProperties
    <2>8. WalTruncate(r, n, es) = WithWal(r, wal, cut, r.dcommit)
        BY <1>1, <2>3 DEF WithWal, ServerState
    <2> HIDE DEF wal
    <2>9. cut > r.dcommit
        BY <2>2, <2>5
    <2>10. /\ cut \in Nat /\ r.dcommit <= Len(wal) /\ cut >= Len(wal)
           /\ cut <= Len(wal) + 1 /\ cut >= r.dcommit + 1
        BY <1>1, <2>5, <2>7, <2>9
    <2>11. \A i \in 1..r.dcommit : wal[i] = r.wal[i]
        BY <1>1, <2>5, <2>7, <2>9
    <2>12. r.dcommit \in Nat /\ r.dcommit >= r.dcommit
        BY <1>1
    <2>13. /\ Evolves(r, WithWal(r, wal, cut, r.dcommit))
           /\ SameBallot(r, WithWal(r, wal, cut, r.dcommit))
        BY <2>7, <2>10, <2>11, <2>12, WalEvolves
    <2> QED
        BY <2>8, <2>13
<1> QED
    BY <1>2, <1>3

\* append_replicated_entries only adds at the end of the WAL.
LEMMA WalAppendEvolves ==
    ASSUME NEW r, Good(r), NEW n \in Nat, NEW es \in Seq(Entry), n >= 1, n <= r.next
    PROVE  /\ Evolves(r, WalAppend(r, n, es))
           /\ SameBallot(r, WalAppend(r, n, es))
<1> DEFINE tail == SubSeq(es, r.next - n + 1, Len(es))
           wal == r.wal \o tail
           next == MaxOf(r.next, n + Len(es))
<1>1. /\ r \in ServerState /\ r.wal \in Seq(Entry) /\ r.dcommit \in Nat /\ r.next \in Nat
      /\ r.dcommit <= Len(r.wal) /\ r.next >= Len(r.wal) /\ r.next <= Len(r.wal) + 1
      /\ r.next >= r.dcommit + 1
    BY DEF Good, ServerState
<1>2. r.next - n + 1 \in Nat /\ r.next - n + 1 >= 1
    BY <1>1
<1>3. /\ tail \in Seq(Entry)
      /\ Len(tail) = IF r.next - n + 1 <= Len(es) THEN Len(es) - (r.next - n + 1) + 1 ELSE 0
    BY <1>2, TailType
<1> HIDE DEF tail
<1>4. /\ wal \in Seq(Entry) /\ Len(wal) = Len(r.wal) + Len(tail)
      /\ \A i \in 1..Len(r.wal) : wal[i] = r.wal[i]
    BY <1>1, <1>3, ConcatKeeps
<1> HIDE DEF wal
<1>9. Len(r.wal) \in Nat /\ Len(es) \in Nat /\ Len(tail) \in Nat
    BY <1>1, <1>3
<1>5. /\ next \in Nat /\ next >= Len(wal) /\ next <= Len(wal) + 1
      /\ next >= r.dcommit + 1
    <2> DEFINE w == Len(r.wal)  e == Len(es)  t == Len(tail)  x == r.next
    <2>1. /\ w \in Nat /\ e \in Nat /\ t \in Nat /\ x \in Nat /\ r.dcommit \in Nat
          /\ t = IF x - n + 1 <= e THEN e - (x - n + 1) + 1 ELSE 0
          /\ Len(wal) = w + t /\ x >= w /\ x <= w + 1 /\ x >= r.dcommit + 1
        BY <1>1, <1>3, <1>4, <1>9
    <2>2. next = IF x >= n + e THEN x ELSE n + e
        BY DEF MaxOf
    <2> HIDE DEF w, e, t, x, next
    <2> QED
        BY <2>1, <2>2
<1>6. WalAppend(r, n, es) = WithWal(r, wal, next, r.dcommit)
    BY <1>1 DEF WithWal, WalAppend, ServerState, tail, wal
<1> HIDE DEF next
<1>7. \A i \in 1..r.dcommit : wal[i] = r.wal[i]
    BY <1>1, <1>4
<1>8. r.dcommit <= Len(wal)
    BY <1>1, <1>4, <1>9
<1>10. r.dcommit \in Nat /\ r.dcommit >= r.dcommit
    BY <1>1
<1>11. /\ Evolves(r, WithWal(r, wal, next, r.dcommit))
       /\ SameBallot(r, WithWal(r, wal, next, r.dcommit))
    BY <1>4, <1>5, <1>7, <1>8, <1>10, WalEvolves
<1> QED
    BY <1>6, <1>11

\* commit_and_apply_shards_through commits only what the WAL holds.
LEMMA CommitThroughEvolves ==
    ASSUME NEW r, Good(r), NEW commit \in Nat
    PROVE  /\ Evolves(r, CommitThrough(r, commit))
           /\ SameBallot(r, CommitThrough(r, commit))
<1> DEFINE last == MinOf(commit, Len(r.wal))
           next == MaxOf(r.next, last + 1)
<1>1. /\ r \in ServerState /\ r.wal \in Seq(Entry) /\ r.dcommit \in Nat /\ r.next \in Nat
      /\ r.dcommit <= Len(r.wal) /\ r.next >= Len(r.wal) /\ r.next <= Len(r.wal) + 1
    BY DEF Good, ServerState
<1>2. last \in Nat /\ last <= Len(r.wal)
    BY <1>1 DEF MinOf
<1>3. CASE last > r.dcommit
    <2>1. CommitThrough(r, commit) = WithWal(r, r.wal, next, last)
        BY <1>1, <1>3 DEF CommitThrough, WithWal, ServerState
    <2> HIDE DEF last
    <2>2. next \in Nat /\ next >= Len(r.wal) /\ next <= Len(r.wal) + 1 /\ next >= last + 1
        BY <1>1, <1>2 DEF MaxOf
    <2> HIDE DEF next
    <2> QED
        BY <1>1, <1>2, <1>3, <2>1, <2>2, WalEvolves
<1>4. CASE ~(last > r.dcommit)
    BY <1>4, EvolvesRefl DEF CommitThrough, SameBallot
<1> QED
    BY <1>3, <1>4

\* The whole append handler, for entries and for heartbeats.
LEMMA AppendBatchEvolves ==
    ASSUME NEW r, Good(r), NEW n \in Nat, NEW es \in Seq(Entry), es = <<>> \/ n >= 1,
           NEW commit \in Nat
    PROVE  /\ Evolves(r, AppendBatch(r, n, es, commit).r)
           /\ NotVoting(r, AppendBatch(r, n, es, commit).r)
<1> DEFINE prev == IF es = <<>> THEN LastIndex(r) ELSE n - 1
           prevTerm == IF prev \in DOMAIN r.wal THEN r.wal[prev].term ELSE 0
           t == IF es = <<>> THEN r.term ELSE es[Len(es)].term
           core == RaftAppend(r, t, prev, prevTerm, es, commit)
           cutWal == WalTruncate(core.r, n, es)
           longer == IF es = <<>> THEN cutWal ELSE WalAppend(cutWal, n, es)
           done == CommitThrough(longer, commit)
           q == AppendBatch(r, n, es, commit).r
           Fine(x) == Evolves(r, x) /\ NotVoting(r, x)
<1>1. r.log \in Seq(Entry) /\ r.wal \in Seq(Entry) /\ r.term \in Nat
    BY DEF Good, ServerState
<1>2. prev \in Nat
    BY <1>1 DEF LastIndex
<1>3. prevTerm \in Nat
    <2>1. CASE prev \in DOMAIN r.wal
        <3>1. r.wal[prev] \in Entry
            BY <1>1, <2>1
        <3> QED
            BY <2>1, <3>1 DEF Entry
    <2>2. CASE prev \notin DOMAIN r.wal
        BY <2>2
    <2> QED
        BY <2>1, <2>2
<1>4. t \in Nat
    <2>1. CASE es = <<>>
        BY <1>1, <2>1
    <2>2. CASE es # <<>>
        <3>1. es[Len(es)] \in Entry
            BY <2>2
        <3> QED
            BY <2>2, <3>1 DEF Entry
    <2> QED
        BY <2>1, <2>2
<1>5. \/ q = core.r
      \/ q = cutWal /\ ~WalFenced(core.r, n, es)
      \/ q = done /\ ~WalFenced(core.r, n, es) /\ (es = <<>> \/ ~(n > cutWal.next))
    BY DEF AppendBatch
<1> HIDE DEF prev, prevTerm, t, q
<1>6. Fine(core.r)
    BY <1>2, <1>3, <1>4, RaftAppendEvolves
<1> HIDE DEF core
<1>7. ASSUME NEW x, NEW y, Fine(x), Evolves(x, y), SameBallot(x, y)
      PROVE  Fine(y)
    BY <1>7, EvolvesTrans, NotVotingTrans, SameBallotNotVoting
<1>8. CASE q = core.r
    BY <1>6, <1>8 DEF q
<1>9. CASE ~WalFenced(core.r, n, es)
    <2>1. Good(core.r)
        BY <1>6 DEF Evolves
    <2>2. Evolves(core.r, cutWal) /\ SameBallot(core.r, cutWal)
        BY <1>9, <2>1, WalTruncateEvolves
    <2>3. Fine(cutWal) /\ Good(cutWal)
        BY <1>6, <1>7, <2>2 DEF Evolves
    <2> HIDE DEF cutWal
    <2>4. CASE q = cutWal
        BY <2>3, <2>4 DEF q
    <2>5. CASE q = done /\ (es = <<>> \/ ~(n > cutWal.next))
        <3>1. cutWal.next \in Nat
            BY <2>3 DEF Good, ServerState
        <3>2. Evolves(cutWal, longer) /\ SameBallot(cutWal, longer)
            <4>1. CASE es = <<>>
                BY <2>3, <4>1, EvolvesRefl DEF SameBallot
            <4>2. CASE es # <<>>
                <5>1. n >= 1 /\ n <= cutWal.next
                    BY <2>5, <3>1, <4>2
                <5> QED
                    BY <2>3, <4>2, <5>1, WalAppendEvolves
            <4> QED
                BY <4>1, <4>2
        <3>3. Fine(longer) /\ Good(longer)
            BY <1>7, <2>3, <3>2 DEF Evolves
        <3> HIDE DEF longer
        <3>4. Evolves(longer, done) /\ SameBallot(longer, done)
            BY <3>3, CommitThroughEvolves
        <3>5. Fine(done)
            BY <1>7, <3>3, <3>4
        <3> QED
            BY <2>5, <3>5 DEF q
    <2> QED
        BY <1>5, <1>8, <1>9, <2>4, <2>5
<1> QED
    BY <1>5, <1>8, <1>9

\* The catch-up path.
LEMMA CatchUpBatchEvolves ==
    ASSUME NEW r, Good(r), NEW n \in Nat, n >= 1, NEW es \in Seq(Entry)
    PROVE  /\ Evolves(r, CatchUpBatch(r, n, es))
           /\ NotVoting(r, CatchUpBatch(r, n, es))
<1> DEFINE longer == WalAppend(r, n, es)
           done == CommitThrough(longer, n + Len(es) - 1)
<1>1. CASE WalConflicts(r.wal, n, es) # {} \/ n > r.next
    BY <1>1, EvolvesRefl DEF CatchUpBatch
<1>2. CASE ~(WalConflicts(r.wal, n, es) # {} \/ n > r.next)
    <2>1. n <= r.next /\ n + Len(es) - 1 \in Nat
        BY <1>2 DEF Good, ServerState
    <2>2. Evolves(r, longer) /\ SameBallot(r, longer) /\ Good(longer)
        BY <2>1, WalAppendEvolves DEF Evolves
    <2>3. CatchUpBatch(r, n, es) = done
        BY <1>2 DEF CatchUpBatch
    <2> HIDE DEF longer
    <2>4. Evolves(longer, done) /\ SameBallot(longer, done)
        BY <2>1, <2>2, CommitThroughEvolves
    <2> QED
        BY <2>2, <2>3, <2>4, EvolvesTrans, NotVotingTrans, SameBallotNotVoting
<1> QED
    BY <1>1, <1>2

-----------------------------------------------------------------------------
\* Elections.  start_election takes a new term and votes for itself in it.
LEMMA CampaignEvolves ==
    ASSUME NEW r, Good(r), NEW s \in Server
    PROVE  /\ Evolves(r, Campaign(r, s)) /\ SameWal(r, Campaign(r, s))
           /\ Campaign(r, s).term = r.term + 1
           /\ Campaign(r, s).vote = s
           /\ Campaign(r, s).votes = {s}
           /\ Campaign(r, s).log = r.log
<1> DEFINE q == Campaign(r, s)
<1>1. q \in ServerState
    <2> DEFINE ballots == {s}  t == r.term + 1
    <2>1. ballots \in SUBSET Server /\ s \in Server \cup {None}
        OBVIOUS
    <2>2. t \in Nat
        BY DEF Good, ServerState
    <2>3. q = [r EXCEPT !.role = "Candidate", !.term = t, !.vote = s, !.votes = ballots]
        BY DEF Campaign
    <2> HIDE DEF ballots, t
    <2> QED
        BY <2>1, <2>2, <2>3 DEF Good, ServerState
<1>2. SameWal(r, q) /\ q.term = r.term + 1 /\ q.vote = s /\ q.votes = {s} /\ q.log = r.log
    BY DEF Campaign, Good, ServerState, SameWal
<1> HIDE DEF q
<1>3. r.term \in Nat
    BY DEF Good, ServerState
<1>4. Evolves(r, q)
    BY <1>1, <1>2, <1>3, SameWalEvolves
<1> QED
    BY <1>2, <1>4 DEF q

\* become_leader keeps the term and the vote of the term it was won in.
LEMMA BecomeLeaderEvolves ==
    ASSUME NEW r, Good(r), NEW s \in Server
    PROVE  /\ Evolves(r, BecomeLeader(r, s)) /\ SameWal(r, BecomeLeader(r, s))
           /\ BecomeLeader(r, s).term = r.term
           /\ BecomeLeader(r, s).vote = r.vote
           /\ BecomeLeader(r, s).role = "Leader"
<1> DEFINE q == BecomeLeader(r, s)
           match == [v \in Server |-> IF v = s THEN LastIndex(r) ELSE 0]
<1>1. match \in [Server -> Nat]
    BY DEF Good, ServerState, LastIndex
<1>2. q = [r EXCEPT !.role = "Leader", !.votes = {}, !.match = match]
    BY DEF BecomeLeader
<1> HIDE DEF match
<1>3. q \in ServerState
    BY <1>1, <1>2 DEF Good, ServerState
<1>4. SameWal(r, q) /\ q.term = r.term /\ q.vote = r.vote /\ q.role = "Leader"
    BY <1>2 DEF Good, ServerState, SameWal
<1> HIDE DEF q
<1>5. r.term \in Nat
    BY DEF Good, ServerState
<1>6. Evolves(r, q)
    BY <1>3, <1>4, <1>5, SameWalEvolves
<1> QED
    BY <1>4, <1>6 DEF q

\* request_vote grants a second vote in a term only to the same candidate.
LEMMA RequestVoteEvolves ==
    ASSUME NEW r, Good(r), NEW m, m.term \in Nat, m.cand \in Server
    PROVE  LET q == RequestVote(r, m)
           IN  /\ Evolves(r, q) /\ SameWal(r, q)
               /\ VoteGranted(r, m) => q.term = m.term /\ q.vote = m.cand
               /\ ~VoteGranted(r, m) => NotVoting(r, q)
               /\ q.role = "Candidate" => q.role = r.role /\ q.term = r.term
                                          /\ q.votes = r.votes
<1> DEFINE mid == IF m.term > r.term THEN StepDown(r, m.term) ELSE r
           q == RequestVote(r, m)
<1>1. /\ Evolves(r, mid) /\ SameWal(r, mid) /\ NotVoting(r, mid)
      /\ mid.term = MaxOf(r.term, m.term) \/ (mid = r /\ ~(m.term > r.term))
    <2>1. CASE m.term > r.term
        BY <2>1, StepDownEvolves
    <2>2. CASE ~(m.term > r.term)
        BY <2>2, EvolvesRefl DEF SameWal
    <2> QED
        BY <2>1, <2>2
<1>2. r.term \in Nat /\ Good(mid) /\ mid \in ServerState
    BY <1>1 DEF Good, ServerState, Evolves
<1>3. q = IF VoteGranted(r, m) THEN [mid EXCEPT !.vote = m.cand] ELSE mid
    BY DEF RequestVote
<1>4. CASE ~VoteGranted(r, m)
    BY <1>1, <1>3, <1>4 DEF NotVoting
<1>5. CASE VoteGranted(r, m)
    <2>1. /\ m.term >= r.term /\ (m.term > r.term \/ r.vote \in {None, m.cand})
        BY <1>5 DEF VoteGranted
    <2>2. mid.term = m.term
        BY <1>1, <1>2, <2>1 DEF MaxOf
    <2> HIDE DEF mid
    <2>3. q \in ServerState
        BY <1>2, <1>3, <1>5 DEF ServerState
    <2>4. /\ SameWal(mid, q) /\ q.term = m.term /\ q.vote = m.cand /\ q.role = mid.role
          /\ q.votes = mid.votes
        BY <1>2, <1>3, <1>5, <2>2 DEF ServerState, SameWal
    <2> HIDE DEF q
    <2>5. SameWal(r, q)
        BY <1>1, <2>4 DEF SameWal
    <2>6. q.term >= r.term /\ (q.term = r.term /\ r.vote # None => q.vote = r.vote)
        BY <1>2, <2>1, <2>4
    <2>7. Evolves(r, q)
        BY <2>3, <2>5, <2>6, SameWalEvolves
    <2> QED
        BY <1>1, <1>5, <2>2, <2>4, <2>5, <2>7 DEF NotVoting, q
<1> QED
    BY <1>4, <1>5

\* The ballots of r once the response m is counted.
Counted(r, m) == IF m.granted THEN r.votes \cup {m.voter} ELSE r.votes

\* record_vote_response adds a granted ballot of the current term, steps down,
\* or, with a quorum of ballots, makes the candidate leader.
LEMMA RecordVoteEvolves ==
    ASSUME NEW r, Good(r), NEW s \in Server, NEW m, m.term \in Nat, m.voter \in Server
    PROVE  LET q == RecordVote(r, s, m)
           IN  /\ Evolves(r, q) /\ SameWal(r, q)
               /\ q.term = r.term => q.vote = r.vote
               /\ q.role = "Candidate" =>
                     /\ r.role = "Candidate" /\ q.term = r.term
                     /\ q.votes = r.votes \/ (m.term = r.term /\ q.votes = Counted(r, m))
               /\ WinsElection(r, s, m) =>
                     r.role = "Candidate" /\ m.term = r.term /\ HasQuorum(Counted(r, m))
<1> DEFINE q == RecordVote(r, s, m)
           counted == [r EXCEPT !.votes = IF m.granted THEN @ \cup {m.voter} ELSE @]
<1>1. r.term \in Nat /\ r \in ServerState
    BY DEF Good, ServerState
<1>2. CASE m.term > r.term
    <2>1. q = StepDown(r, m.term)
        BY <1>2 DEF RecordVote
    <2>2. ~WinsElection(r, s, m)
        BY <1>1, <1>2 DEF WinsElection
    <2> QED
        BY <2>1, <2>2, StepDownEvolves DEF NotVoting
<1>3. CASE ~(m.term > r.term) /\ (r.role # "Candidate" \/ m.term # r.term)
    <2>1. q = r
        BY <1>3 DEF RecordVote
    <2>2. ~WinsElection(r, s, m)
        BY <1>3 DEF WinsElection
    <2> QED
        BY <2>1, <2>2, EvolvesRefl DEF SameWal
<1>4. CASE ~(m.term > r.term) /\ ~(r.role # "Candidate" \/ m.term # r.term)
    <2>1. counted = [r EXCEPT !.votes = Counted(r, m)]
        BY DEF Counted
    <2>2. Counted(r, m) \in SUBSET Server
        BY <1>1 DEF Counted, ServerState
    <2>3. counted \in ServerState
        BY <1>1, <2>1, <2>2 DEF ServerState
    <2>4. /\ SameWal(r, counted) /\ counted.term = r.term /\ counted.vote = r.vote
          /\ counted.role = r.role /\ counted.votes = Counted(r, m)
        BY <1>1, <2>1 DEF ServerState, SameWal
    <2>5. q = IF HasQuorum(counted.votes) THEN BecomeLeader(counted, s) ELSE counted
        BY <1>4 DEF RecordVote
    <2> HIDE DEF counted
    <2>6. Evolves(r, counted) /\ Good(counted)
        BY <1>1, <2>3, <2>4, SameWalEvolves DEF Evolves
    <2>7. CASE HasQuorum(counted.votes)
        <3>1. q = BecomeLeader(counted, s)
            BY <2>5, <2>7
        <3> HIDE DEF q
        <3>2. /\ Evolves(counted, q) /\ SameWal(counted, q) /\ q.term = counted.term
              /\ q.vote = counted.vote /\ q.role = "Leader"
            BY <2>6, <3>1, BecomeLeaderEvolves
        <3>3. Evolves(r, q) /\ SameWal(r, q)
            BY <2>4, <2>6, <3>2, EvolvesTrans DEF SameWal
        <3> QED
            BY <1>4, <2>4, <2>7, <3>2, <3>3 DEF q
    <2>8. CASE ~HasQuorum(counted.votes)
        <3>1. q = counted
            BY <2>5, <2>8
        <3>2. ~WinsElection(r, s, m)
            BY <1>4, <2>4, <3>1 DEF WinsElection
        <3> QED
            BY <1>4, <2>4, <2>6, <3>1, <3>2
    <2> QED
        BY <2>7, <2>8
<1> QED
    BY <1>2, <1>3, <1>4

-----------------------------------------------------------------------------
\* advance_leader_commit_index moves RaftCore's commit index only.
LEMMA AdvanceCommitEvolves ==
    ASSUME NEW r, Good(r)
    PROVE  /\ Evolves(r, AdvanceCommit(r)) /\ SameBallot(r, AdvanceCommit(r))
           /\ SameWal(r, AdvanceCommit(r))
<1> DEFINE qs == {i \in QuorumIndexes(r) : \A j \in QuorumIndexes(r) : j <= i}
           c == CHOOSE q \in qs : TRUE
<1>1. r \in ServerState /\ r.match \in [Server -> Nat] /\ r.log \in Seq(Entry)
    BY DEF Good, ServerState
<1>2. QuorumIndexes(r) \subseteq Nat
    BY <1>1 DEF QuorumIndexes
<1>3. qs \subseteq Nat
    BY <1>2
<1>4. AdvanceCommit(r) = r \/ (qs # {} /\ AdvanceCommit(r) = [r EXCEPT !.rcommit = c])
    BY DEF AdvanceCommit
<1> HIDE DEF qs
<1>5. CASE AdvanceCommit(r) = r
    BY <1>5, EvolvesRefl DEF SameBallot, SameWal
<1>6. CASE qs # {} /\ AdvanceCommit(r) = [r EXCEPT !.rcommit = c]
    <2>1. c \in Nat
        BY <1>3, <1>6
    <2>2. AdvanceCommit(r) = WithLog(r, r.log, c)
        BY <1>1, <1>6 DEF WithLog, ServerState
    <2> HIDE DEF c
    <2> QED
        BY <1>1, <2>1, <2>2, LogEvolves
<1> QED
    BY <1>4, <1>5, <1>6

\* Opening a data directory: the routing-table primary of term 0 votes for
\* itself; whoever opens is never left a candidate.
LEMMA OpenedEvolves ==
    ASSUME NEW r, Good(r), NEW s \in Server, r.role # "Candidate"
    PROVE  LET q == Opened(r, s)
           IN  /\ Evolves(r, q) /\ SameWal(r, q)
               /\ q.role # "Candidate"
               /\ s = Primary /\ r.term = 0 => q.term = 1 /\ q.vote = s
               /\ ~(s = Primary /\ r.term = 0) => q.term = r.term /\ q.vote = r.vote
<1> DEFINE q == Opened(r, s)
           mid == IF r.term = 0 THEN Campaign(r, s) ELSE r
<1>1. CASE s # Primary
    BY <1>1, EvolvesRefl DEF Opened, SameWal
<1>2. CASE s = Primary
    <2>1. /\ Evolves(r, mid) /\ SameWal(r, mid) /\ Good(mid)
          /\ r.term = 0 => mid.term = 1 /\ mid.vote = s
          /\ r.term # 0 => mid.term = r.term /\ mid.vote = r.vote
        <3>1. CASE r.term = 0
            BY <3>1, CampaignEvolves DEF Evolves
        <3>2. CASE r.term # 0
            BY <3>2, EvolvesRefl DEF SameWal
        <3> QED
            BY <3>1, <3>2
    <2>2. q = BecomeLeader(mid, s)
        BY <1>2 DEF Opened
    <2> HIDE DEF mid
    <2>3. /\ Evolves(mid, q) /\ SameWal(mid, q) /\ q.role = "Leader"
          /\ q.term = mid.term /\ q.vote = mid.vote
        BY <2>1, <2>2, BecomeLeaderEvolves
    <2> HIDE DEF q
    <2>4. Evolves(r, q) /\ SameWal(r, q)
        BY <2>1, <2>3, EvolvesTrans DEF SameWal
    <2> QED
        BY <1>2, <2>1, <2>3, <2>4 DEF q
<1> QED
    BY <1>1, <1>2

\* A restart rebuilds RaftCore's log from the WAL and keeps the committed part.
LEMMA ReopenedEvolves ==
    ASSUME NEW r, Good(r), NEW s \in Server
    PROVE  LET q == Reopened(r, s)
           IN  /\ Evolves(r, q)
               /\ q.role # "Candidate"
               /\ s = Primary /\ r.term = 0 => q.term = 1 /\ q.vote = s
               /\ ~(s = Primary /\ r.term = 0) => q.term = r.term /\ q.vote = r.vote
<1> DEFINE c == MinOf(r.dcommit, Len(r.wal))
           zero == [v \in Server |-> 0]
           x == Len(r.wal) + 1
           mid == [r EXCEPT !.role = "Follower", !.votes = {}, !.log = r.wal,
                            !.rcommit = c, !.match = zero, !.next = x]
           q == Reopened(r, s)
<1>1. /\ r \in ServerState /\ r.wal \in Seq(Entry) /\ r.dcommit \in Nat /\ r.term \in Nat
      /\ r.dcommit <= Len(r.wal)
    BY DEF Good, ServerState
<1>2. c \in Nat /\ zero \in [Server -> Nat] /\ x \in Nat
    BY <1>1 DEF MinOf
<1>3. q = Opened(mid, s)
    BY DEF Reopened
<1> HIDE DEF c, zero
<1>4. mid \in ServerState
    BY <1>1, <1>2 DEF ServerState
<1>5. /\ mid.wal = r.wal /\ mid.dcommit = r.dcommit /\ mid.next = x
      /\ mid.role = "Follower" /\ mid.term = r.term /\ mid.vote = r.vote
    BY <1>1 DEF ServerState
<1> HIDE DEF mid
<1>6. Good(mid)
    BY <1>1, <1>4, <1>5 DEF Good
<1>7. Evolves(r, mid)
    BY <1>1, <1>5, <1>6 DEF Evolves
<1>8. /\ Evolves(mid, q) /\ q.role # "Candidate"
      /\ s = Primary /\ mid.term = 0 => q.term = 1 /\ q.vote = s
      /\ ~(s = Primary /\ mid.term = 0) => q.term = mid.term /\ q.vote = mid.vote
    BY <1>3, <1>5, <1>6, OpenedEvolves
<1> HIDE DEF q
<1>9. Evolves(r, q)
    BY <1>7, <1>8, EvolvesTrans
<1> QED
    BY <1>5, <1>8, <1>9 DEF q

\* An empty data directory is in a good state.
LEMMA FreshGood == Good(Fresh)
<1>1. [v \in Server |-> 0] \in [Server -> Nat] /\ {} \in SUBSET Server
    OBVIOUS
<1>2. <<>> \in Seq(Entry) /\ Len(<<>>) = 0
    OBVIOUS
<1>3. Fresh \in ServerState
    BY <1>1, <1>2 DEF Fresh, ServerState
<1>4. Fresh.dcommit = 0 /\ Fresh.next = 1 /\ Fresh.wal = <<>>
    BY DEF Fresh
<1> QED
    BY <1>2, <1>3, <1>4 DEF Good

-----------------------------------------------------------------------------
\* A server that is publishing has the entry in its WAL, below next_log_index.
PendingInWal ==
    \A s \in Server : pending[s] # None =>
        /\ pending[s].index \in 1..Len(srv[s].wal)
        /\ pending[s].index < srv[s].next

\* The inductive invariant behind type correctness and the commit properties.
IInv == TypeOK /\ (\A s \in Server : Good(srv[s])) /\ PendingInWal

\* What a step does to the servers.
ServersEvolve == \A s \in Server : Evolves(srv[s], srv'[s])

\* A step that is not part of an election.
Quiet == \A s \in Server : NotVoting(srv[s], srv'[s])

\* Writes acknowledged by this step are committed where they are acknowledged.
AckedNow ==
    \A a \in acked' : \/ a \in acked
                      \/ /\ a.index \in 1..srv'[a.server].dcommit
                         /\ srv'[a.server].wal[a.index] = a.entry

\* A step that sets one server's state to one it evolves into.
LEMMA SetEvolves ==
    ASSUME IInv, NEW p \in Server, NEW q, Set(p, q), Evolves(srv[p], q)
    PROVE  /\ srv' \in [Server -> ServerState]
           /\ ServersEvolve
           /\ \A s \in Server : Good(srv'[s])
           /\ srv'[p] = q
           /\ \A s \in Server : s # p => srv'[s] = srv[s]
<1>1. srv \in [Server -> ServerState] /\ \A s \in Server : Good(srv[s])
    BY DEF IInv, TypeOK
<1>2. srv'[p] = q /\ \A s \in Server : s # p => srv'[s] = srv[s]
    BY <1>1 DEF Set
<1>3. ServersEvolve
    <2> SUFFICES ASSUME NEW s \in Server PROVE Evolves(srv[s], srv'[s])
        BY DEF ServersEvolve
    <2>1. CASE s = p
        BY <1>2, <2>1
    <2>2. CASE s # p
        BY <1>1, <1>2, <2>2, EvolvesRefl
    <2> QED
        BY <2>1, <2>2
<1>4. \A s \in Server : Good(srv'[s])
    BY <1>3 DEF ServersEvolve, Evolves
<1>5. q \in ServerState
    BY <1>2, <1>4 DEF Good
<1>6. srv' \in [Server -> ServerState]
    BY <1>1, <1>5 DEF Set
<1> QED
    BY <1>2, <1>3, <1>4, <1>6

\* A step that sets one server's state without voting is quiet.
LEMMA SetQuiet ==
    ASSUME IInv, NEW p \in Server, NEW q, Set(p, q), NotVoting(srv[p], q)
    PROVE  Quiet
<1>1. srv \in [Server -> ServerState]
    BY DEF IInv, TypeOK
<1>2. srv'[p] = q /\ \A s \in Server : s # p => srv'[s] = srv[s]
    BY <1>1 DEF Set
<1> QED
    BY <1>2 DEF Quiet, NotVoting

\* The same when the server was idle and no write starts or ends: the entries
\* being published stay where they are.
LEMMA IdleSetEvolves ==
    ASSUME IInv, NEW p \in Server, NEW q, Set(p, q), Evolves(srv[p], q), Idle(p),
           \A s \in Server : pending'[s] # None =>
               pending[s] # None /\ pending'[s].index = pending[s].index
    PROVE  PendingInWal'
<1>1. \A s \in Server : s # p => srv'[s] = srv[s]
    BY SetEvolves
<1> SUFFICES ASSUME NEW s \in Server, pending'[s] # None
             PROVE  /\ pending'[s].index \in 1..Len(srv'[s].wal)
                    /\ pending'[s].index < srv'[s].next
    BY DEF PendingInWal
<1>2. s # p
    BY DEF Idle
<1> QED
    BY <1>1, <1>2 DEF IInv, PendingInWal

\* A step that leaves the servers and the pending writes alone.
LEMMA SrvUnchanged ==
    ASSUME IInv, UNCHANGED srv,
           \A s \in Server : pending'[s] # None =>
               pending[s] # None /\ pending'[s].index = pending[s].index
    PROVE  ServersEvolve /\ Quiet /\ (\A s \in Server : Good(srv'[s])) /\ PendingInWal'
<1>1. ServersEvolve /\ Quiet
    BY EvolvesRefl DEF IInv, ServersEvolve, Quiet
<1>2. \A s \in Server : Good(srv'[s])
    BY DEF IInv
<1>3. PendingInWal'
    BY DEF IInv, PendingInWal
<1> QED
    BY <1>1, <1>2, <1>3

\* Calls of the append handler at an idle server, with nothing else changing.
LEMMA AppendStep ==
    ASSUME IInv, NEW p \in Server, Idle(p), NEW n \in Nat, NEW es \in Seq(Entry),
           es = <<>> \/ n >= 1, NEW c \in Nat,
           Set(p, AppendBatch(srv[p], n, es, c).r),
           UNCHANGED <<pending, mayElect, requests, responses, published, announced,
                       restarts, granted, elected, acked>>
    PROVE  IInv' /\ ServersEvolve /\ Quiet
<1>1. Evolves(srv[p], AppendBatch(srv[p], n, es, c).r)
    BY AppendBatchEvolves DEF IInv
<1>2. /\ srv' \in [Server -> ServerState] /\ ServersEvolve
      /\ \A s \in Server : Good(srv'[s])
    BY <1>1, SetEvolves
<1>3. PendingInWal'
    BY <1>1, IdleSetEvolves
<1>4. TypeOK'
    BY <1>2 DEF IInv, TypeOK
<1>5. Quiet
    BY AppendBatchEvolves, SetQuiet DEF IInv
<1> QED
    BY <1>2, <1>3, <1>4, <1>5 DEF IInv

-----------------------------------------------------------------------------
\* One lemma per action that changes a server or a pending write: the
\* inductive invariant is kept and every server evolves.
LEMMA PreVoteRoundStep ==
    ASSUME IInv, NEW s \in Server, PreVoteRound(s)
    PROVE  IInv' /\ ServersEvolve /\ Quiet
<1>1. UNCHANGED <<srv, pending>> /\ TypeOK'
    BY DEF PreVoteRound, IInv, TypeOK
<1> QED
    BY <1>1, SrvUnchanged DEF IInv

\* start_raft_election, with its early return.
LEMMA StartElectionStep ==
    ASSUME IInv, NEW s \in Server, StartElection(s)
    PROVE  IInv' /\ ServersEvolve
<1> DEFINE r == Campaign(srv[s], s)
<1>1. CASE UNCHANGED <<srv, requests, responses, granted>>
    <2>1. UNCHANGED <<srv, pending>> /\ TypeOK'
        BY <1>1 DEF StartElection, IInv, TypeOK
    <2> QED
        BY <2>1, SrvUnchanged DEF IInv
<1>2. CASE ~UNCHANGED <<srv, requests, responses, granted>>
    <2>1. /\ Set(s, r) /\ Idle(s)
          /\ requests' = requests \cup {[term |-> r.term, cand |-> s,
                                         lastIndex |-> LastIndex(r), lastTerm |-> LastTerm(r)]}
          /\ responses' = {m \in responses : m.cand # s}
          /\ granted' = granted \cup {[term |-> r.term, voter |-> s, cand |-> s]}
          /\ mayElect' = [mayElect EXCEPT ![s] = FALSE]
          /\ UNCHANGED <<pending, published, announced, restarts, elected, acked>>
        BY <1>2 DEF StartElection
    <2>2. Evolves(srv[s], r) /\ r \in ServerState
        BY CampaignEvolves DEF IInv, Evolves, Good
    <2> HIDE DEF r
    <2>3. r.term \in Nat /\ LastIndex(r) \in Nat /\ LastTerm(r) \in Nat
        <3>1. r.term \in Nat /\ r.log \in Seq(Entry)
            BY <2>2 DEF ServerState
        <3>2. CASE r.log = <<>>
            BY <3>1, <3>2 DEF LastIndex, LastTerm
        <3>3. CASE r.log # <<>>
            <4>1. r.log[Len(r.log)] \in Entry
                BY <3>1, <3>3
            <4> QED
                BY <3>1, <3>3, <4>1 DEF LastIndex, LastTerm, Entry
        <3> QED
            BY <3>2, <3>3
    <2>4. /\ srv' \in [Server -> ServerState] /\ ServersEvolve
          /\ \A x \in Server : Good(srv'[x])
        BY <2>1, <2>2, SetEvolves
    <2>5. PendingInWal'
        BY <2>1, <2>2, IdleSetEvolves
    <2>6. TypeOK'
        <3>1. mayElect' \in [Server -> BOOLEAN] /\ responses' \subseteq responses
            BY <2>1 DEF IInv, TypeOK
        <3>2. requests' \subseteq [term : Nat, cand : Server, lastIndex : Nat, lastTerm : Nat]
            BY <2>1, <2>3 DEF IInv, TypeOK
        <3>3. granted' \subseteq [term : Nat, voter : Server, cand : Server]
            BY <2>1, <2>3 DEF IInv, TypeOK
        <3> QED
            BY <2>1, <2>4, <3>1, <3>2, <3>3 DEF IInv, TypeOK
    <2> QED
        BY <2>4, <2>5, <2>6 DEF IInv
<1> QED
    BY <1>1, <1>2

\* request_raft_vote at a voter.
LEMMA HandleRequestVoteStep ==
    ASSUME IInv, NEW p \in Server, NEW m \in requests, HandleRequestVote(p, m)
    PROVE  IInv' /\ ServersEvolve
<1> DEFINE after == RequestVote(srv[p], m)
           yes == VoteGranted(srv[p], m)
<1>1. m.term \in Nat /\ m.cand \in Server
    BY DEF IInv, TypeOK
<1>2. Evolves(srv[p], after) /\ after \in ServerState
    <2>1. Good(srv[p])
        BY DEF IInv
    <2>2. Evolves(srv[p], after)
        BY <1>1, <2>1, RequestVoteEvolves
    <2> QED
        BY <2>2 DEF Evolves, Good
<1>3. yes \in BOOLEAN
    BY DEF VoteGranted
<1>4. /\ Set(p, after) /\ Idle(p)
      /\ responses' \subseteq responses \cup {[cand |-> m.cand, voter |-> p,
                                               term |-> after.term, granted |-> yes]}
      /\ granted' \subseteq granted \cup {[term |-> m.term, voter |-> p, cand |-> m.cand]}
      /\ UNCHANGED <<pending, mayElect, requests, published, announced, restarts,
                     elected, acked>>
    BY DEF HandleRequestVote
<1> HIDE DEF after, yes
<1>5. after.term \in Nat
    BY <1>2 DEF ServerState
<1>6. /\ srv' \in [Server -> ServerState] /\ ServersEvolve
      /\ \A x \in Server : Good(srv'[x])
    BY <1>2, <1>4, SetEvolves
<1>7. PendingInWal'
    BY <1>2, <1>4, IdleSetEvolves
<1>8. TypeOK'
    BY <1>1, <1>3, <1>4, <1>5, <1>6 DEF IInv, TypeOK
<1> QED
    BY <1>6, <1>7, <1>8 DEF IInv

\* record_raft_vote_response at the candidate.
LEMMA HandleVoteResponseStep ==
    ASSUME IInv, NEW s \in Server, NEW m \in responses, HandleVoteResponse(s, m)
    PROVE  IInv' /\ ServersEvolve
<1> DEFINE after == RecordVote(srv[s], s, m)
<1>1. m.term \in Nat /\ m.voter \in Server
    BY DEF IInv, TypeOK
<1>2. Evolves(srv[s], after)
    BY <1>1, RecordVoteEvolves DEF IInv
<1>3. /\ Set(s, after) /\ Idle(s)
      /\ responses' \subseteq responses
      /\ elected' \subseteq elected \cup {[term |-> m.term, server |-> s]}
      /\ UNCHANGED <<pending, mayElect, requests, published, announced, restarts,
                     granted, acked>>
    BY DEF HandleVoteResponse
<1> HIDE DEF after
<1>4. /\ srv' \in [Server -> ServerState] /\ ServersEvolve
      /\ \A x \in Server : Good(srv'[x])
    BY <1>2, <1>3, SetEvolves
<1>5. PendingInWal'
    BY <1>2, <1>3, IdleSetEvolves
<1>6. TypeOK'
    BY <1>1, <1>3, <1>4 DEF IInv, TypeOK
<1> QED
    BY <1>4, <1>5, <1>6 DEF IInv

\* A restart: the write being published is lost, what was committed is not.
LEMMA RestartStep ==
    ASSUME IInv, NEW s \in Server, Restart(s)
    PROVE  IInv' /\ ServersEvolve
<1> DEFINE after == Reopened(srv[s], s)
<1>1. Evolves(srv[s], after)
    BY ReopenedEvolves DEF IInv
<1>2. /\ Set(s, after) /\ restarts' = restarts + 1
      /\ granted' = granted \cup SelfVote(srv[s], s)
      /\ pending' = [pending EXCEPT ![s] = None]
      /\ mayElect' = [mayElect EXCEPT ![s] = FALSE]
      /\ responses' \subseteq responses
      /\ UNCHANGED <<requests, published, announced, elected, acked>>
    BY DEF Restart
<1> HIDE DEF after
<1>3. /\ srv' \in [Server -> ServerState] /\ ServersEvolve
      /\ \A x \in Server : Good(srv'[x])
      /\ \A x \in Server : x # s => srv'[x] = srv[x]
    BY <1>1, <1>2, SetEvolves
<1>4. SelfVote(srv[s], s) \subseteq [term : Nat, voter : Server, cand : Server]
    BY DEF SelfVote
<1>5. TypeOK'
    <2>1. mayElect' \in [Server -> BOOLEAN] /\ restarts' \in Nat
        BY <1>2 DEF IInv, TypeOK
    <2>2. pending' \in [Server -> {None} \cup
                           [index : Nat, acks : SUBSET Server, sent : BOOLEAN]]
        BY <1>2 DEF IInv, TypeOK
    <2>3. granted' \subseteq [term : Nat, voter : Server, cand : Server]
        BY <1>2, <1>4 DEF IInv, TypeOK
    <2> QED
        BY <1>2, <1>3, <2>1, <2>2, <2>3 DEF IInv, TypeOK
<1>6. PendingInWal'
    BY <1>2, <1>3 DEF IInv, PendingInWal, TypeOK
<1> QED
    BY <1>3, <1>5, <1>6 DEF IInv

\* append_local_command: the record goes to the end of the WAL; RaftCore takes
\* it only when it continues its own log.
LEMMA ClientWriteStep ==
    ASSUME IInv, NEW s \in Server, NEW v \in Value, ClientWrite(s, v)
    PROVE  IInv' /\ ServersEvolve /\ Quiet
<1> DEFINE r == srv[s]
           e == [term |-> r.term, val |-> v]
           logged == [r EXCEPT !.wal = Append(@, e)]
           both == [logged EXCEPT !.log = Append(@, e), !.match[s] = r.next,
                                  !.next = r.next + 1]
           entry == [index |-> r.next, entry |-> e, origin |-> s]
           write == [index |-> r.next, acks |-> {s}, sent |-> FALSE]
<1>1. /\ r \in ServerState /\ r.wal \in Seq(Entry) /\ r.log \in Seq(Entry)
      /\ r.next \in Nat /\ r.dcommit \in Nat /\ r.term \in Nat /\ r.rcommit \in Nat
      /\ r.match \in [Server -> Nat] /\ Good(r)
    BY DEF IInv, Good, ServerState
<1>2. Len(r.wal) = r.next - 1 /\ r.next - 1 >= r.dcommit /\ Idle(s)
    BY DEF ClientWrite, AppliedThroughCommit
<1>3. e \in Entry
    BY <1>1 DEF Entry
<1>4. \/ /\ Set(s, logged) /\ UNCHANGED <<pending, published>>
      \/ /\ Set(s, AdvanceCommit(both))
         /\ pending' = [pending EXCEPT ![s] = write]
         /\ published' = published \cup {entry}
    BY DEF ClientWrite
<1>5. UNCHANGED <<mayElect, requests, responses, announced, restarts, granted, elected, acked>>
    BY DEF ClientWrite
<1> HIDE DEF e
<1> DEFINE wal == Append(r.wal, e)
           log == Append(r.log, e)
           match == [r.match EXCEPT ![s] = r.next]
           a == WithWal(r, wal, r.next + 1, r.dcommit)
           b == WithLog(a, log, r.rcommit)
           c == WithMatch(b, match)
<1>6. /\ wal \in Seq(Entry) /\ Len(wal) = Len(r.wal) + 1 /\ log \in Seq(Entry)
      /\ \A i \in 1..Len(r.wal) : wal[i] = r.wal[i]
    BY <1>1, <1>3, AppendProperties
<1>7. match \in [Server -> Nat]
    BY <1>1
<1>8. logged = WithWal(r, wal, r.next, r.dcommit)
    BY <1>1 DEF WithWal, ServerState
<1>9. both = c
    BY <1>1 DEF WithWal, WithLog, WithMatch, ServerState
<1>10. a.wal = wal /\ a.next = r.next + 1
    BY <1>1 DEF WithWal, ServerState
<1>11. Evolves(r, logged) /\ SameBallot(r, logged)
    BY <1>1, <1>2, <1>3, <1>8, WalRecordEvolves
<1>12. Evolves(r, a) /\ Good(a) /\ SameBallot(r, a)
    BY <1>1, <1>2, <1>3, WalRecordEvolves DEF Evolves
<1> HIDE DEF logged, both, wal, log, match, r
<1>13. r.next >= 1
    BY <1>1, <1>2
<1> HIDE DEF a
<1>14. Evolves(a, b) /\ SameWal(a, b) /\ SameBallot(a, b) /\ Good(b)
    BY <1>1, <1>6, <1>12, LogEvolves DEF Evolves
<1> HIDE DEF b
<1>15. Evolves(b, c) /\ SameWal(b, c) /\ SameBallot(b, c) /\ Good(c)
    BY <1>7, <1>14, MatchEvolves DEF Evolves
<1> HIDE DEF c
<1>16. /\ Evolves(c, AdvanceCommit(c)) /\ SameWal(c, AdvanceCommit(c))
       /\ SameBallot(c, AdvanceCommit(c))
    BY <1>15, AdvanceCommitEvolves
<1>17. Evolves(r, AdvanceCommit(c))
    BY <1>1, <1>12, <1>14, <1>15, <1>16, EvolvesTrans
<1>21. SameBallot(r, AdvanceCommit(c))
    BY <1>12, <1>14, <1>15, <1>16 DEF SameBallot
<1>18. AdvanceCommit(c).wal = wal /\ AdvanceCommit(c).next = r.next + 1
    BY <1>10, <1>14, <1>15, <1>16 DEF SameWal
<1>19. CASE Set(s, logged) /\ UNCHANGED <<pending, published>>
    <2>1. srv' \in [Server -> ServerState] /\ ServersEvolve /\ \A x \in Server : Good(srv'[x])
        BY <1>11, <1>19, SetEvolves DEF r
    <2>2. PendingInWal'
        BY <1>2, <1>11, <1>19, IdleSetEvolves DEF r
    <2>3. TypeOK'
        BY <1>5, <1>19, <2>1 DEF IInv, TypeOK
    <2>4. Quiet
        BY <1>11, <1>19, SameBallotNotVoting, SetQuiet DEF r
    <2> QED
        BY <2>1, <2>2, <2>3, <2>4 DEF IInv
<1>20. CASE /\ Set(s, AdvanceCommit(both))
            /\ pending' = [pending EXCEPT ![s] = write]
            /\ published' = published \cup {entry}
    <2>1. /\ srv' \in [Server -> ServerState] /\ ServersEvolve
          /\ \A x \in Server : Good(srv'[x])
          /\ srv'[s] = AdvanceCommit(c)
          /\ \A x \in Server : x # s => srv'[x] = srv[x]
        BY <1>9, <1>17, <1>20, SetEvolves DEF r
    <2>2. /\ pending \in [Server -> {None} \cup
                            [index : Nat, acks : SUBSET Server, sent : BOOLEAN]]
          /\ write.index = r.next
        BY DEF IInv, TypeOK
    <2>3. PendingInWal'
        <3> SUFFICES ASSUME NEW x \in Server, pending'[x] # None
                     PROVE  /\ pending'[x].index \in 1..Len(srv'[x].wal)
                            /\ pending'[x].index < srv'[x].next
            BY DEF PendingInWal
        <3>1. CASE x = s
            <4>1. pending'[x].index = r.next
                BY <1>20, <2>2, <3>1
            <4>2. srv'[x].wal = wal /\ srv'[x].next = r.next + 1
                BY <1>18, <2>1, <3>1
            <4>3. r.next \in 1..Len(wal) /\ r.next < r.next + 1
                BY <1>1, <1>2, <1>6, <1>13
            <4> QED
                BY <4>1, <4>2, <4>3
        <3>2. CASE x # s
            BY <1>20, <2>1, <2>2, <3>2 DEF IInv, PendingInWal
        <3> QED
            BY <3>1, <3>2
    <2>4. write \in [index : Nat, acks : SUBSET Server, sent : BOOLEAN]
        <3>1. {s} \in SUBSET Server /\ FALSE \in BOOLEAN
            OBVIOUS
        <3> QED
            BY <1>1, <3>1
    <2>5. entry \in [index : Nat \ {0}, entry : Entry, origin : Server]
        BY <1>1, <1>3, <1>13
    <2> HIDE DEF write, entry
    <2>6. pending' \in [Server -> {None} \cup
                           [index : Nat, acks : SUBSET Server, sent : BOOLEAN]]
        BY <1>20, <2>2, <2>4
    <2>7. published' \subseteq [index : Nat \ {0}, entry : Entry, origin : Server]
        BY <1>20, <2>5 DEF IInv, TypeOK
    <2>8. TypeOK'
        BY <1>5, <2>1, <2>6, <2>7 DEF IInv, TypeOK
    <2>9. Quiet
        BY <1>9, <1>21, <1>20, SameBallotNotVoting, SetQuiet DEF r
    <2> QED
        BY <2>1, <2>3, <2>8, <2>9 DEF IInv
<1> QED
    BY <1>4, <1>19, <1>20

\* publish_batch at one target.
LEMMA PublishToStep ==
    ASSUME IInv, NEW s \in Server, NEW p \in Server, PublishTo(s, p)
    PROVE  IInv' /\ ServersEvolve /\ Quiet
<1> DEFINE n == pending[s].index
           es == <<srv[s].wal[n]>>
           res == AppendBatch(srv[p], n, es, 0)
           acks == Acks(pending[s].acks, p, res.ok)
<1>1. /\ pending[s] # None /\ Idle(p) /\ Set(p, res.r)
      /\ pending' = [pending EXCEPT ![s].acks = acks]
      /\ UNCHANGED <<mayElect, requests, responses, published, announced, restarts,
                     granted, elected, acked>>
    BY DEF PublishTo, Idle
<1>2. /\ pending \in [Server -> {None} \cup
                        [index : Nat, acks : SUBSET Server, sent : BOOLEAN]]
      /\ pending[s] \in [index : Nat, acks : SUBSET Server, sent : BOOLEAN]
    BY <1>1 DEF IInv, TypeOK
<1>3. n \in 1..Len(srv[s].wal) /\ n \in Nat /\ srv[s].wal \in Seq(Entry)
    BY <1>1, <1>2 DEF IInv, PendingInWal, Good, ServerState
<1>4. es \in Seq(Entry)
    <2>1. srv[s].wal[n] \in Entry
        BY <1>3
    <2> QED
        BY <2>1
<1>5. acks \in SUBSET Server
    BY <1>2 DEF Acks
<1> HIDE DEF es, acks
<1>6. Evolves(srv[p], res.r) /\ NotVoting(srv[p], res.r)
    BY <1>3, <1>4, AppendBatchEvolves DEF IInv
<1> HIDE DEF res, n
<1>7. /\ srv' \in [Server -> ServerState] /\ ServersEvolve
      /\ \A x \in Server : Good(srv'[x])
    BY <1>1, <1>6, SetEvolves
<1>8. \A x \in Server : pending'[x] # None =>
          pending[x] # None /\ pending'[x].index = pending[x].index
    BY <1>1, <1>2
<1>9. PendingInWal'
    BY <1>1, <1>6, <1>8, IdleSetEvolves
<1>10. pending' \in [Server -> {None} \cup
                        [index : Nat, acks : SUBSET Server, sent : BOOLEAN]]
    BY <1>1, <1>2, <1>5
<1>11. TypeOK'
    BY <1>1, <1>7, <1>10 DEF IInv, TypeOK
<1>12. Quiet
    BY <1>1, <1>6, SetQuiet
<1> QED
    BY <1>7, <1>9, <1>11, <1>12 DEF IInv

\* publish_batch giving up.
LEMMA PublishFailStep ==
    ASSUME IInv, NEW s \in Server, PublishFail(s)
    PROVE  IInv' /\ ServersEvolve /\ Quiet
<1>1. /\ pending' = [pending EXCEPT ![s] = None]
      /\ UNCHANGED <<srv, mayElect, requests, responses, published, announced,
                     restarts, granted, elected, acked>>
    BY DEF PublishFail
<1>2. \A x \in Server : pending'[x] # None =>
          pending[x] # None /\ pending'[x].index = pending[x].index
    BY <1>1 DEF IInv, TypeOK
<1>3. TypeOK'
    BY <1>1 DEF IInv, TypeOK
<1> QED
    BY <1>1, <1>2, <1>3, SrvUnchanged DEF IInv

\* The commit heartbeats of publish_batch.
LEMMA AnnounceCommitStep ==
    ASSUME IInv, NEW s \in Server, AnnounceCommit(s)
    PROVE  IInv' /\ ServersEvolve /\ Quiet
<1> DEFINE told == [p \in Server |->
                      IF p \in pending[s].acks \ {s}
                      THEN MaxOf(announced[p], pending[s].index) ELSE announced[p]]
<1>1. /\ pending[s] # None
      /\ pending' = [pending EXCEPT ![s].sent = TRUE]
      /\ announced' = told
      /\ UNCHANGED <<srv, mayElect, requests, responses, published, restarts,
                     granted, elected, acked>>
    BY DEF AnnounceCommit, Idle
<1>2. /\ pending \in [Server -> {None} \cup
                        [index : Nat, acks : SUBSET Server, sent : BOOLEAN]]
      /\ pending[s] \in [index : Nat, acks : SUBSET Server, sent : BOOLEAN]
      /\ announced \in [Server -> Nat]
    BY <1>1 DEF IInv, TypeOK
<1>3. told \in [Server -> Nat]
    BY <1>2 DEF MaxOf
<1> HIDE DEF told
<1>4. \A x \in Server : pending'[x] # None =>
          pending[x] # None /\ pending'[x].index = pending[x].index
    BY <1>1, <1>2
<1>5. pending' \in [Server -> {None} \cup
                       [index : Nat, acks : SUBSET Server, sent : BOOLEAN]]
    BY <1>1, <1>2
<1>6. TypeOK'
    BY <1>1, <1>3, <1>5 DEF IInv, TypeOK
<1> QED
    BY <1>1, <1>4, <1>6, SrvUnchanged DEF IInv

\* commit_entry moves the commit index by one, over an entry of the WAL.
LEMMA LeaderCommitStep ==
    ASSUME IInv, NEW s \in Server, LeaderCommit(s)
    PROVE  IInv' /\ ServersEvolve /\ Quiet /\ AckedNow
<1> DEFINE n == pending[s].index
           match == [v \in Server |-> IF v \in pending[s].acks THEN n ELSE srv[s].match[v]]
           mid == WithMatch(srv[s], match)
           r == AdvanceCommit(mid)
           done == [r EXCEPT !.dcommit = n]
           ack == [server |-> s, index |-> n, entry |-> r.wal[n]]
<1>1. /\ pending[s] # None
      /\ \/ /\ n = r.dcommit + 1 /\ Set(s, done) /\ acked' = acked \cup {ack}
         \/ Set(s, r) /\ UNCHANGED acked
      /\ pending' = [pending EXCEPT ![s] = None]
      /\ UNCHANGED <<mayElect, requests, responses, published, announced, restarts,
                     granted, elected>>
    <2>1. srv[s] \in ServerState
        BY DEF IInv, Good
    <2>2. mid = [srv[s] EXCEPT !.match =
                   [v \in Server |-> IF v \in pending[s].acks THEN n ELSE @[v]]]
        BY DEF WithMatch
    <2> QED
        BY <2>2 DEF LeaderCommit, Idle
<1>2. /\ pending \in [Server -> {None} \cup
                        [index : Nat, acks : SUBSET Server, sent : BOOLEAN]]
      /\ n \in Nat /\ Good(srv[s]) /\ srv[s].match \in [Server -> Nat]
      /\ srv[s].wal \in Seq(Entry) /\ srv[s].dcommit \in Nat /\ srv[s].next \in Nat
    BY <1>1 DEF IInv, TypeOK, Good, ServerState
<1>3. match \in [Server -> Nat]
    BY <1>2
<1>4. n \in 1..Len(srv[s].wal) /\ n < srv[s].next
    BY <1>1 DEF IInv, PendingInWal
<1> HIDE DEF match, n
<1>5. /\ Evolves(srv[s], mid) /\ SameWal(srv[s], mid) /\ Good(mid)
      /\ SameBallot(srv[s], mid)
    BY <1>2, <1>3, MatchEvolves DEF Evolves
<1> HIDE DEF mid
<1>6. Evolves(mid, r) /\ SameWal(mid, r) /\ SameBallot(mid, r) /\ Good(r)
    BY <1>5, AdvanceCommitEvolves DEF Evolves
<1> HIDE DEF r
<1>7. Evolves(srv[s], r) /\ SameWal(srv[s], r) /\ SameBallot(srv[s], r)
    BY <1>2, <1>5, <1>6, EvolvesTrans DEF SameWal, SameBallot
<1>8. n \in 1..Len(r.wal) /\ n < r.next /\ r.wal \in Seq(Entry) /\ r \in ServerState
    BY <1>2, <1>4, <1>6, <1>7 DEF SameWal, Good
<1>9. ack \in [server : Server, index : Nat, entry : Entry]
    <2>1. r.wal[n] \in Entry
        BY <1>8
    <2> QED
        BY <1>2, <2>1
<1>10. n = r.dcommit + 1 => Evolves(srv[s], done) /\ SameBallot(srv[s], done)
    <2> SUFFICES ASSUME n = r.dcommit + 1
                 PROVE  Evolves(srv[s], done) /\ SameBallot(srv[s], done)
        OBVIOUS
    <2>1. r.dcommit \in Nat /\ r.next \in Nat /\ r.next >= Len(r.wal) /\ r.next <= Len(r.wal) + 1
        BY <1>6 DEF Good, ServerState
    <2>2. done = WithWal(r, r.wal, r.next, n)
        BY <1>8 DEF WithWal, ServerState
    <2>3. /\ n \in Nat /\ n >= r.dcommit /\ n <= Len(r.wal) /\ r.next >= n + 1
        BY <1>2, <1>8, <2>1
    <2>4. Evolves(r, done) /\ SameBallot(r, done)
        BY <1>6, <1>8, <2>1, <2>2, <2>3, WalEvolves
    <2> QED
        BY <1>2, <1>7, <2>4, EvolvesTrans DEF SameBallot
<1> HIDE DEF ack, done
<1>11. /\ srv' \in [Server -> ServerState] /\ ServersEvolve
       /\ \A x \in Server : Good(srv'[x])
       /\ \A x \in Server : x # s => srv'[x] = srv[x]
    <2>1. CASE n = r.dcommit + 1 /\ Set(s, done)
        BY <1>10, <2>1, SetEvolves
    <2>2. CASE Set(s, r)
        BY <1>7, <2>2, SetEvolves
    <2> QED
        BY <1>1, <2>1, <2>2
<1>12. PendingInWal'
    BY <1>1, <1>2, <1>11 DEF IInv, PendingInWal
<1>13. pending' \in [Server -> {None} \cup
                        [index : Nat, acks : SUBSET Server, sent : BOOLEAN]]
    BY <1>1, <1>2
<1>14. acked' \subseteq [server : Server, index : Nat, entry : Entry]
    BY <1>1, <1>9 DEF IInv, TypeOK
<1>15. TypeOK'
    BY <1>1, <1>11, <1>13, <1>14 DEF IInv, TypeOK
<1>16. Quiet
    BY <1>1, <1>7, <1>10, SameBallotNotVoting, SetQuiet
<1>17. AckedNow
    <2>1. CASE n = r.dcommit + 1 /\ Set(s, done) /\ acked' = acked \cup {ack}
        <3>1. srv'[s] = done
            BY <1>10, <2>1, SetEvolves
        <3>2. done.dcommit = n /\ done.wal = r.wal
            BY <1>8 DEF done, ServerState
        <3>3. ack.server = s /\ ack.index = n /\ ack.entry = r.wal[n]
            BY DEF ack
        <3>4. n \in 1..n
            BY <1>2, <1>8
        <3> QED
            BY <2>1, <3>1, <3>2, <3>3, <3>4 DEF AckedNow
    <2>2. CASE UNCHANGED acked
        BY <2>2 DEF AckedNow
    <2> QED
        BY <1>1, <2>1, <2>2
<1> QED
    BY <1>11, <1>12, <1>15, <1>16, <1>17 DEF IInv

\* An append executed late or again.
LEMMA LateAppendStep ==
    ASSUME IInv, NEW p \in Server, NEW m \in published, LateAppend(p, m)
    PROVE  IInv' /\ ServersEvolve /\ Quiet
<1>1. m.index \in Nat /\ m.index >= 1 /\ m.entry \in Entry
    BY DEF IInv, TypeOK
<1>2. <<m.entry>> \in Seq(Entry)
    BY <1>1
<1> QED
    BY <1>1, <1>2, AppendStep DEF LateAppend

\* A heartbeat from any server.
LEMMA HeartbeatStep ==
    ASSUME IInv, NEW p \in Server, Heartbeat(p)
    PROVE  IInv' /\ ServersEvolve /\ Quiet
<1>1. PICK c \in {announced[p]} \cup {srv[q].dcommit : q \in Server \ {p}} :
          Set(p, AppendBatch(srv[p], 0, <<>>, c).r)
    BY DEF Heartbeat
<1>2. c \in Nat
    BY DEF IInv, TypeOK, Good, ServerState
<1>3. <<>> \in Seq(Entry)
    OBVIOUS
<1> QED
    BY <1>1, <1>2, <1>3, AppendStep DEF Heartbeat

\* The replication pump, which sends a committed part of the sender's WAL.
LEMMA PumpStep ==
    ASSUME IInv, NEW s \in Server, NEW p \in Server, Pump(s, p)
    PROVE  IInv' /\ ServersEvolve /\ Quiet
<1> DEFINE d == srv[s].dcommit
<1>1. d \in Nat /\ srv[s].wal \in Seq(Entry) /\ d <= Len(srv[s].wal)
    BY DEF IInv, Good, ServerState
<1>2. PICK n \in 1..d : Set(p, AppendBatch(srv[p], n, SubSeq(srv[s].wal, n, d), d).r)
    BY DEF Pump
<1> HIDE DEF d
<1>3. \A i \in n..d : srv[s].wal[i] \in Entry
    BY <1>1
<1>4. SubSeq(srv[s].wal, n, d) \in Seq(Entry)
    BY <1>1, <1>3, SubSeqProperties
<1>5. n \in Nat /\ n >= 1
    BY <1>1
<1> QED
    BY <1>1, <1>2, <1>4, <1>5, AppendStep DEF Pump

\* The catch-up command at a replica.
LEMMA CatchUpStep ==
    ASSUME IInv, NEW p \in Server, CatchUp(p)
    PROVE  IInv' /\ ServersEvolve /\ Quiet
<1> DEFINE n == srv[p].dcommit + 1
           es == SubSeq(srv[Primary].wal, n, Len(srv[Primary].wal))
           after == CatchUpBatch(srv[p], n, es)
<1>1. srv[p].dcommit \in Nat /\ srv[Primary].wal \in Seq(Entry)
    BY ServerAssumption DEF IInv, Good, ServerState
<1>2. n \in Nat /\ n >= 1
    BY <1>1
<1>3. es \in Seq(Entry)
    BY <1>1, <1>2, TailType
<1>4. /\ Set(p, after) /\ Idle(p)
      /\ UNCHANGED <<pending, mayElect, requests, responses, published, announced,
                     restarts, granted, elected, acked>>
    BY DEF CatchUp
<1> HIDE DEF n, es
<1>5. Evolves(srv[p], after) /\ NotVoting(srv[p], after)
    BY <1>2, <1>3, CatchUpBatchEvolves DEF IInv
<1> HIDE DEF after
<1>6. /\ srv' \in [Server -> ServerState] /\ ServersEvolve
      /\ \A x \in Server : Good(srv'[x])
    BY <1>4, <1>5, SetEvolves
<1>7. PendingInWal'
    BY <1>4, <1>5, IdleSetEvolves
<1>8. TypeOK'
    BY <1>4, <1>6 DEF IInv, TypeOK
<1>9. Quiet
    BY <1>4, <1>5, SetQuiet
<1> QED
    BY <1>6, <1>7, <1>8, <1>9 DEF IInv

-----------------------------------------------------------------------------
\* Opening a new data directory on every server establishes the invariant.
LEMMA InitIInv ==
    ASSUME Init
    PROVE  IInv
<1>1. Good(Fresh)
    BY FreshGood
<1>2. Fresh.role # "Candidate"
    BY DEF Fresh
<1>3. \A s \in Server : Good(Opened(Fresh, s))
    BY <1>1, <1>2, OpenedEvolves DEF Evolves
<1>4. \A s \in Server : srv[s] = Opened(Fresh, s)
    BY DEF Init
<1>5. srv \in [Server -> ServerState]
    BY <1>3 DEF Init, Good
<1>6. \A s \in Server : SelfVote(Fresh, s) \subseteq [term : Nat, voter : Server, cand : Server]
    BY DEF SelfVote
<1>7. granted \subseteq [term : Nat, voter : Server, cand : Server]
    BY <1>6 DEF Init
<1>8. TypeOK
    BY <1>5, <1>7 DEF Init, TypeOK
<1>9. PendingInWal
    BY DEF Init, PendingInWal
<1> QED
    BY <1>3, <1>4, <1>8, <1>9 DEF IInv

\* Every step keeps the inductive invariant and evolves every server.
LEMMA NextIInv ==
    ASSUME IInv, [Next]_vars
    PROVE  IInv' /\ ServersEvolve
<1>1. CASE UNCHANGED vars
    <2>1. UNCHANGED <<srv, pending>> /\ TypeOK'
        BY <1>1 DEF vars, IInv, TypeOK
    <2> QED
        BY <2>1, SrvUnchanged DEF IInv
<1>2. CASE Next
    BY <1>2, PreVoteRoundStep, StartElectionStep, HandleRequestVoteStep,
       HandleVoteResponseStep, ClientWriteStep, PublishToStep, LateAppendStep,
       PublishFailStep, AnnounceCommitStep, LeaderCommitStep, HeartbeatStep,
       PumpStep, CatchUpStep, RestartStep DEF Next
<1> QED
    BY <1>1, <1>2

\* The inductive invariant holds throughout every behaviour.
LEMMA IInvHolds == Spec => []IInv
<1>1. Init => IInv
    BY InitIInv
<1>2. IInv /\ [Next]_vars => IInv'
    BY NextIInv
<1> QED
    BY <1>1, <1>2, PTL DEF Spec

\* Type correctness: whatever is delayed, repeated, truncated or restarted,
\* every RaftCore, WAL, message and history keeps its type.
THEOREM TypeCorrect == Spec => []TypeOK
<1>1. IInv => TypeOK
    BY DEF IInv
<1> QED
    BY <1>1, IInvHolds, PTL

\* The WAL always covers the commit index, next_log_index is at its end (or at
\* the record RaftCore refused), and the readiness gate of ensure_local_primary
\* is open.
THEOREM CommitStaysWithinWal == Spec => []CommitWithinWal
<1>1. IInv => CommitWithinWal
    <2> SUFFICES ASSUME IInv, NEW s \in Server
                 PROVE  /\ srv[s].dcommit <= Len(srv[s].wal)
                        /\ srv[s].next \in {Len(srv[s].wal), Len(srv[s].wal) + 1}
                        /\ AppliedThroughCommit(srv[s])
        BY DEF CommitWithinWal
    <2>1. Good(srv[s])
        BY DEF IInv
    <2>2. srv[s].wal \in Seq(Entry) /\ srv[s].next \in Nat /\ srv[s].dcommit \in Nat
        BY <2>1 DEF Good, ServerState
    <2> QED
        BY <2>1, <2>2 DEF Good, AppliedThroughCommit
<1> QED
    BY <1>1, IInvHolds, PTL

\* No call and no restart takes an entry back from a committed log or changes
\* one, whichever leader's entries are merged into the WAL.
THEOREM CommittedNeverRollsBack == Spec => CommittedPrefixStable
<1>1. IInv /\ IInv' /\ [Next]_vars => [CommitStep]_vars
    <2> SUFFICES ASSUME IInv, IInv', [Next]_vars, NEW s \in Server
                 PROVE  /\ srv'[s].dcommit >= srv[s].dcommit
                        /\ Take(srv'[s].wal, srv[s].dcommit) = Committed(s)
        BY DEF CommitStep
    <2>1. Evolves(srv[s], srv'[s])
        BY NextIInv DEF ServersEvolve
    <2> DEFINE d == srv[s].dcommit
               old == srv[s].wal
               new == srv'[s].wal
    <2>2. /\ d \in Nat /\ old \in Seq(Entry) /\ d <= Len(old)
          /\ srv'[s].dcommit \in Nat /\ new \in Seq(Entry) /\ srv'[s].dcommit <= Len(new)
        BY DEF IInv, Good, ServerState
    <2>3. srv'[s].dcommit >= d /\ \A i \in 1..d : new[i] = old[i]
        BY <2>1 DEF Evolves
    <2> HIDE DEF d, old, new
    <2>4. d <= Len(new)
        BY <2>2, <2>3
    <2>5. \A i \in 1..d : old[i] \in Entry /\ new[i] \in Entry
        BY <2>2, <2>4
    <2>6. /\ SubSeq(old, 1, d) \in Seq(Entry) /\ Len(SubSeq(old, 1, d)) = d
          /\ \A i \in 1..d : SubSeq(old, 1, d)[i] = old[i]
        BY <2>2, <2>5, SubSeqProperties
    <2>7. /\ SubSeq(new, 1, d) \in Seq(Entry) /\ Len(SubSeq(new, 1, d)) = d
          /\ \A i \in 1..d : SubSeq(new, 1, d)[i] = new[i]
        BY <2>2, <2>5, SubSeqProperties
    <2>8. SubSeq(new, 1, d) = SubSeq(old, 1, d)
        BY <2>3, <2>6, <2>7, SeqEqual
    <2> QED
        BY <2>3, <2>8 DEF Take, Committed, d, old, new
<1> QED
    BY <1>1, IInvHolds, PTL DEF Spec, CommittedPrefixStable

\* No call and no restart lowers a persisted term, or moves or drops the vote
\* cast in it.
THEOREM VotesAreKept == Spec => VoteStable
<1>1. IInv /\ [Next]_vars => [VoteStep]_vars
    BY NextIInv DEF ServersEvolve, Evolves, VoteStep
<1> QED
    BY <1>1, IInvHolds, PTL DEF Spec, VoteStable

-----------------------------------------------------------------------------
\* Acknowledged writes.  The invariant says of each what Evolves preserves.
AckedInv ==
    \A a \in acked : /\ a.index \in 1..srv[a.server].dcommit
                     /\ srv[a.server].wal[a.index] = a.entry

\* Evolution keeps acknowledged writes; only LeaderCommit adds one.
LEMMA NextAckedInv ==
    ASSUME IInv, AckedInv, [Next]_vars
    PROVE  AckedInv'
<1>1. IInv' /\ ServersEvolve
    BY NextIInv
<1>2. AckedNow
    <2>1. ASSUME NEW s \in Server, LeaderCommit(s) PROVE AckedNow
        BY <2>1, LeaderCommitStep
    <2>2. CASE UNCHANGED acked
        BY <2>2 DEF AckedNow
    <2> QED
        BY <2>1, <2>2 DEF Next, vars, PreVoteRound, StartElection, HandleRequestVote,
           HandleVoteResponse, ClientWrite, PublishTo, LateAppend, PublishFail,
           AnnounceCommit, Heartbeat, Pump, CatchUp, Restart
<1>3. ASSUME NEW a \in acked
      PROVE  /\ a.index \in 1..srv'[a.server].dcommit
             /\ srv'[a.server].wal[a.index] = a.entry
    <2>1. a.server \in Server
        BY DEF IInv, TypeOK
    <2>2. Evolves(srv[a.server], srv'[a.server]) /\ Good(srv[a.server])
        BY <1>1, <2>1 DEF ServersEvolve, IInv
    <2>3. srv[a.server].dcommit \in Nat /\ srv'[a.server].dcommit \in Nat
        BY <2>2 DEF Evolves, Good, ServerState
    <2> QED
        BY <2>2, <2>3 DEF AckedInv, Evolves
<1> QED
    BY <1>2, <1>3 DEF AckedInv, AckedNow

\* A write acknowledged to a client stays in the committed log of the server
\* that acknowledged it, at its index, for good.
THEOREM AckedWritesStay == Spec => []AckedStaysCommitted
<1>1. Init => AckedInv
    BY DEF Init, AckedInv
<1>2. IInv /\ AckedInv /\ [Next]_vars => AckedInv'
    BY NextAckedInv
<1>3. IInv /\ AckedInv => AckedStaysCommitted
    <2> SUFFICES ASSUME IInv, AckedInv, NEW a \in acked
                 PROVE  /\ a.index <= srv[a.server].dcommit
                        /\ srv[a.server].wal[a.index] = a.entry
        BY DEF AckedStaysCommitted
    <2> QED
        BY DEF AckedInv
<1> QED
    BY <1>1, <1>2, <1>3, IInvHolds, PTL DEF Spec

-----------------------------------------------------------------------------
\* Election safety.  A vote granted binds the voter while it is in that term,
\* so a voter has one candidate per term; ballots and granted responses are
\* votes granted; and every election was won with a majority of them.
VoteOf(t, v, c) == [term |-> t, voter |-> v, cand |-> c]

VotesBind ==
    \A g \in granted :
        /\ g.term <= srv[g.voter].term
        /\ g.term = srv[g.voter].term => srv[g.voter].vote = g.cand

OneVotePerTerm ==
    \A g, h \in granted : g.term = h.term /\ g.voter = h.voter => g.cand = h.cand

BallotsGranted ==
    \A s \in Server : srv[s].role = "Candidate" =>
        \A v \in srv[s].votes : VoteOf(srv[s].term, v, s) \in granted

ResponsesGranted ==
    \A m \in responses : m.granted => VoteOf(m.term, m.voter, m.cand) \in granted

ElectedByMajority ==
    \A e \in elected : \E Q \in SUBSET Server :
        HasQuorum(Q) /\ \A v \in Q : VoteOf(e.term, v, e.server) \in granted

VoteInv ==
    VotesBind /\ OneVotePerTerm /\ BallotsGranted /\ ResponsesGranted /\ ElectedByMajority

\* Votes granted earlier bind their voters across every step.
LEMMA OldVotesBind ==
    ASSUME IInv, VotesBind, ServersEvolve, NEW g \in granted
    PROVE  /\ g.term <= srv'[g.voter].term
           /\ g.term = srv'[g.voter].term => srv'[g.voter].vote = g.cand
<1>1. g.term \in Nat /\ g.voter \in Server /\ g.cand \in Server
    BY DEF IInv, TypeOK
<1>2. Good(srv[g.voter]) /\ Evolves(srv[g.voter], srv'[g.voter])
    BY <1>1 DEF IInv, ServersEvolve
<1>3. srv[g.voter].term \in Nat /\ srv'[g.voter].term \in Nat
    BY <1>2 DEF Evolves, Good, ServerState
<1>4. g.cand # None
    BY <1>1, NoneAssumption
<1> QED
    BY <1>2, <1>3, <1>1, <1>4 DEF VotesBind, Evolves

\* A new vote that its voter is bound by agrees with the earlier ones.
LEMMA NewVoteBinds ==
    ASSUME IInv, VotesBind, OneVotePerTerm, ServersEvolve, NEW g,
           granted' \subseteq granted \cup {g},
           srv'[g.voter].term = g.term, srv'[g.voter].vote = g.cand, g.term \in Nat
    PROVE  VotesBind' /\ OneVotePerTerm'
<1>1. VotesBind'
    BY OldVotesBind DEF VotesBind
<1>2. \A h \in granted : h.term = g.term /\ h.voter = g.voter => h.cand = g.cand
    BY OldVotesBind
<1>3. OneVotePerTerm'
    BY <1>2 DEF OneVotePerTerm
<1> QED
    BY <1>1, <1>3

\* What was granted stays granted, so elections stay justified.
LEMMA ElectedStays ==
    ASSUME ElectedByMajority, granted \subseteq granted', UNCHANGED elected
    PROVE  ElectedByMajority'
<1> SUFFICES ASSUME NEW e \in elected
             PROVE  \E Q \in SUBSET Server :
                       HasQuorum(Q) /\ \A v \in Q : VoteOf(e.term, v, e.server) \in granted'
    BY DEF ElectedByMajority
<1>1. PICK Q \in SUBSET Server :
         HasQuorum(Q) /\ \A v \in Q : VoteOf(e.term, v, e.server) \in granted
    BY DEF ElectedByMajority
<1> QED
    BY <1>1

\* Steps outside elections keep the invariant.
LEMMA QuietVoteInv ==
    ASSUME IInv, VoteInv, ServersEvolve, Quiet, UNCHANGED <<granted, elected, responses>>
    PROVE  VoteInv'
<1>1. VotesBind'
    BY OldVotesBind DEF VotesBind, VoteInv
<1>2. OneVotePerTerm' /\ ResponsesGranted'
    BY DEF OneVotePerTerm, ResponsesGranted, VoteInv
<1>3. ElectedByMajority'
    BY ElectedStays DEF VoteInv
<1>4. BallotsGranted'
    BY DEF BallotsGranted, VoteInv, Quiet, NotVoting
<1> QED
    BY <1>1, <1>2, <1>3, <1>4 DEF VoteInv

\* start_raft_election: a vote in a term no earlier vote was cast in.
LEMMA StartElectionVoteInv ==
    ASSUME IInv, VoteInv, NEW s \in Server, StartElection(s)
    PROVE  VoteInv'
<1> DEFINE r == Campaign(srv[s], s)
           g == VoteOf(r.term, s, s)
<1>1. IInv' /\ ServersEvolve
    BY StartElectionStep
<1>2. CASE UNCHANGED <<srv, requests, responses, granted>>
    <2>1. UNCHANGED <<granted, elected, responses>>
        BY <1>2 DEF StartElection
    <2>2. Quiet
        BY <1>2, EvolvesRefl DEF IInv, Quiet
    <2> QED
        BY <1>1, <2>1, <2>2, QuietVoteInv
<1>3. CASE ~UNCHANGED <<srv, requests, responses, granted>>
    <2>1. /\ Set(s, r)
          /\ responses' = {m \in responses : m.cand # s}
          /\ granted' = granted \cup {g}
          /\ UNCHANGED elected
        BY <1>3 DEF StartElection, VoteOf
    <2>2. Evolves(srv[s], r) /\ r \in ServerState /\ r.vote = s /\ r.votes = {s}
        BY CampaignEvolves DEF IInv, Evolves, Good
    <2>3. g.term = r.term /\ g.voter = s /\ g.cand = s
        BY DEF VoteOf
    <2>4. srv'[s] = r /\ \A x \in Server : x # s => srv'[x] = srv[x]
        BY <2>1, <2>2, SetEvolves
    <2> HIDE DEF r, g
    <2>5. VotesBind' /\ OneVotePerTerm'
        <3>1. g.term \in Nat
            BY <2>2, <2>3 DEF ServerState
        <3> QED
            BY <1>1, <2>1, <2>2, <2>3, <2>4, <3>1, NewVoteBinds DEF VoteInv
    <2>6. ResponsesGranted'
        BY <2>1 DEF VoteInv, ResponsesGranted
    <2>7. ElectedByMajority'
        BY <2>1, ElectedStays DEF VoteInv
    <2>8. BallotsGranted'
        BY <2>1, <2>2, <2>4 DEF VoteInv, BallotsGranted, g
    <2> QED
        BY <2>5, <2>6, <2>7, <2>8 DEF VoteInv
<1> QED
    BY <1>2, <1>3

\* request_raft_vote: a granted vote is the voter's only one in the term.
LEMMA HandleRequestVoteVoteInv ==
    ASSUME IInv, VoteInv, NEW p \in Server, NEW m \in requests, HandleRequestVote(p, m)
    PROVE  VoteInv'
<1> DEFINE after == RequestVote(srv[p], m)
           yes == VoteGranted(srv[p], m)
           g == VoteOf(m.term, p, m.cand)
           answer == [cand |-> m.cand, voter |-> p, term |-> after.term, granted |-> yes]
<1>1. IInv' /\ ServersEvolve
    BY HandleRequestVoteStep
<1>2. m.term \in Nat /\ m.cand \in Server
    BY DEF IInv, TypeOK
<1>3. /\ Evolves(srv[p], after)
      /\ yes => after.term = m.term /\ after.vote = m.cand
      /\ after.role = "Candidate" => /\ after.role = srv[p].role /\ after.term = srv[p].term
                                     /\ after.votes = srv[p].votes
    BY <1>2, RequestVoteEvolves DEF IInv
<1>4. /\ Set(p, after)
      /\ responses' \subseteq responses \cup {answer}
      /\ granted' = IF yes THEN granted \cup {g} ELSE granted
      /\ UNCHANGED elected
    BY DEF HandleRequestVote, VoteOf
<1>5. g.term = m.term /\ g.voter = p /\ g.cand = m.cand
    BY DEF VoteOf
<1>6. answer.granted = yes /\ VoteOf(answer.term, answer.voter, answer.cand) =
                                VoteOf(after.term, p, m.cand)
    OBVIOUS
<1>7. yes \in BOOLEAN
    BY DEF VoteGranted
<1> HIDE DEF after, yes, answer
<1>8. srv'[p] = after /\ \A x \in Server : x # p => srv'[x] = srv[x]
    BY <1>3, <1>4, SetEvolves
<1>9. granted \subseteq granted'
    BY <1>4
<1>10. VotesBind' /\ OneVotePerTerm'
    <2>1. CASE yes
        <3> HIDE DEF g
        <3> QED
            BY <1>1, <1>2, <1>3, <1>4, <1>5, <1>8, <2>1, NewVoteBinds DEF VoteInv
    <2>2. CASE ~yes
        BY <1>1, <1>4, <2>2, OldVotesBind DEF VoteInv, VotesBind, OneVotePerTerm
    <2> QED
        BY <2>1, <2>2
<1>11. ResponsesGranted'
    <2> SUFFICES ASSUME NEW x \in responses', x.granted
                 PROVE  VoteOf(x.term, x.voter, x.cand) \in granted'
        BY DEF ResponsesGranted
    <2>1. CASE x \in responses
        BY <1>9, <2>1 DEF VoteInv, ResponsesGranted
    <2>2. CASE x = answer
        <3>1. yes
            BY <1>6, <2>2
        <3> QED
            BY <1>3, <1>4, <1>6, <2>2, <3>1
    <2> QED
        BY <1>4, <2>1, <2>2
<1>12. ElectedByMajority'
    BY <1>4, <1>9, ElectedStays DEF VoteInv
<1>13. BallotsGranted'
    BY <1>3, <1>8, <1>9 DEF VoteInv, BallotsGranted
<1> QED
    BY <1>10, <1>11, <1>12, <1>13 DEF VoteInv

\* record_raft_vote_response: only granted votes of the candidate's term are
\* counted, and a majority of them elects.
LEMMA HandleVoteResponseVoteInv ==
    ASSUME IInv, VoteInv, NEW s \in Server, NEW m \in responses, HandleVoteResponse(s, m)
    PROVE  VoteInv'
<1> DEFINE r == srv[s]
           after == RecordVote(r, s, m)
           win == WinsElection(r, s, m)
           ballots == Counted(r, m)
<1>1. IInv' /\ ServersEvolve
    BY HandleVoteResponseStep
<1>2. /\ m.term \in Nat /\ m.voter \in Server /\ m.granted \in BOOLEAN
      /\ r.votes \in SUBSET Server /\ Good(r)
    BY DEF IInv, TypeOK, Good, ServerState
<1>3. /\ Evolves(r, after)
      /\ after.role = "Candidate" =>
            /\ r.role = "Candidate" /\ after.term = r.term
            /\ after.votes = r.votes \/ (m.term = r.term /\ after.votes = ballots)
      /\ win => r.role = "Candidate" /\ m.term = r.term /\ HasQuorum(ballots)
    BY <1>2, RecordVoteEvolves
<1>4. /\ Set(s, after) /\ m.cand = s
      /\ responses' \subseteq responses /\ UNCHANGED granted
      /\ elected' = IF win THEN elected \cup {[term |-> m.term, server |-> s]} ELSE elected
    BY DEF HandleVoteResponse
<1> HIDE DEF after, win
<1>5. srv'[s] = after /\ \A x \in Server : x # s => srv'[x] = srv[x]
    BY <1>3, <1>4, SetEvolves
<1>6. r.role = "Candidate" /\ m.term = r.term =>
         \A v \in ballots : VoteOf(r.term, v, s) \in granted
    BY <1>4 DEF VoteInv, BallotsGranted, ResponsesGranted, Counted
<1>7. VotesBind' /\ OneVotePerTerm' /\ ResponsesGranted'
    BY <1>1, <1>4, OldVotesBind DEF VoteInv, VotesBind, OneVotePerTerm, ResponsesGranted
<1>8. BallotsGranted'
    <2> SUFFICES ASSUME NEW x \in Server, srv'[x].role = "Candidate", NEW v \in srv'[x].votes
                 PROVE  VoteOf(srv'[x].term, v, x) \in granted
        BY <1>4 DEF BallotsGranted
    <2>1. CASE x # s
        BY <1>5, <2>1 DEF VoteInv, BallotsGranted
    <2>2. CASE x = s
        <3>1. r.role = "Candidate" /\ srv'[x].term = r.term
            BY <1>3, <1>5, <2>2
        <3>2. CASE v \in r.votes
            BY <2>2, <3>1, <3>2 DEF VoteInv, BallotsGranted
        <3>3. CASE m.term = r.term /\ v \in ballots
            BY <1>6, <2>2, <3>1, <3>3
        <3> QED
            BY <1>3, <1>5, <2>2, <3>2, <3>3
    <2> QED
        BY <2>1, <2>2
<1>9. ElectedByMajority'
    <2> SUFFICES ASSUME NEW e \in elected'
                 PROVE  \E Q \in SUBSET Server :
                           HasQuorum(Q) /\ \A v \in Q : VoteOf(e.term, v, e.server) \in granted
        BY <1>4 DEF ElectedByMajority
    <2>1. CASE e \in elected
        BY <2>1 DEF VoteInv, ElectedByMajority
    <2>2. CASE win /\ e = [term |-> m.term, server |-> s]
        <3>1. ballots \in SUBSET Server
            BY <1>2 DEF Counted
        <3>2. e.term = r.term /\ e.server = s
            BY <1>3, <2>2
        <3>3. HasQuorum(ballots) /\ \A v \in ballots : VoteOf(e.term, v, e.server) \in granted
            BY <1>3, <1>6, <2>2, <3>2
        <3> HIDE DEF ballots
        <3> QED
            BY <3>1, <3>3
    <2> QED
        BY <1>4, <2>1, <2>2
<1> QED
    BY <1>7, <1>8, <1>9 DEF VoteInv

\* Reopening keeps the persisted vote; the primary of term 0 votes for itself.
LEMMA RestartVoteInv ==
    ASSUME IInv, VoteInv, NEW s \in Server, Restart(s)
    PROVE  VoteInv'
<1> DEFINE after == Reopened(srv[s], s)
           own == s = Primary /\ srv[s].term = 0
           g == VoteOf(1, s, s)
<1>1. IInv' /\ ServersEvolve
    BY RestartStep
<1>2. /\ Evolves(srv[s], after) /\ after.role # "Candidate"
      /\ own => after.term = 1 /\ after.vote = s
    BY ReopenedEvolves DEF IInv
<1>3. /\ Set(s, after) /\ responses' \subseteq responses /\ UNCHANGED elected
      /\ granted' = granted \cup (IF own THEN {g} ELSE {})
    BY DEF Restart, SelfVote, VoteOf
<1>4. g.term = 1 /\ g.voter = s /\ g.cand = s
    BY DEF VoteOf
<1> HIDE DEF after
<1>5. srv'[s] = after /\ \A x \in Server : x # s => srv'[x] = srv[x]
    BY <1>2, <1>3, SetEvolves
<1>6. granted \subseteq granted'
    BY <1>3
<1>7. VotesBind' /\ OneVotePerTerm'
    <2>1. CASE own
        <3>1. granted' \subseteq granted \cup {g}
            BY <1>3
        <3>2. srv'[g.voter].term = g.term /\ srv'[g.voter].vote = g.cand /\ g.term \in Nat
            BY <1>2, <1>4, <1>5, <2>1
        <3> HIDE DEF g
        <3> QED
            BY <1>1, <3>1, <3>2, NewVoteBinds DEF VoteInv
    <2>2. CASE ~own
        BY <1>1, <1>3, <2>2, OldVotesBind DEF VoteInv, VotesBind, OneVotePerTerm
    <2> QED
        BY <2>1, <2>2
<1>8. ResponsesGranted'
    BY <1>3, <1>6 DEF VoteInv, ResponsesGranted
<1>9. ElectedByMajority'
    BY <1>3, <1>6, ElectedStays DEF VoteInv
<1>10. BallotsGranted'
    BY <1>2, <1>5, <1>6 DEF VoteInv, BallotsGranted
<1> QED
    BY <1>7, <1>8, <1>9, <1>10 DEF VoteInv

\* The only vote before the first step is the primary's own.
LEMMA InitVoteInv ==
    ASSUME Init
    PROVE  VoteInv
<1>1. Good(Fresh) /\ Fresh.role # "Candidate" /\ Fresh.term = 0
    BY FreshGood DEF Fresh
<1>2. \A s \in Server : /\ srv[s].role # "Candidate"
                        /\ s = Primary => srv[s].term = 1 /\ srv[s].vote = s
    BY <1>1, OpenedEvolves DEF Init
<1>3. granted = UNION {SelfVote(Fresh, s) : s \in Server}
    BY DEF Init
<1>4. \A g \in granted : g = VoteOf(1, Primary, Primary)
    BY <1>3 DEF SelfVote, VoteOf
<1>5. VotesBind
    <2> SUFFICES ASSUME NEW g \in granted
                 PROVE  /\ g.term <= srv[g.voter].term
                        /\ g.term = srv[g.voter].term => srv[g.voter].vote = g.cand
        BY DEF VotesBind
    <2>1. g.term = 1 /\ g.voter = Primary /\ g.cand = Primary
        BY <1>4 DEF VoteOf
    <2> QED
        BY <1>2, <2>1, ServerAssumption
<1>6. OneVotePerTerm
    BY <1>4 DEF OneVotePerTerm
<1>7. BallotsGranted /\ ResponsesGranted /\ ElectedByMajority
    BY <1>2 DEF Init, BallotsGranted, ResponsesGranted, ElectedByMajority
<1> QED
    BY <1>5, <1>6, <1>7 DEF VoteInv

\* Every step keeps the vote invariant.
LEMMA NextVoteInv ==
    ASSUME IInv, VoteInv, [Next]_vars
    PROVE  VoteInv'
<1>1. CASE UNCHANGED vars
    <2>1. ServersEvolve /\ Quiet
        BY <1>1, SrvUnchanged DEF vars
    <2> QED
        BY <1>1, <2>1, QuietVoteInv DEF vars
<1>2. ASSUME NEW s \in Server, PreVoteRound(s) PROVE VoteInv'
    BY <1>2, PreVoteRoundStep, QuietVoteInv DEF PreVoteRound
<1>3. ASSUME NEW s \in Server, NEW v \in Value, ClientWrite(s, v) PROVE VoteInv'
    <2>1. UNCHANGED <<granted, elected, responses>>
        BY <1>3 DEF ClientWrite
    <2> QED
        BY <1>3, <2>1, ClientWriteStep, QuietVoteInv
<1>4. ASSUME NEW s \in Server, NEW p \in Server, PublishTo(s, p) PROVE VoteInv'
    BY <1>4, PublishToStep, QuietVoteInv DEF PublishTo
<1>5. ASSUME NEW p \in Server, NEW m \in published, LateAppend(p, m) PROVE VoteInv'
    BY <1>5, LateAppendStep, QuietVoteInv DEF LateAppend
<1>6. ASSUME NEW s \in Server, PublishFail(s) PROVE VoteInv'
    BY <1>6, PublishFailStep, QuietVoteInv DEF PublishFail
<1>7. ASSUME NEW s \in Server, AnnounceCommit(s) PROVE VoteInv'
    BY <1>7, AnnounceCommitStep, QuietVoteInv DEF AnnounceCommit
<1>8. ASSUME NEW s \in Server, LeaderCommit(s) PROVE VoteInv'
    <2>1. UNCHANGED <<granted, elected, responses>>
        BY <1>8 DEF LeaderCommit
    <2> QED
        BY <1>8, <2>1, LeaderCommitStep, QuietVoteInv
<1>9. ASSUME NEW p \in Server, Heartbeat(p) PROVE VoteInv'
    BY <1>9, HeartbeatStep, QuietVoteInv DEF Heartbeat
<1>10. ASSUME NEW s \in Server, NEW p \in Server, Pump(s, p) PROVE VoteInv'
    BY <1>10, PumpStep, QuietVoteInv DEF Pump
<1>11. ASSUME NEW p \in Server, CatchUp(p) PROVE VoteInv'
    BY <1>11, CatchUpStep, QuietVoteInv DEF CatchUp
<1> QED
    BY <1>1, <1>2, <1>3, <1>4, <1>5, <1>6, <1>7, <1>8, <1>9, <1>10, <1>11,
       StartElectionVoteInv, HandleRequestVoteVoteInv, HandleVoteResponseVoteInv,
       RestartVoteInv DEF Next

\* Two majorities of the placement share a server, and that server gave its one
\* vote of the term to one candidate.
LEMMA MajorityElectsOne ==
    ASSUME VoteInv, IInv
    PROVE  OneElectedPerTerm
<1> SUFFICES ASSUME NEW a \in elected, NEW b \in elected, a.term = b.term
             PROVE  a.server = b.server
    BY DEF OneElectedPerTerm
<1>1. PICK A \in SUBSET Server :
         HasQuorum(A) /\ \A v \in A : VoteOf(a.term, v, a.server) \in granted
    BY DEF VoteInv, ElectedByMajority
<1>2. PICK B \in SUBSET Server :
         HasQuorum(B) /\ \A v \in B : VoteOf(b.term, v, b.server) \in granted
    BY DEF VoteInv, ElectedByMajority
<1>3. A \cap Server = A /\ B \cap Server = B
    OBVIOUS
<1>4. IsFiniteSet(Server) /\ IsFiniteSet(A) /\ IsFiniteSet(B)
    BY ServerAssumption, FS_Subset
<1>5. Cardinality(A) \in Nat /\ Cardinality(B) \in Nat /\ Cardinality(Server) \in Nat
    BY <1>4, FS_CardinalityType
<1>6. Cardinality(A) + Cardinality(B) > Cardinality(Server)
    <2>1. /\ 2 * Cardinality(A \cap Server) > Cardinality(Server)
          /\ 2 * Cardinality(B \cap Server) > Cardinality(Server)
        BY <1>1, <1>2 DEF HasQuorum
    <2>2. 2 * Cardinality(A) > Cardinality(Server) /\ 2 * Cardinality(B) > Cardinality(Server)
        BY <1>3, <2>1, Zenon
    <2> QED
        BY <1>5, <2>2
<1>7. PICK v \in A \cap B : TRUE
    <2>1. A \subseteq Server /\ B \subseteq Server
        OBVIOUS
    <2>2. A \cap B # {}
        BY <1>4, <1>6, <2>1, FS_MajoritiesIntersect
    <2> QED
        BY <2>2
<1>8. VoteOf(a.term, v, a.server) \in granted /\ VoteOf(a.term, v, b.server) \in granted
    BY <1>1, <1>2, <1>7
<1> DEFINE g == VoteOf(a.term, v, a.server)
           h == VoteOf(a.term, v, b.server)
<1>9. g.term = h.term /\ g.voter = h.voter /\ g.cand = a.server /\ h.cand = b.server
    BY DEF VoteOf
<1> HIDE DEF g, h
<1>10. g \in granted /\ h \in granted
    BY <1>8 DEF g, h
<1> QED
    BY <1>9, <1>10 DEF VoteInv, OneVotePerTerm

\* Election safety of the voting protocol: no two servers win the same term by
\* votes, for every cluster size, whatever is delayed, repeated or restarted.
THEOREM ElectionSafety == Spec => []OneElectedPerTerm
<1>1. Init => VoteInv
    BY InitVoteInv
<1>2. IInv /\ VoteInv /\ [Next]_vars => VoteInv'
    BY NextVoteInv
<1>3. IInv /\ VoteInv => OneElectedPerTerm
    BY MajorityElectsOne
<1> QED
    BY <1>1, <1>2, <1>3, IInvHolds, PTL DEF Spec

-----------------------------------------------------------------------------
(***************************************************************************)
(* RaftCore's own fence.  RaftCore truncates and extends its log by code   *)
(* that shares nothing with the WAL's: in the life of one process, none of *)
(* its calls lowers RaftCore's commit index or changes an entry that it    *)
(* covers.                                                                 *)
(***************************************************************************)

\* RaftCore's commit index lies within its log.
CoreOK(r) == r.rcommit <= Len(r.log)

\* What a call does to RaftCore's log: the committed part only grows.
KeepsCore(r, q) ==
    /\ CoreOK(q)
    /\ q.rcommit >= r.rcommit
    /\ \A i \in 1..r.rcommit : q.log[i] = r.log[i]

\* A call that leaves RaftCore's log and commit index alone.
SameCore(r, q) == q.log = r.log /\ q.rcommit = r.rcommit

\* The part of a server's state these proofs are about has its type.
LEMMA CoreType ==
    ASSUME NEW r, Good(r)
    PROVE  r \in ServerState /\ r.log \in Seq(Entry) /\ Len(r.log) \in Nat /\ r.rcommit \in Nat
BY DEF Good, ServerState

\* A call that does not touch RaftCore's log keeps its committed part.
LEMMA SameCoreKeeps ==
    ASSUME NEW r, NEW q, Good(r), CoreOK(r), SameCore(r, q)
    PROVE  KeepsCore(r, q)
<1>1. r.rcommit \in Nat
    BY CoreType
<1> QED
    BY <1>1 DEF SameCore, KeepsCore, CoreOK

\* Calls compose.
LEMMA KeepsCoreTrans ==
    ASSUME NEW r, NEW q, NEW u, Good(r), Good(q), Good(u), KeepsCore(r, q), KeepsCore(q, u)
    PROVE  KeepsCore(r, u)
<1>1. r.rcommit \in Nat /\ q.rcommit \in Nat /\ u.rcommit \in Nat
    BY CoreType
<1> QED
    BY <1>1 DEF KeepsCore

\* A new log that keeps the committed part, with a commit index within it.
LEMMA WithLogKeeps ==
    ASSUME NEW r, Good(r), NEW log \in Seq(Entry), NEW c \in Nat,
           c >= r.rcommit, c <= Len(log), \A i \in 1..r.rcommit : log[i] = r.log[i]
    PROVE  KeepsCore(r, WithLog(r, log, c))
<1>1. WithLog(r, log, c).log = log /\ WithLog(r, log, c).rcommit = c
    BY CoreType DEF WithLog, ServerState
<1> QED
    BY <1>1 DEF KeepsCore, CoreOK

\* The committed part of a log survives a cut above the commit index.
LEMMA CutKeeps ==
    ASSUME NEW log \in Seq(Entry), NEW cut \in 1..Len(log), NEW c \in Nat, c < cut
    PROVE  /\ SubSeq(log, 1, cut - 1) \in Seq(Entry)
           /\ Len(SubSeq(log, 1, cut - 1)) = cut - 1
           /\ \A i \in 1..c : SubSeq(log, 1, cut - 1)[i] = log[i]
<1>1. \A i \in 1..(cut - 1) : log[i] \in Entry
    OBVIOUS
<1>2. /\ SubSeq(log, 1, cut - 1) \in Seq(Entry)
      /\ Len(SubSeq(log, 1, cut - 1)) = cut - 1
      /\ \A i \in 1..(cut - 1) : SubSeq(log, 1, cut - 1)[i] = log[i]
    BY <1>1, SubSeqProperties
<1> QED
    BY <1>2

-----------------------------------------------------------------------------
\* One lemma per call.  Elections leave the log alone.
LEMMA StepDownCore ==
    ASSUME NEW r, Good(r), NEW t \in Nat
    PROVE  SameCore(r, StepDown(r, t))
BY CoreType DEF StepDown, SameCore, ServerState

\* start_election leaves the log alone.
LEMMA CampaignCore ==
    ASSUME NEW r, Good(r), NEW s \in Server
    PROVE  SameCore(r, Campaign(r, s))
BY CoreType DEF Campaign, SameCore, ServerState

\* become_leader leaves the log alone.
LEMMA BecomeLeaderCore ==
    ASSUME NEW r, r \in ServerState, NEW s \in Server
    PROVE  SameCore(r, BecomeLeader(r, s))
<1> DEFINE match == [v \in Server |-> IF v = s THEN LastIndex(r) ELSE 0]
<1>1. BecomeLeader(r, s) = [r EXCEPT !.role = "Leader", !.votes = {}, !.match = match]
    BY DEF BecomeLeader
<1> HIDE DEF match
<1> QED
    BY <1>1 DEF SameCore, ServerState

\* request_vote leaves the log alone.
LEMMA RequestVoteCore ==
    ASSUME NEW r, Good(r), NEW m, m.term \in Nat
    PROVE  SameCore(r, RequestVote(r, m))
<1> DEFINE mid == IF m.term > r.term THEN StepDown(r, m.term) ELSE r
<1>1. SameCore(r, mid) /\ mid \in ServerState
    BY StepDownCore, StepDownEvolves DEF SameCore, Evolves, Good
<1>2. RequestVote(r, m) = IF VoteGranted(r, m) THEN [mid EXCEPT !.vote = m.cand] ELSE mid
    BY DEF RequestVote
<1> HIDE DEF mid
<1> QED
    BY <1>1, <1>2 DEF SameCore, ServerState

\* record_vote_response leaves the log alone.
LEMMA RecordVoteCore ==
    ASSUME NEW r, Good(r), NEW s \in Server, NEW m, m.term \in Nat, m.voter \in Server
    PROVE  SameCore(r, RecordVote(r, s, m))
<1> DEFINE counted == [r EXCEPT !.votes = IF m.granted THEN @ \cup {m.voter} ELSE @]
<1>1. r \in ServerState
    BY CoreType
<1>2. counted = [r EXCEPT !.votes = Counted(r, m)]
    BY DEF Counted
<1>3. Counted(r, m) \in SUBSET Server
    BY <1>1 DEF Counted, ServerState
<1>4. counted \in ServerState /\ SameCore(r, counted)
    BY <1>1, <1>2, <1>3 DEF ServerState, SameCore
<1>5. RecordVote(r, s, m) \in {StepDown(r, m.term), r, BecomeLeader(counted, s), counted}
    BY DEF RecordVote
<1> HIDE DEF counted
<1>6. SameCore(r, BecomeLeader(counted, s))
    BY <1>4, BecomeLeaderCore DEF SameCore
<1>7. SameCore(r, StepDown(r, m.term))
    BY StepDownCore
<1> QED
    BY <1>4, <1>5, <1>6, <1>7 DEF SameCore

\* truncate_from above the commit index.
LEMMA TruncateFromCore ==
    ASSUME NEW r, Good(r), NEW index \in 1..Len(r.log), index > r.rcommit
    PROVE  KeepsCore(r, TruncateFrom(r, index))
<1>1. r \in ServerState /\ r.log \in Seq(Entry) /\ r.rcommit \in Nat
    BY CoreType
<1> DEFINE log == SubSeq(r.log, 1, index - 1)
<1>2. log \in Seq(Entry) /\ Len(log) = index - 1 /\ \A i \in 1..r.rcommit : log[i] = r.log[i]
    BY <1>1, CutKeeps
<1>3. MinOf(r.rcommit, index - 1) = r.rcommit
    BY <1>1 DEF MinOf
<1>4. TruncateFrom(r, index) = WithLog(r, log, r.rcommit)
    BY <1>3 DEF TruncateFrom, Take, WithLog
<1> HIDE DEF log
<1>5. r.rcommit >= r.rcommit /\ r.rcommit <= Len(log)
    BY <1>1, <1>2
<1> QED
    BY <1>1, <1>2, <1>4, <1>5, WithLogKeeps

\* The entry loop of append_entries, once the fence let it through.
LEMMA RaftMergeCore ==
    ASSUME NEW r, Good(r), CoreOK(r), NEW prev \in Nat, prev <= Len(r.log),
           NEW es \in Seq(Entry), ~RaftFenced(r, prev, es)
    PROVE  KeepsCore(r, RaftMerge(r, prev, es))
<1> DEFINE bad == Conflicts(r.log, prev, es)
           cut == prev + Least(bad)
           mid == TruncateFrom(r, cut)
<1>1. /\ r \in ServerState /\ r.log \in Seq(Entry) /\ r.rcommit \in Nat
      /\ Len(r.log) \in Nat /\ r.rcommit <= Len(r.log)
    BY CoreType DEF CoreOK
<1>2. CASE bad = {}
    <2> DEFINE tail == SubSeq(es, Len(r.log) - prev + 1, Len(es))
               log == r.log \o tail
    <2>1. tail \in Seq(Entry)
        BY <1>1, TailType
    <2>2. RaftMerge(r, prev, es) = WithLog(r, log, r.rcommit)
        BY <1>1, <1>2 DEF WithLog, RaftMerge, ServerState
    <2> HIDE DEF tail
    <2>3. /\ log \in Seq(Entry) /\ Len(log) = Len(r.log) + Len(tail) /\ Len(tail) \in Nat
          /\ \A i \in 1..Len(r.log) : log[i] = r.log[i]
        BY <1>1, <2>1, ConcatKeeps
    <2> HIDE DEF log
    <2>4. /\ r.rcommit >= r.rcommit /\ r.rcommit <= Len(log)
          /\ \A i \in 1..r.rcommit : log[i] = r.log[i]
        BY <1>1, <2>3
    <2> QED
        BY <1>1, <2>2, <2>3, <2>4, WithLogKeeps
<1>3. CASE bad # {}
    <2>1. Least(bad) \in 1..Len(es) /\ cut \in 1..Len(r.log)
        BY <1>1, <1>3, ConflictPosition
    <2>2. ~(cut <= r.rcommit)
        BY <1>3 DEF RaftFenced
    <2> DEFINE tail == SubSeq(es, Least(bad), Len(es))
               head == SubSeq(r.log, 1, cut - 1)
               log == head \o tail
    <2>3. tail \in Seq(Entry)
        BY <2>1, TailType
    <2>4. RaftMerge(r, prev, es) = [mid EXCEPT !.log = mid.log \o tail]
        BY <1>3 DEF RaftMerge
    <2> HIDE DEF bad
    <2>5. head \in Seq(Entry) /\ Len(head) = cut - 1 /\ \A i \in 1..r.rcommit : head[i] = r.log[i]
        BY <1>1, <2>1, <2>2, CutKeeps
    <2>6. MinOf(r.rcommit, cut - 1) = r.rcommit
        BY <1>1, <2>1, <2>2 DEF MinOf
    <2>7. mid = [r EXCEPT !.log = head, !.rcommit = r.rcommit]
        BY <2>6 DEF TruncateFrom, Take
    <2>8. RaftMerge(r, prev, es) = WithLog(r, log, r.rcommit)
        BY <1>1, <2>4, <2>7 DEF WithLog, ServerState
    <2> HIDE DEF head, tail, cut
    <2>9. /\ log \in Seq(Entry) /\ Len(log) = Len(head) + Len(tail) /\ Len(tail) \in Nat
          /\ \A i \in 1..Len(head) : log[i] = head[i]
        BY <2>3, <2>5, ConcatKeeps
    <2> HIDE DEF log
    <2>10. /\ r.rcommit >= r.rcommit /\ r.rcommit <= Len(log)
           /\ \A i \in 1..r.rcommit : log[i] = r.log[i]
        BY <1>1, <2>1, <2>2, <2>5, <2>9
    <2> QED
        BY <1>1, <2>8, <2>9, <2>10, WithLogKeeps
<1> QED
    BY <1>2, <1>3

\* leader_commit is followed no further than the log reaches.
LEMMA ObserveCommitCore ==
    ASSUME NEW r, Good(r), CoreOK(r), NEW commit \in Nat
    PROVE  KeepsCore(r, ObserveCommit(r, commit))
<1>1. /\ r \in ServerState /\ r.log \in Seq(Entry) /\ r.rcommit \in Nat
      /\ Len(r.log) \in Nat /\ r.rcommit <= Len(r.log)
    BY CoreType DEF CoreOK
<1> DEFINE c == MinOf(commit, Len(r.log))
<1>2. CASE commit > r.rcommit
    <2>1. c \in Nat /\ c >= r.rcommit /\ c <= Len(r.log)
        BY <1>1, <1>2 DEF MinOf
    <2>2. ObserveCommit(r, commit) = WithLog(r, r.log, c)
        BY <1>1, <1>2 DEF WithLog, ObserveCommit, ServerState
    <2> HIDE DEF c
    <2> QED
        BY <1>1, <2>1, <2>2, WithLogKeeps
<1>3. CASE ~(commit > r.rcommit)
    BY <1>3, SameCoreKeeps DEF ObserveCommit, SameCore
<1> QED
    BY <1>2, <1>3

\* append_entries as a whole: a previous entry of another term is cut away only
\* above the commit index, and a conflict below it refuses the call.
LEMMA RaftAppendCore ==
    ASSUME NEW r, Good(r), CoreOK(r), NEW t \in Nat, NEW prev \in Nat, NEW prevTerm \in Nat,
           NEW es \in Seq(Entry), NEW commit \in Nat
    PROVE  KeepsCore(r, RaftAppend(r, t, prev, prevTerm, es, commit).r)
<1> DEFINE here == IF t > r.term \/ r.role # "Follower" THEN StepDown(r, t) ELSE r
           cutHere == TruncateFrom(here, prev)
           merged == RaftMerge(here, prev, es)
           done == ObserveCommit(merged, commit)
           q == RaftAppend(r, t, prev, prevTerm, es, commit).r
<1>1. r \in ServerState /\ r.log \in Seq(Entry) /\ Len(r.log) \in Nat /\ r.rcommit \in Nat
    BY CoreType
<1>2. KeepsCore(r, r)
    BY SameCoreKeeps DEF SameCore
<1>3. SameCore(r, here) /\ Good(here)
    <2>1. CASE t > r.term \/ r.role # "Follower"
        BY <2>1, StepDownCore, StepDownEvolves DEF Evolves
    <2>2. CASE ~(t > r.term \/ r.role # "Follower")
        BY <2>2 DEF SameCore
    <2> QED
        BY <2>1, <2>2
<1> HIDE DEF here
<1>4. KeepsCore(r, here) /\ CoreOK(here)
    BY <1>3, SameCoreKeeps DEF KeepsCore
<1>5. CASE t < r.term
    BY <1>2, <1>5 DEF RaftAppend
<1>6. CASE ~(t < r.term) /\ prev > 0 /\ prev \notin DOMAIN r.log
    <2>1. q = here
        BY <1>6 DEF RaftAppend, here
    <2> QED
        BY <1>4, <2>1
<1>7. CASE ~(t < r.term) /\ ~(prev > 0 /\ prev \notin DOMAIN r.log)
           /\ prev > 0 /\ r.log[prev].term # prevTerm
    <2>1. q = here \/ (q = cutHere /\ ~(prev <= r.rcommit))
        BY <1>7 DEF RaftAppend, here
    <2>2. prev \in 1..Len(here.log) /\ here.rcommit = r.rcommit
        BY <1>1, <1>3, <1>7 DEF SameCore
    <2>3. CASE q = cutHere /\ ~(prev <= r.rcommit)
        <3>1. prev > here.rcommit
            BY <1>1, <2>2, <2>3
        <3>2. KeepsCore(here, cutHere) /\ Good(cutHere)
            BY <1>3, <2>2, <3>1, TruncateFromCore, TruncateFromEvolves DEF Evolves
        <3> QED
            BY <1>3, <1>4, <2>3, <3>2, KeepsCoreTrans
    <2> QED
        BY <1>4, <2>1, <2>3
<1>8. CASE ~(t < r.term) /\ ~(prev > 0 /\ prev \notin DOMAIN r.log)
           /\ ~(prev > 0 /\ r.log[prev].term # prevTerm)
    <2>1. q = here \/ (q = done /\ ~RaftFenced(here, prev, es))
        BY <1>8 DEF RaftAppend, here
    <2>2. prev <= Len(here.log)
        BY <1>1, <1>3, <1>8 DEF SameCore
    <2>3. CASE q = done /\ ~RaftFenced(here, prev, es)
        <3>1. KeepsCore(here, merged)
            BY <1>3, <1>4, <2>2, <2>3, RaftMergeCore
        <3>2. Good(merged)
            BY <1>3, <2>2, RaftMergeEvolves DEF Evolves
        <3> HIDE DEF merged
        <3>3. CoreOK(merged)
            BY <3>1 DEF KeepsCore
        <3>4. KeepsCore(merged, done) /\ Good(done)
            BY <3>2, <3>3, ObserveCommitCore, ObserveCommitEvolves DEF Evolves
        <3> HIDE DEF done
        <3>5. KeepsCore(here, done)
            BY <1>3, <3>1, <3>2, <3>4, KeepsCoreTrans
        <3> QED
            BY <1>3, <1>4, <2>3, <3>4, <3>5, KeepsCoreTrans
    <2> QED
        BY <1>4, <2>1, <2>3
<1> QED
    BY <1>5, <1>6, <1>7, <1>8

\* The database's half of the append handler works on the WAL.
LEMMA WalCallsCore ==
    ASSUME NEW r, Good(r), NEW n \in Nat, NEW es \in Seq(Entry), NEW commit \in Nat
    PROVE  /\ SameCore(r, WalTruncate(r, n, es))
           /\ SameCore(r, WalAppend(r, n, es))
           /\ SameCore(r, CommitThrough(r, commit))
<1>1. r \in ServerState
    BY CoreType
<1>2. ASSUME NEW wal, NEW next
      PROVE  SameCore(r, [r EXCEPT !.wal = wal, !.next = next])
    BY <1>1 DEF SameCore, ServerState
<1>3. ASSUME NEW d, NEW next
      PROVE  SameCore(r, [r EXCEPT !.dcommit = d, !.next = next])
    BY <1>1 DEF SameCore, ServerState
<1>4. SameCore(r, r)
    BY DEF SameCore
<1>5. SameCore(r, WalTruncate(r, n, es))
    BY <1>2, <1>4 DEF WalTruncate
<1>6. SameCore(r, WalAppend(r, n, es))
    BY <1>2 DEF WalAppend
<1>7. SameCore(r, CommitThrough(r, commit))
    BY <1>3, <1>4 DEF CommitThrough
<1> QED
    BY <1>5, <1>6, <1>7

\* The whole append handler, for entries and for heartbeats: also when the
\* WAL's fence refuses what RaftCore has already taken.
LEMMA AppendBatchCore ==
    ASSUME NEW r, Good(r), CoreOK(r), NEW n \in Nat, NEW es \in Seq(Entry), es = <<>> \/ n >= 1,
           NEW commit \in Nat
    PROVE  KeepsCore(r, AppendBatch(r, n, es, commit).r)
<1> DEFINE prev == IF es = <<>> THEN LastIndex(r) ELSE n - 1
           prevTerm == IF prev \in DOMAIN r.wal THEN r.wal[prev].term ELSE 0
           t == IF es = <<>> THEN r.term ELSE es[Len(es)].term
           core == RaftAppend(r, t, prev, prevTerm, es, commit)
           cutWal == WalTruncate(core.r, n, es)
           longer == IF es = <<>> THEN cutWal ELSE WalAppend(cutWal, n, es)
           done == CommitThrough(longer, commit)
           q == AppendBatch(r, n, es, commit).r
<1>1. r.log \in Seq(Entry) /\ r.wal \in Seq(Entry) /\ r.term \in Nat
    BY DEF Good, ServerState
<1>2. prev \in Nat
    BY <1>1 DEF LastIndex
<1>3. prevTerm \in Nat
    <2>1. CASE prev \in DOMAIN r.wal
        <3>1. r.wal[prev] \in Entry
            BY <1>1, <2>1
        <3> QED
            BY <2>1, <3>1 DEF Entry
    <2>2. CASE prev \notin DOMAIN r.wal
        BY <2>2
    <2> QED
        BY <2>1, <2>2
<1>4. t \in Nat
    <2>1. CASE es = <<>>
        BY <1>1, <2>1
    <2>2. CASE es # <<>>
        <3>1. es[Len(es)] \in Entry
            BY <2>2
        <3> QED
            BY <2>2, <3>1 DEF Entry
    <2> QED
        BY <2>1, <2>2
<1>5. \/ q = core.r
      \/ q = cutWal /\ ~WalFenced(core.r, n, es)
      \/ q = done /\ ~WalFenced(core.r, n, es) /\ (es = <<>> \/ ~(n > cutWal.next))
    BY DEF AppendBatch
<1> HIDE DEF prev, prevTerm, t, q
<1>6. KeepsCore(r, core.r)
    BY <1>2, <1>3, <1>4, RaftAppendCore
<1>7. Good(core.r)
    BY <1>2, <1>3, <1>4, RaftAppendEvolves DEF Evolves
<1> HIDE DEF core
<1>8. CASE q = core.r
    BY <1>6, <1>8 DEF q
<1>9. CASE ~WalFenced(core.r, n, es)
    <2>1. SameCore(core.r, cutWal)
        BY <1>7, WalCallsCore
    <2>2. Good(cutWal)
        BY <1>7, <1>9, WalTruncateEvolves DEF Evolves
    <2> HIDE DEF cutWal
    <2>3. KeepsCore(r, cutWal)
        BY <1>6, <2>1 DEF KeepsCore, SameCore, CoreOK
    <2>4. CASE q = cutWal
        BY <2>3, <2>4 DEF q
    <2>5. CASE q = done /\ (es = <<>> \/ ~(n > cutWal.next))
        <3>1. SameCore(cutWal, longer)
            BY <2>2, WalCallsCore DEF SameCore
        <3>2. Good(longer)
            <4>1. CASE es = <<>>
                BY <2>2, <4>1
            <4>2. CASE es # <<>>
                <5>1. cutWal.next \in Nat
                    BY <2>2 DEF Good, ServerState
                <5>2. n >= 1 /\ n <= cutWal.next
                    BY <2>5, <4>2, <5>1
                <5> QED
                    BY <2>2, <4>2, <5>2, WalAppendEvolves DEF Evolves
            <4> QED
                BY <4>1, <4>2
        <3> HIDE DEF longer
        <3>3. SameCore(longer, done)
            BY <3>2, WalCallsCore
        <3> HIDE DEF done
        <3>4. KeepsCore(r, done)
            BY <2>3, <3>1, <3>3 DEF KeepsCore, SameCore, CoreOK
        <3> QED
            BY <2>5, <3>4 DEF q
    <2> QED
        BY <1>5, <1>8, <1>9, <2>4, <2>5
<1> QED
    BY <1>5, <1>8, <1>9

\* The catch-up path does not touch RaftCore.
LEMMA CatchUpBatchCore ==
    ASSUME NEW r, Good(r), NEW n \in Nat, n >= 1, NEW es \in Seq(Entry)
    PROVE  SameCore(r, CatchUpBatch(r, n, es))
<1> DEFINE longer == WalAppend(r, n, es)
           done == CommitThrough(longer, n + Len(es) - 1)
<1>1. CASE WalConflicts(r.wal, n, es) # {} \/ n > r.next
    BY <1>1 DEF CatchUpBatch, SameCore
<1>2. CASE ~(WalConflicts(r.wal, n, es) # {} \/ n > r.next)
    <2>1. n <= r.next /\ n + Len(es) - 1 \in Nat
        BY <1>2 DEF Good, ServerState
    <2>2. SameCore(r, longer) /\ Good(longer)
        BY <2>1, WalAppendEvolves, WalCallsCore DEF Evolves
    <2>3. CatchUpBatch(r, n, es) = done
        BY <1>2 DEF CatchUpBatch
    <2> HIDE DEF longer
    <2>4. SameCore(longer, done)
        BY <2>1, <2>2, WalCallsCore
    <2> QED
        BY <2>2, <2>3, <2>4 DEF SameCore
<1> QED
    BY <1>1, <1>2

\* advance_leader_commit_index moves the commit index up, to an index of the
\* log: of the indexes a quorum matches only the highest is taken.
LEMMA AdvanceCommitCore ==
    ASSUME NEW r, Good(r), CoreOK(r)
    PROVE  KeepsCore(r, AdvanceCommit(r))
<1> DEFINE Q == QuorumIndexes(r)
           qs == {i \in Q : \A j \in Q : j <= i}
           c == CHOOSE q \in qs : TRUE
<1>1. /\ r \in ServerState /\ r.match \in [Server -> Nat] /\ r.log \in Seq(Entry)
      /\ r.rcommit \in Nat /\ Len(r.log) \in Nat
    BY DEF Good, ServerState
<1>2. Q \subseteq Nat
    BY <1>1 DEF QuorumIndexes
<1>3. \/ AdvanceCommit(r) = r
      \/ /\ \E q \in qs : q > r.rcommit /\ q \in DOMAIN r.log
         /\ AdvanceCommit(r) = [r EXCEPT !.rcommit = c]
    BY DEF AdvanceCommit
<1> HIDE DEF Q
<1>4. CASE AdvanceCommit(r) = r
    BY <1>4, SameCoreKeeps DEF SameCore
<1>5. CASE /\ \E q \in qs : q > r.rcommit /\ q \in DOMAIN r.log
           /\ AdvanceCommit(r) = [r EXCEPT !.rcommit = c]
    <2>1. PICK q \in qs : q > r.rcommit /\ q \in DOMAIN r.log
        BY <1>5
    <2>2. c \in qs
        BY <2>1
    <2> HIDE DEF c
    <2>3. c <= q /\ q <= c /\ c \in Nat /\ q \in Nat
        BY <1>2, <2>2
    <2>4. c = q
        BY <2>3
    <2>5. c \in Nat /\ c >= r.rcommit /\ c <= Len(r.log)
        BY <1>1, <2>1, <2>3, <2>4
    <2>6. AdvanceCommit(r) = WithLog(r, r.log, c)
        BY <1>1, <1>5 DEF WithLog, ServerState
    <2> QED
        BY <1>1, <2>5, <2>6, WithLogKeeps
<1> QED
    BY <1>3, <1>4, <1>5

\* Opening leaves the log alone.
LEMMA OpenedCore ==
    ASSUME NEW r, Good(r), NEW s \in Server
    PROVE  SameCore(r, Opened(r, s))
<1> DEFINE mid == IF r.term = 0 THEN Campaign(r, s) ELSE r
<1>1. SameCore(r, mid) /\ mid \in ServerState
    BY CampaignCore, CampaignEvolves DEF SameCore, Evolves, Good
<1>2. Opened(r, s) = IF s = Primary THEN BecomeLeader(mid, s) ELSE r
    BY DEF Opened
<1> HIDE DEF mid
<1>3. SameCore(mid, BecomeLeader(mid, s))
    BY <1>1, BecomeLeaderCore
<1> QED
    BY <1>1, <1>2, <1>3 DEF SameCore

\* A restart takes the log from the WAL and a commit index within it.
LEMMA ReopenedCore ==
    ASSUME NEW r, Good(r), NEW s \in Server
    PROVE  CoreOK(Reopened(r, s))
<1> DEFINE c == MinOf(r.dcommit, Len(r.wal))
           zero == [v \in Server |-> 0]
           x == Len(r.wal) + 1
           mid == [r EXCEPT !.role = "Follower", !.votes = {}, !.log = r.wal,
                            !.rcommit = c, !.match = zero, !.next = x]
<1>1. /\ r \in ServerState /\ r.wal \in Seq(Entry) /\ r.dcommit \in Nat
      /\ r.dcommit <= Len(r.wal)
    BY DEF Good, ServerState
<1>2. c \in Nat /\ zero \in [Server -> Nat] /\ x \in Nat /\ c <= Len(r.wal)
    BY <1>1 DEF MinOf
<1>3. Reopened(r, s) = Opened(mid, s)
    BY DEF Reopened
<1> HIDE DEF c, zero
<1>4. mid \in ServerState
    BY <1>1, <1>2 DEF ServerState
<1>5. /\ mid.wal = r.wal /\ mid.dcommit = r.dcommit /\ mid.next = x
      /\ mid.log = r.wal /\ mid.rcommit = c
    BY <1>1 DEF ServerState
<1> HIDE DEF mid
<1>6. Good(mid)
    BY <1>1, <1>4, <1>5 DEF Good
<1>7. SameCore(mid, Opened(mid, s))
    BY <1>6, OpenedCore
<1> QED
    BY <1>2, <1>3, <1>5, <1>7 DEF SameCore, CoreOK

-----------------------------------------------------------------------------
\* Between two calls every RaftCore's commit index lies within its log.
CoreInv == \A s \in Server : CoreOK(srv[s])

\* What every step but a restart does to the servers' RaftCores.
CoresKept == \A s \in Server : KeepsCore(srv[s], srv'[s])

\* A step that sets one server's state.
LEMMA SetCore ==
    ASSUME IInv, CoreInv, NEW p \in Server, NEW q, Set(p, q), KeepsCore(srv[p], q)
    PROVE  CoresKept
<1>1. srv \in [Server -> ServerState] /\ \A s \in Server : Good(srv[s]) /\ CoreOK(srv[s])
    BY DEF IInv, TypeOK, CoreInv
<1>2. srv'[p] = q /\ \A s \in Server : s # p => srv'[s] = srv[s]
    BY <1>1 DEF Set
<1> SUFFICES ASSUME NEW s \in Server PROVE KeepsCore(srv[s], srv'[s])
    BY DEF CoresKept
<1>3. CASE s # p
    BY <1>1, <1>2, <1>3, SameCoreKeeps DEF SameCore
<1> QED
    BY <1>2, <1>3

\* A step that leaves every server's state alone.
LEMMA SrvSameCore ==
    ASSUME IInv, CoreInv, UNCHANGED srv
    PROVE  CoresKept
<1> SUFFICES ASSUME NEW s \in Server PROVE KeepsCore(srv[s], srv'[s])
    BY DEF CoresKept
<1>1. Good(srv[s]) /\ CoreOK(srv[s]) /\ SameCore(srv[s], srv'[s])
    BY DEF IInv, CoreInv, SameCore
<1> QED
    BY <1>1, SameCoreKeeps

\* A step that sets one server's state without touching its RaftCore log.
LEMMA SetSameCore ==
    ASSUME IInv, CoreInv, NEW p \in Server, NEW q, Set(p, q), SameCore(srv[p], q)
    PROVE  CoresKept
<1>1. KeepsCore(srv[p], q)
    BY SameCoreKeeps DEF IInv, CoreInv
<1> QED
    BY <1>1, SetCore

\* Elections.
LEMMA ElectionStepsCore ==
    ASSUME IInv, CoreInv, NEW s \in Server,
           \/ PreVoteRound(s) \/ StartElection(s)
           \/ \E m \in requests : HandleRequestVote(s, m)
           \/ \E m \in responses : HandleVoteResponse(s, m)
    PROVE  CoresKept
<1>1. Good(srv[s])
    BY DEF IInv
<1>2. CASE PreVoteRound(s)
    BY <1>2, SrvSameCore DEF PreVoteRound
<1>3. CASE StartElection(s)
    <2>1. UNCHANGED srv \/ Set(s, Campaign(srv[s], s))
        BY <1>3 DEF StartElection
    <2> QED
        BY <1>1, <2>1, CampaignCore, SetSameCore, SrvSameCore
<1>4. ASSUME NEW m \in requests, HandleRequestVote(s, m) PROVE CoresKept
    <2>1. m.term \in Nat
        BY DEF IInv, TypeOK
    <2>2. Set(s, RequestVote(srv[s], m))
        BY <1>4 DEF HandleRequestVote
    <2> QED
        BY <1>1, <2>1, <2>2, RequestVoteCore, SetSameCore
<1>5. ASSUME NEW m \in responses, HandleVoteResponse(s, m) PROVE CoresKept
    <2>1. m.term \in Nat /\ m.voter \in Server
        BY DEF IInv, TypeOK
    <2>2. Set(s, RecordVote(srv[s], s, m))
        BY <1>5 DEF HandleVoteResponse
    <2> QED
        BY <1>1, <2>1, <2>2, RecordVoteCore, SetSameCore
<1> QED
    BY <1>2, <1>3, <1>4, <1>5

\* Calls of the append handler, wherever they come from.
LEMMA AppendCore ==
    ASSUME IInv, CoreInv, NEW p \in Server, NEW n \in Nat, NEW es \in Seq(Entry),
           es = <<>> \/ n >= 1, NEW c \in Nat, Set(p, AppendBatch(srv[p], n, es, c).r)
    PROVE  CoresKept
<1>1. Good(srv[p]) /\ CoreOK(srv[p])
    BY DEF IInv, CoreInv
<1>2. KeepsCore(srv[p], AppendBatch(srv[p], n, es, c).r)
    BY <1>1, AppendBatchCore
<1> QED
    BY <1>2, SetCore

\* publish_batch at one target, on time or late.
LEMMA PublishStepsCore ==
    ASSUME IInv, CoreInv, NEW p \in Server,
           \/ \E s \in Server : PublishTo(s, p)
           \/ \E m \in published : LateAppend(p, m)
    PROVE  CoresKept
<1>1. ASSUME NEW s \in Server, PublishTo(s, p) PROVE CoresKept
    <2> DEFINE n == pending[s].index
               es == <<srv[s].wal[n]>>
    <2>1. pending[s] # None /\ Set(p, AppendBatch(srv[p], n, es, 0).r)
        BY <1>1 DEF PublishTo, Idle
    <2>2. pending[s] \in [index : Nat, acks : SUBSET Server, sent : BOOLEAN]
        BY <2>1 DEF IInv, TypeOK
    <2>3. n \in 1..Len(srv[s].wal) /\ n \in Nat /\ srv[s].wal \in Seq(Entry)
        BY <2>1, <2>2 DEF IInv, PendingInWal, Good, ServerState
    <2>4. srv[s].wal[n] \in Entry /\ n >= 1
        BY <2>3
    <2>5. es \in Seq(Entry)
        BY <2>4
    <2> HIDE DEF es, n
    <2> QED
        BY <2>1, <2>3, <2>4, <2>5, AppendCore
<1>2. ASSUME NEW m \in published, LateAppend(p, m) PROVE CoresKept
    <2>1. m.index \in Nat /\ m.index >= 1 /\ m.entry \in Entry
        BY DEF IInv, TypeOK
    <2>2. <<m.entry>> \in Seq(Entry)
        BY <2>1
    <2>3. Set(p, AppendBatch(srv[p], m.index, <<m.entry>>, 0).r)
        BY <1>2 DEF LateAppend
    <2> QED
        BY <2>1, <2>2, <2>3, AppendCore
<1> QED
    BY <1>1, <1>2

\* Heartbeats, the pump and the catch-up command.
LEMMA TrafficStepsCore ==
    ASSUME IInv, CoreInv, NEW p \in Server,
           Heartbeat(p) \/ (\E s \in Server : Pump(s, p)) \/ CatchUp(p)
    PROVE  CoresKept
<1>1. CASE Heartbeat(p)
    <2>1. PICK c \in {announced[p]} \cup {srv[q].dcommit : q \in Server \ {p}} :
              Set(p, AppendBatch(srv[p], 0, <<>>, c).r)
        BY <1>1 DEF Heartbeat
    <2>2. c \in Nat
        BY DEF IInv, TypeOK, Good, ServerState
    <2>3. <<>> \in Seq(Entry)
        OBVIOUS
    <2> QED
        BY <2>1, <2>2, <2>3, AppendCore
<1>2. ASSUME NEW s \in Server, Pump(s, p) PROVE CoresKept
    <2> DEFINE d == srv[s].dcommit
    <2>1. d \in Nat /\ srv[s].wal \in Seq(Entry) /\ d <= Len(srv[s].wal)
        BY DEF IInv, Good, ServerState
    <2>2. PICK n \in 1..d : Set(p, AppendBatch(srv[p], n, SubSeq(srv[s].wal, n, d), d).r)
        BY <1>2 DEF Pump
    <2> HIDE DEF d
    <2>3. \A i \in n..d : srv[s].wal[i] \in Entry
        BY <2>1
    <2>4. SubSeq(srv[s].wal, n, d) \in Seq(Entry)
        BY <2>1, <2>3, SubSeqProperties
    <2>5. n \in Nat /\ n >= 1
        BY <2>1
    <2> QED
        BY <2>1, <2>2, <2>4, <2>5, AppendCore
<1>3. CASE CatchUp(p)
    <2> DEFINE n == srv[p].dcommit + 1
               es == SubSeq(srv[Primary].wal, n, Len(srv[Primary].wal))
    <2>1. srv[p].dcommit \in Nat /\ srv[Primary].wal \in Seq(Entry) /\ Good(srv[p])
        BY ServerAssumption DEF IInv, Good, ServerState
    <2>2. n \in Nat /\ n >= 1
        BY <2>1
    <2>3. es \in Seq(Entry)
        BY <2>1, <2>2, TailType
    <2>4. Set(p, CatchUpBatch(srv[p], n, es))
        BY <1>3 DEF CatchUp
    <2> HIDE DEF n, es
    <2>5. SameCore(srv[p], CatchUpBatch(srv[p], n, es))
        BY <2>1, <2>2, <2>3, CatchUpBatchCore
    <2> QED
        BY <2>4, <2>5, SetSameCore
<1> QED
    BY <1>1, <1>2, <1>3

\* append_local_command: RaftCore's log is extended at its end or not at all.
LEMMA ClientWriteCore ==
    ASSUME IInv, CoreInv, NEW s \in Server, NEW v \in Value, ClientWrite(s, v)
    PROVE  CoresKept
<1> DEFINE r == srv[s]
           e == [term |-> r.term, val |-> v]
           logged == [r EXCEPT !.wal = Append(@, e)]
           both == [logged EXCEPT !.log = Append(@, e), !.match[s] = r.next,
                                  !.next = r.next + 1]
<1>1. /\ r \in ServerState /\ r.wal \in Seq(Entry) /\ r.log \in Seq(Entry)
      /\ r.next \in Nat /\ r.dcommit \in Nat /\ r.term \in Nat /\ r.rcommit \in Nat
      /\ r.match \in [Server -> Nat] /\ Good(r) /\ CoreOK(r) /\ Len(r.log) \in Nat
    BY SMTT(30) DEF IInv, Good, ServerState, CoreInv
<1>2. Len(r.wal) = r.next - 1
    BY DEF ClientWrite
<1>3. e \in Entry
    BY <1>1 DEF Entry
<1>4. Set(s, logged) \/ Set(s, AdvanceCommit(both))
    BY DEF ClientWrite
<1> HIDE DEF e
<1> DEFINE wal == Append(r.wal, e)
           log == Append(r.log, e)
           match == [r.match EXCEPT ![s] = r.next]
           a == WithWal(r, wal, r.next + 1, r.dcommit)
           b == WithLog(a, log, r.rcommit)
           c == WithMatch(b, match)
<1>5. /\ log \in Seq(Entry) /\ Len(log) = Len(r.log) + 1
      /\ \A i \in 1..Len(r.log) : log[i] = r.log[i]
    BY <1>1, <1>3, AppendProperties
<1>6. match \in [Server -> Nat]
    BY <1>1
<1>7. SameCore(r, logged)
    BY <1>1 DEF SameCore, ServerState
<1>8. both = c
    BY <1>1 DEF WithWal, WithLog, WithMatch, ServerState
<1>9. Good(a)
    BY <1>1, <1>2, <1>3, WalRecordEvolves DEF Evolves
<1>10. SameCore(r, a)
    BY <1>1 DEF WithWal, ServerState, SameCore
<1> HIDE DEF logged, both, wal, log, match, r, a
<1>11. Good(b)
    BY <1>1, <1>5, <1>9, LogEvolves DEF Evolves
<1>12. b.log = log /\ b.rcommit = r.rcommit
    BY <1>9, CoreType DEF WithLog, ServerState
<1> HIDE DEF b
<1>13. Good(c)
    BY <1>6, <1>11, MatchEvolves DEF Evolves
<1>14. SameCore(b, c)
    BY <1>11, CoreType DEF WithMatch, ServerState, SameCore
<1> HIDE DEF c
<1>15. KeepsCore(r, c)
    BY SMTT(30), <1>1, <1>5, <1>12, <1>14 DEF KeepsCore, SameCore, CoreOK
<1>16. KeepsCore(c, AdvanceCommit(c)) /\ Good(AdvanceCommit(c))
    BY <1>13, <1>15, AdvanceCommitCore, AdvanceCommitEvolves DEF KeepsCore, Evolves
<1>17. KeepsCore(r, AdvanceCommit(c))
    BY <1>1, <1>13, <1>15, <1>16, KeepsCoreTrans
<1> QED
    BY <1>4, <1>7, <1>8, <1>17, SetCore, SetSameCore DEF r

\* observe_raft_replication_outcome and commit_entry.
LEMMA LeaderCommitCore ==
    ASSUME IInv, CoreInv, NEW s \in Server, LeaderCommit(s)
    PROVE  CoresKept
<1> DEFINE n == pending[s].index
           match == [v \in Server |-> IF v \in pending[s].acks THEN n ELSE srv[s].match[v]]
           mid == WithMatch(srv[s], match)
           r == AdvanceCommit(mid)
           done == [r EXCEPT !.dcommit = n]
<1>1. pending[s] # None /\ (Set(s, done) \/ Set(s, r))
    <2>1. mid = [srv[s] EXCEPT !.match =
                   [v \in Server |-> IF v \in pending[s].acks THEN n ELSE @[v]]]
        BY DEF WithMatch
    <2> QED
        BY <2>1 DEF LeaderCommit, Idle
<1>2. n \in Nat /\ Good(srv[s]) /\ CoreOK(srv[s]) /\ srv[s].match \in [Server -> Nat]
    BY <1>1 DEF IInv, TypeOK, Good, ServerState, CoreInv
<1>3. match \in [Server -> Nat]
    BY <1>2
<1> HIDE DEF match, n
<1>4. Good(mid)
    BY <1>2, <1>3, MatchEvolves DEF Evolves
<1>5. SameCore(srv[s], mid)
    BY <1>2, CoreType DEF WithMatch, ServerState, SameCore
<1> HIDE DEF mid
<1>6. KeepsCore(srv[s], mid) /\ CoreOK(mid)
    BY <1>2, <1>5, SameCoreKeeps DEF KeepsCore
<1>7. KeepsCore(mid, r) /\ Good(r)
    BY <1>4, <1>6, AdvanceCommitCore, AdvanceCommitEvolves DEF Evolves
<1> HIDE DEF r
<1>8. KeepsCore(srv[s], r)
    BY <1>2, <1>4, <1>6, <1>7, KeepsCoreTrans
<1>9. SameCore(r, done)
    BY <1>7, CoreType DEF SameCore, ServerState
<1> HIDE DEF done
<1>10. KeepsCore(srv[s], done)
    BY <1>8, <1>9 DEF SameCore, KeepsCore, CoreOK
<1> QED
    BY <1>1, <1>8, <1>10, SetCore

-----------------------------------------------------------------------------
\* Every step keeps the committed part of every RaftCore log, except that a
\* restart rebuilds one; after it, too, the commit index is within the log.
LEMMA NextCore ==
    ASSUME IInv, CoreInv, [Next]_vars
    PROVE  CoreInv' /\ (restarts' = restarts => CoresKept)
<1>1. ASSUME CoresKept PROVE CoreInv' /\ (restarts' = restarts => CoresKept)
    BY <1>1 DEF CoresKept, KeepsCore, CoreInv
<1>2. CASE UNCHANGED vars
    BY <1>1, <1>2, SrvSameCore DEF vars
<1>3. ASSUME NEW s \in Server, Restart(s) PROVE CoreInv' /\ restarts' # restarts
    <2>1. Set(s, Reopened(srv[s], s)) /\ restarts' = restarts + 1 /\ restarts \in Nat
        BY <1>3 DEF Restart, IInv, TypeOK
    <2>2. CoreOK(Reopened(srv[s], s))
        BY ReopenedCore DEF IInv
    <2>3. srv \in [Server -> ServerState]
        BY DEF IInv, TypeOK
    <2>4. CoreInv'
        BY <2>1, <2>2, <2>3 DEF Set, CoreInv
    <2> QED
        BY <2>1, <2>4
<1>4. ASSUME NEW s \in Server, PublishFail(s) \/ AnnounceCommit(s) PROVE CoresKept
    BY <1>4, SrvSameCore DEF PublishFail, AnnounceCommit
<1>5. CASE Next
    BY <1>1, <1>3, <1>4, <1>5, ElectionStepsCore, PublishStepsCore, TrafficStepsCore,
       ClientWriteCore, LeaderCommitCore DEF Next
<1> QED
    BY <1>2, <1>5

\* RaftCore's commit index lies within its log in every state.
LEMMA CoreInvHolds == Spec => []CoreInv
<1>1. Init => CoreInv
    <2> SUFFICES ASSUME Init, NEW s \in Server PROVE CoreOK(srv[s])
        BY DEF CoreInv
    <2>1. srv[s] = Opened(Fresh, s)
        BY DEF Init
    <2>2. SameCore(Fresh, srv[s])
        BY <2>1, FreshGood, OpenedCore
    <2>3. Fresh.log = <<>> /\ Fresh.rcommit = 0
        BY DEF Fresh
    <2> QED
        BY <2>2, <2>3 DEF SameCore, CoreOK
<1>2. IInv /\ CoreInv /\ [Next]_vars => CoreInv'
    BY NextCore
<1> QED
    BY <1>1, <1>2, IInvHolds, PTL DEF Spec

\* In the life of one process RaftCore's commit index never falls and no entry
\* below it changes, whatever terms, conflicts and late calls append_entries
\* and truncate_from meet, and also when the WAL then refuses the same entries.
THEOREM RaftCoreNeverRollsBack == Spec => RaftCommitStable
<1>1. IInv /\ CoreInv /\ [Next]_vars /\ IInv' => [RaftCommitStep]_vars
    <2> SUFFICES ASSUME IInv, CoreInv, [Next]_vars, IInv', NEW s \in Server,
                        restarts' = restarts
                 PROVE  /\ srv'[s].rcommit >= srv[s].rcommit
                        /\ \A i \in 1..srv[s].rcommit : i \in DOMAIN srv'[s].log
                              /\ srv'[s].log[i] = srv[s].log[i]
        BY DEF RaftCommitStep
    <2>1. KeepsCore(srv[s], srv'[s])
        BY NextCore DEF CoresKept
    <2>2. /\ srv[s].rcommit \in Nat /\ srv'[s].rcommit \in Nat
          /\ srv'[s].log \in Seq(Entry) /\ Len(srv'[s].log) \in Nat
        <3>1. Good(srv[s]) /\ Good(srv'[s])
            BY DEF IInv
        <3> QED
            BY <3>1, CoreType
    <2> QED
        BY <2>1, <2>2 DEF KeepsCore, CoreOK
<1> QED
    BY <1>1, CoreInvHolds, IInvHolds, PTL DEF Spec, RaftCommitStable
=============================================================================
