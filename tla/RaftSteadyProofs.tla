-------------------------- MODULE RaftSteadyProofs --------------------------
(***************************************************************************)
(* The shard as long as nobody but the routing-table primary has stood for *)
(* election: the primary's WAL is the only source of entries, every other  *)
(* WAL is a prefix of it, and nothing is committed that a majority does    *)
(* not hold.  The condition is on the history of votes, so the theorems    *)
(* speak of every behaviour, up to the first campaign of a replica.        *)
(***************************************************************************)
EXTENDS RaftShardProofs

-----------------------------------------------------------------------------
\* A replica r behind the primary h: its WAL is a prefix of h's below h's
\* next_log_index, and it leads nothing.
Follows(r, h) ==
    /\ r.role = "Follower"
    /\ r.next = Len(r.wal) + 1
    /\ r.next <= h.next
    /\ \A i \in 1..Len(r.wal) : r.wal[i] = h.wal[i]

\* The WAL and next_log_index only grow.
Grows(r, q) ==
    /\ Len(q.wal) >= Len(r.wal)
    /\ q.next >= r.next
    /\ \A i \in 1..Len(r.wal) : q.wal[i] = r.wal[i]

WalsGrow == \A s \in Server : Grows(srv[s], srv'[s])

\* Everything in the group comes from the primary's WAL.
Steady ==
    /\ \A s \in Server \ {Primary} : Follows(srv[s], srv[Primary]) /\ pending[s] = None
    /\ \A s \in Server : announced[s] < srv[Primary].next
    /\ \A m \in published : /\ m.origin = Primary
                            /\ m.index < srv[Primary].next
                            /\ m.entry = srv[Primary].wal[m.index]

\* Entries es, from index n on, are the ones h holds below its next_log_index.
Copied(h, n, es) ==
    /\ n + Len(es) <= h.next
    /\ \A i \in 1..Len(es) : es[i] = h.wal[n + i - 1]

\* A server that entries of h may be sent to: a replica of h, or h itself.
Behind(r, h) ==
    /\ r.next <= h.next
    /\ \A i \in 1..Len(r.wal) : r.wal[i] = h.wal[i]
    /\ r.next = Len(r.wal) + 1 \/ r.next = h.next

\* What a call with such entries does to a server r behind h: the WAL grows
\* along h's, by nothing when r already had all of it, and next_log_index with
\* it.
Advances(r, q, h) ==
    /\ Grows(r, q)
    /\ \A i \in 1..Len(q.wal) : q.wal[i] = h.wal[i]
    /\ q.next <= h.next
    /\ r.next = Len(r.wal) + 1 => q.next = Len(q.wal) + 1
    /\ r.next = h.next => q.wal = r.wal /\ q.next = r.next

\* Growth of one server in the words of the provers: the indexes are numbers.
LEMMA GoodNumbers ==
    ASSUME NEW r, Good(r)
    PROVE  /\ r.wal \in Seq(Entry) /\ Len(r.wal) \in Nat /\ r.next \in Nat /\ r.dcommit \in Nat
           /\ r.next >= 1 /\ r.next >= Len(r.wal) /\ r.next <= Len(r.wal) + 1
           /\ r.dcommit <= Len(r.wal) /\ r.dcommit < r.next
BY DEF Good, ServerState

\* A call that leaves the WAL alone advances it.
LEMMA SameWalAdvances ==
    ASSUME NEW r, NEW q, NEW h, Good(r), SameWal(r, q), Behind(r, h)
    PROVE  Advances(r, q, h)
<1>1. Len(r.wal) \in Nat /\ r.next \in Nat
    BY GoodNumbers
<1> QED
    BY <1>1 DEF SameWal, Advances, Grows, Behind

\* Positions of a sequence, of its tail from k on and of a concatenation.
LEMMA LenDomain ==
    ASSUME NEW S, NEW es \in Seq(S)
    PROVE  DOMAIN es = 1..Len(es) /\ Len(es) \in Nat
OBVIOUS

\* The tail of a sequence holds its last elements.
LEMMA TailElements ==
    ASSUME NEW S, NEW es \in Seq(S), NEW k \in 1..Len(es)
    PROVE  \A i \in 1..(Len(es) - k + 1) : SubSeq(es, k, Len(es))[i] = es[k + i - 1]
<1>1. k \in 1..Len(es) + 1 /\ Len(es) \in k - 1..Len(es)
    OBVIOUS
<1> QED
    BY <1>1, SubSeqProperties

\* The elements of a sequence appended to another follow it.
LEMMA ConcatElements ==
    ASSUME NEW S, NEW a \in Seq(S), NEW b \in Seq(S)
    PROVE  \A i \in 1..Len(b) : (a \o b)[Len(a) + i] = b[i]
<1> SUFFICES ASSUME NEW i \in 1..Len(b) PROVE (a \o b)[Len(a) + i] = b[i]
    OBVIOUS
<1>1. Len(a) \in Nat /\ Len(b) \in Nat /\ Len(a \o b) = Len(a) + Len(b)
    OBVIOUS
<1>2. Len(a) + i \in 1..Len(a \o b) /\ ~(Len(a) + i <= Len(a)) /\ Len(a) + i - Len(a) = i
    BY <1>1
<1> QED
    BY <1>1, <1>2, ConcatProperties

\* Entries copied from the primary never conflict with a WAL behind it.
LEMMA NoConflicts ==
    ASSUME NEW r, NEW h, NEW n \in Nat, NEW es \in Seq(Entry), Good(r), Good(h),
           Behind(r, h), Copied(h, n, es)
    PROVE  WalConflicts(r.wal, n, es) = {}
<1> SUFFICES ASSUME NEW i \in DOMAIN es, n + i - 1 \in DOMAIN r.wal
             PROVE  r.wal[n + i - 1] = es[i]
    BY DEF WalConflicts
<1>1. r.wal \in Seq(Entry)
    BY GoodNumbers
<1>2. DOMAIN es = 1..Len(es) /\ DOMAIN r.wal = 1..Len(r.wal)
    BY <1>1, LenDomain
<1>3. i \in 1..Len(es) /\ n + i - 1 \in 1..Len(r.wal)
    BY <1>2
<1> QED
    BY <1>3 DEF Behind, Copied

\* The arithmetic of an append at next_log_index x to a WAL of w records: e
\* entries from index n on leave a tail of t to append.
LEMMA TailNumbers ==
    ASSUME NEW w \in Nat, NEW x \in Nat, NEW n \in Nat, NEW e \in Nat, NEW hn \in Nat,
           NEW t, NEW next, n >= 1, n <= x, x >= w, x <= w + 1, x <= hn, n + e <= hn,
           x = w + 1 \/ x = hn,
           t = IF x - n + 1 <= e THEN e - (x - n + 1) + 1 ELSE 0,
           next = IF x >= n + e THEN x ELSE n + e
    PROVE  /\ t \in Nat /\ next \in Nat
           /\ next >= x /\ next <= hn /\ n + e <= next
           /\ x = w + 1 => next = (w + t) + 1
           /\ x = hn => t = 0 /\ next = x
           /\ \A i \in 1..(w + t) : i > w =>
                 /\ x = w + 1 /\ x - n + 1 <= e
                 /\ i - w \in 1..t
                 /\ (x - n + 1) + (i - w) - 1 \in 1..e
                 /\ n + ((x - n + 1) + (i - w) - 1) - 1 = i
OBVIOUS

\* append_replicated_entries with entries of the primary's WAL.
LEMMA WalAppendAdvances ==
    ASSUME NEW r, NEW h, NEW n \in Nat, NEW es \in Seq(Entry), Good(r), Good(h),
           n >= 1, n <= r.next, Behind(r, h), Copied(h, n, es)
    PROVE  /\ Advances(r, WalAppend(r, n, es), h)
           /\ n + Len(es) <= WalAppend(r, n, es).next
           /\ WalAppend(r, n, es).dcommit = r.dcommit
<1> DEFINE q == WalAppend(r, n, es)
<1>1. /\ r.wal \in Seq(Entry) /\ Len(r.wal) \in Nat /\ r.next \in Nat
      /\ r.next >= Len(r.wal) /\ r.next <= Len(r.wal) + 1 /\ h.next \in Nat
    BY GoodNumbers
<1>2. PICK w \in Nat, x \in Nat, e \in Nat, hn \in Nat :
          w = Len(r.wal) /\ x = r.next /\ e = Len(es) /\ hn = h.next
    BY <1>1
<1>3. PICK tail : tail = SubSeq(es, x - n + 1, e)
    OBVIOUS
<1>4. q.wal = r.wal \o tail /\ q.next = MaxOf(x, n + e) /\ q.dcommit = r.dcommit
    BY <1>2, <1>3 DEF WalAppend, Good, ServerState
<1>5. /\ n >= 1 /\ n <= x /\ x >= w /\ x <= w + 1 /\ x <= hn /\ n + e <= hn
      /\ x = w + 1 \/ x = hn
    BY <1>1, <1>2 DEF Behind, Copied
<1>6. x - n + 1 \in Nat /\ x - n + 1 >= 1
    BY <1>5
<1>7. tail \in Seq(Entry) /\ Len(tail) = IF x - n + 1 <= e THEN e - (x - n + 1) + 1 ELSE 0
    BY <1>2, <1>3, <1>6, TailType
<1>8. x - n + 1 <= e => \A i \in 1..Len(tail) : tail[i] = es[(x - n + 1) + i - 1]
    <2> SUFFICES ASSUME x - n + 1 <= e
                 PROVE  \A i \in 1..Len(tail) : tail[i] = es[(x - n + 1) + i - 1]
        OBVIOUS
    <2>1. PICK k \in 1..e : k = x - n + 1
        BY <1>6
    <2>4. k \in 1..Len(es)
        BY <1>2, <2>1
    <2>5. \A i \in 1..(Len(es) - k + 1) : SubSeq(es, k, Len(es))[i] = es[k + i - 1]
        BY <2>4, TailElements
    <2>2. \A i \in 1..(e - k + 1) : tail[i] = es[k + i - 1]
        BY <1>2, <1>3, <2>1, <2>5
    <2>3. Len(tail) = e - k + 1
        BY <1>7, <2>1
    <2> QED
        BY <2>1, <2>2, <2>3
<1>9. PICK t, next : t = Len(tail) /\ next = IF x >= n + e THEN x ELSE n + e
    OBVIOUS
<1>10. q.next = next
    BY <1>4, <1>9 DEF MaxOf
<1>11. /\ t \in Nat /\ next \in Nat
       /\ next >= x /\ next <= hn /\ n + e <= next
       /\ x = w + 1 => next = (w + t) + 1
       /\ x = hn => t = 0 /\ next = x
       /\ \A i \in 1..(w + t) : i > w =>
             /\ x = w + 1 /\ x - n + 1 <= e
             /\ i - w \in 1..t
             /\ (x - n + 1) + (i - w) - 1 \in 1..e
             /\ n + ((x - n + 1) + (i - w) - 1) - 1 = i
    BY <1>5, <1>7, <1>9, TailNumbers
<1>12. PICK wal : wal = r.wal \o tail
    OBVIOUS
<1>13. /\ wal \in Seq(Entry) /\ Len(wal) = w + t
       /\ \A i \in 1..w : wal[i] = r.wal[i]
    BY <1>1, <1>2, <1>7, <1>9, <1>12, ConcatKeeps
<1>14. \A i \in 1..(w + t) : i > w => wal[i] = tail[i - w]
    <2>1. \A j \in 1..t : wal[w + j] = tail[j]
        <3>1. r.wal \in Seq(Entry) /\ tail \in Seq(Entry)
            BY <1>1, <1>7
        <3>2. \A j \in 1..Len(tail) : (r.wal \o tail)[Len(r.wal) + j] = tail[j]
            BY <3>1, ConcatElements
        <3> QED
            BY <1>2, <1>9, <1>12, <3>2
    <2> SUFFICES ASSUME NEW i \in 1..(w + t), i > w PROVE wal[i] = tail[i - w]
        OBVIOUS
    <2>2. i - w \in 1..t /\ w + (i - w) = i
        BY <1>11
    <2> QED
        BY <2>1, <2>2
<1>15. t = 0 => wal = r.wal
    BY <1>1, <1>7, <1>9, <1>12
<1>16. ASSUME NEW i \in 1..(w + t) PROVE wal[i] = h.wal[i]
    <2>1. CASE i <= w
        BY <1>2, <1>13, <2>1 DEF Behind
    <2>2. CASE i > w
        <3>1. PICK j \in 1..e : j = (x - n + 1) + (i - w) - 1 /\ n + j - 1 = i
            BY <1>11, <2>2
        <3>2. wal[i] = tail[i - w] /\ i - w \in 1..t /\ x - n + 1 <= e
            BY <1>11, <1>14, <2>2
        <3>3. tail[i - w] = es[j]
            BY <1>8, <1>9, <3>1, <3>2
        <3>4. es[j] = h.wal[n + j - 1]
            BY <1>2, <3>1 DEF Copied
        <3> QED
            BY <3>1, <3>2, <3>3, <3>4
    <2> QED
        BY <1>11, <2>1, <2>2
<1> HIDE DEF q
<1>17. Len(q.wal) = w + t /\ q.wal = wal
    BY <1>4, <1>12, <1>13
<1>18. Grows(r, q)
    BY <1>2, <1>10, <1>11, <1>13, <1>17 DEF Grows
<1>19. Advances(r, q, h)
    BY <1>2, <1>10, <1>11, <1>15, <1>16, <1>17, <1>18 DEF Advances
<1> QED
    BY <1>2, <1>4, <1>10, <1>11, <1>19 DEF q

\* Advancing along h's WAL leaves a server behind h, and composes.
LEMMA AdvancesBehind ==
    ASSUME NEW r, NEW q, NEW h, Behind(r, h), Advances(r, q, h)
    PROVE  Behind(q, h)
BY DEF Behind, Advances

\* Two calls in a row advance as one.
LEMMA AdvancesTrans ==
    ASSUME NEW r, NEW q, NEW u, NEW h, Good(r), Good(q), Good(u), Good(h),
           Advances(r, q, h), Advances(q, u, h)
    PROVE  Advances(r, u, h)
<1>1. /\ Len(r.wal) \in Nat /\ Len(q.wal) \in Nat /\ Len(u.wal) \in Nat
      /\ r.next \in Nat /\ q.next \in Nat /\ u.next \in Nat
    BY GoodNumbers
<1>2. Grows(r, u)
    BY <1>1 DEF Advances, Grows
<1> QED
    BY <1>1, <1>2 DEF Advances

\* commit_and_apply_shards_through with a commit index below the primary's
\* next_log_index moves the commit index alone.
LEMMA CommitThroughAdvances ==
    ASSUME NEW r, NEW h, Good(r), Good(h), Behind(r, h), NEW c \in Nat, c < h.next
    PROVE  /\ Advances(r, CommitThrough(r, c), h)
           /\ CommitThrough(r, c).wal = r.wal
           /\ CommitThrough(r, c).dcommit <= r.dcommit \/ CommitThrough(r, c).dcommit <= c
<1> DEFINE last == MinOf(c, Len(r.wal))
           next == MaxOf(r.next, last + 1)
           q == CommitThrough(r, c)
<1>1. /\ r.wal \in Seq(Entry) /\ Len(r.wal) \in Nat /\ r.next \in Nat /\ r.dcommit \in Nat
      /\ h.next \in Nat /\ r.next >= Len(r.wal)
    BY GoodNumbers
<1>2. last \in Nat /\ last <= Len(r.wal) /\ last <= c
    BY <1>1 DEF MinOf
<1>3. CASE last > r.dcommit
    <2>1. q.wal = r.wal /\ q.next = next /\ q.dcommit = last
        BY <1>3 DEF CommitThrough, Good, ServerState
    <2> HIDE DEF last
    <2>2. r.next >= last + 1
        BY <1>1, <1>2 DEF Behind
    <2>3. next = r.next
        BY <1>1, <1>2, <2>2 DEF MaxOf
    <2> HIDE DEF q, next
    <2>4. Advances(r, q, h)
        BY <2>1, <2>3, SameWalAdvances, <1>1 DEF Advances, Grows, Behind
    <2> QED
        BY <1>2, <2>1, <2>4 DEF q
<1>4. CASE ~(last > r.dcommit)
    <2>1. q = r
        BY <1>4 DEF CommitThrough
    <2>2. Advances(r, r, h)
        BY SameWalAdvances DEF SameWal
    <2> QED
        BY <1>1, <2>1, <2>2
<1> QED
    BY <1>3, <1>4

\* The whole append handler, for entries of the primary's WAL and a commit index
\* below its next_log_index.
LEMMA AppendBatchAdvances ==
    ASSUME NEW r, NEW h, NEW n \in Nat, NEW es \in Seq(Entry), NEW c \in Nat,
           Good(r), Good(h), Behind(r, h), Copied(h, n, es), es = <<>> \/ n >= 1,
           c < h.next
    PROVE  LET res == AppendBatch(r, n, es, c)
           IN  /\ Advances(r, res.r, h)
               /\ res.ok /\ es # <<>> => n + Len(es) <= res.r.next
               /\ res.r.dcommit <= r.dcommit \/ res.r.dcommit <= c
<1> DEFINE prev == IF es = <<>> THEN LastIndex(r) ELSE n - 1
           prevTerm == IF prev \in DOMAIN r.wal THEN r.wal[prev].term ELSE 0
           t == IF es = <<>> THEN r.term ELSE es[Len(es)].term
           core == RaftAppend(r, t, prev, prevTerm, es, c)
           longer == IF es = <<>> THEN core.r ELSE WalAppend(core.r, n, es)
           done == CommitThrough(longer, c)
           res == AppendBatch(r, n, es, c)
<1>1. r.log \in Seq(Entry) /\ r.wal \in Seq(Entry) /\ r.term \in Nat
    BY DEF Good, ServerState
<1>2. prev \in Nat
    BY <1>1 DEF LastIndex
<1>3. prevTerm \in Nat
    <2>1. CASE prev \in DOMAIN r.wal
        <3>1. r.wal[prev] \in Entry
            BY <1>1, <2>1
        <3> QED
            BY <2>1, <3>1 DEF Entry
    <2>2. CASE prev \notin DOMAIN r.wal
        BY <2>2
    <2> QED
        BY <2>1, <2>2
<1>4. t \in Nat
    <2>1. CASE es = <<>>
        BY <1>1, <2>1
    <2>2. CASE es # <<>>
        <3>1. es[Len(es)] \in Entry
            BY <2>2
        <3> QED
            BY <2>2, <3>1 DEF Entry
    <2> QED
        BY <2>1, <2>2
<1>5. /\ WalFenced(core.r, n, es) \in BOOLEAN
      /\ res = IF ~core.ok \/ WalFenced(core.r, n, es) THEN [ok |-> FALSE, r |-> core.r]
               ELSE IF es # <<>> /\ n > WalTruncate(core.r, n, es).next
                    THEN [ok |-> FALSE, r |-> WalTruncate(core.r, n, es)]
               ELSE [ok |-> TRUE,
                     r |-> CommitThrough(IF es = <<>> THEN WalTruncate(core.r, n, es)
                                         ELSE WalAppend(WalTruncate(core.r, n, es), n, es), c)]
    BY DEF AppendBatch, WalFenced
<1>6. Evolves(r, core.r) /\ SameWal(r, core.r)
    BY <1>2, <1>3, <1>4, RaftAppendEvolves
<1> HIDE DEF core, res
<1>7. PICK k : k = core.r
    OBVIOUS
<1>8. Good(k) /\ k.wal = r.wal /\ k.next = r.next /\ k.dcommit = r.dcommit
    BY <1>6, <1>7 DEF Evolves, SameWal
<1>9. Behind(k, h) /\ Advances(r, k, h)
    BY <1>6, <1>7, <1>8, SameWalAdvances DEF Behind
<1>10. WalConflicts(k.wal, n, es) = {}
    BY <1>8, <1>9, NoConflicts
<1>11. WalTruncate(k, n, es) = k
    BY <1>10 DEF WalTruncate
<1>12. \/ res.r = k /\ res.ok = FALSE
       \/ res.r = done /\ (es = <<>> \/ ~(n > k.next))
    BY <1>5, <1>7, <1>11
<1>13. CASE res.r = k /\ res.ok = FALSE
    <2>1. k.dcommit <= r.dcommit
        BY <1>8, GoodNumbers
    <2> QED
        BY <1>9, <1>13, <2>1 DEF res
<1>14. CASE res.r = done /\ (es = <<>> \/ ~(n > k.next))
    <2>1. PICK u : u = longer
        OBVIOUS
    <2>2. /\ Good(u) /\ Advances(k, u, h) /\ u.dcommit = k.dcommit
          /\ es # <<>> => n + Len(es) <= u.next
        <3>1. CASE es = <<>>
            <4>1. u = k
                BY <1>7, <2>1, <3>1
            <4>2. Advances(k, k, h)
                BY <1>8, <1>9, SameWalAdvances DEF SameWal
            <4> QED
                BY <1>8, <3>1, <4>1, <4>2
        <3>2. CASE es # <<>>
            <4>1. k.next \in Nat
                BY <1>8, GoodNumbers
            <4>2. n >= 1 /\ n <= k.next
                BY <1>14, <3>2, <4>1
            <4>3. u = WalAppend(k, n, es)
                BY <1>7, <2>1, <3>2
            <4>4. Evolves(k, WalAppend(k, n, es))
                BY <1>8, <4>2, WalAppendEvolves
            <4>5. /\ Advances(k, WalAppend(k, n, es), h)
                  /\ n + Len(es) <= WalAppend(k, n, es).next
                  /\ WalAppend(k, n, es).dcommit = k.dcommit
                BY <1>8, <1>9, <4>2, WalAppendAdvances
            <4> QED
                BY <4>3, <4>4, <4>5 DEF Evolves
        <3> QED
            BY <3>1, <3>2
    <2>3. Behind(u, h)
        BY <1>9, <2>2, AdvancesBehind
    <2>4. PICK v : v = CommitThrough(u, c)
        OBVIOUS
    <2>5. Advances(u, v, h) /\ v.wal = u.wal /\ (v.dcommit <= u.dcommit \/ v.dcommit <= c)
        BY <2>2, <2>3, <2>4, CommitThroughAdvances
    <2>6. Good(v)
        BY <2>2, <2>4, CommitThroughEvolves DEF Evolves
    <2>7. Advances(r, v, h)
        <3>1. Advances(k, v, h)
            BY <1>8, <2>2, <2>5, <2>6, AdvancesTrans
        <3> QED
            BY <1>8, <1>9, <2>6, <3>1, AdvancesTrans
    <2>8. es # <<>> => n + Len(es) <= v.next
        <3>1. v.next >= u.next /\ v.next \in Nat /\ u.next \in Nat /\ Len(es) \in Nat
            BY <2>2, <2>5, <2>6, GoodNumbers DEF Advances, Grows
        <3> QED
            BY <2>2, <3>1
    <2>9. res.r = v
        BY <1>14, <2>1, <2>4
    <2> QED
        BY <1>8, <2>2, <2>5, <2>7, <2>8, <2>9 DEF res
<1> QED
    BY <1>12, <1>13, <1>14

\* The catch-up path with entries of the primary's WAL.
LEMMA CatchUpBatchAdvances ==
    ASSUME NEW r, NEW h, NEW n \in Nat, NEW es \in Seq(Entry), Good(r), Good(h),
           n >= 1, Behind(r, h), Copied(h, n, es)
    PROVE  Advances(r, CatchUpBatch(r, n, es), h)
<1> DEFINE q == CatchUpBatch(r, n, es)
<1>1. CASE WalConflicts(r.wal, n, es) # {} \/ n > r.next
    <2>1. q = r
        BY <1>1 DEF CatchUpBatch
    <2>2. Advances(r, r, h)
        BY SameWalAdvances DEF SameWal
    <2> QED
        BY <2>1, <2>2
<1>2. CASE ~(WalConflicts(r.wal, n, es) # {} \/ n > r.next)
    <2>1. PICK u : u = WalAppend(r, n, es)
        OBVIOUS
    <2>2. q = CommitThrough(u, n + Len(es) - 1)
        BY <1>2, <2>1 DEF CatchUpBatch
    <2> HIDE DEF q
    <2>3. r.next \in Nat /\ h.next \in Nat /\ Len(es) \in Nat
        BY GoodNumbers
    <2>4. n <= r.next /\ n + Len(es) <= h.next
        BY <1>2, <2>3 DEF Copied
    <2>5. Good(u)
        BY <2>1, <2>4, WalAppendEvolves DEF Evolves
    <2>6. Advances(r, u, h)
        BY <2>1, <2>4, WalAppendAdvances
    <2>7. Behind(u, h)
        BY <2>6, AdvancesBehind
    <2>12. n + Len(es) - 1 \in Nat /\ n + Len(es) - 1 < h.next
        BY <2>3, <2>4
    <2>8. PICK c \in Nat : c = n + Len(es) - 1 /\ c < h.next
        BY <2>12
    <2>9. Advances(u, CommitThrough(u, c), h)
        BY <2>5, <2>7, <2>8, CommitThroughAdvances
    <2>10. Good(CommitThrough(u, c))
        BY <2>5, CommitThroughEvolves DEF Evolves
    <2>11. Advances(r, CommitThrough(u, c), h)
        BY <2>5, <2>6, <2>9, <2>10, AdvancesTrans
    <2> QED
        BY <2>2, <2>8, <2>11 DEF q
<1> QED
    BY <1>1, <1>2

\* Whoever follows keeps following through vote requests and their answers.
LEMMA FollowersDoNotWin ==
    ASSUME NEW r, Good(r), r.role = "Follower", NEW m, NEW s
    PROVE  RequestVote(r, m).role = "Follower" /\ RecordVote(r, s, m).role = "Follower"
<1>1. r \in ServerState
    BY DEF Good
<1>2. StepDown(r, m.term).role = "Follower" /\ StepDown(r, m.term).vote \in Server \cup {None}
    BY <1>1 DEF StepDown, ServerState
<1>3. [r EXCEPT !.vote = m.cand].role = "Follower"
    BY <1>1 DEF ServerState
<1>4. [StepDown(r, m.term) EXCEPT !.vote = m.cand].role = "Follower"
    BY <1>1 DEF StepDown, ServerState
<1>5. RequestVote(r, m).role = "Follower"
    BY <1>2, <1>3, <1>4 DEF RequestVote
<1>6. RecordVote(r, s, m).role = "Follower"
    BY <1>2 DEF RecordVote
<1> QED
    BY <1>5, <1>6

\* A reopened server has its WAL, with next_log_index at its end, and only the
\* routing-table primary opens as leader.
LEMMA ReopenedFollows ==
    ASSUME NEW r, Good(r), NEW s \in Server
    PROVE  LET q == Reopened(r, s)
           IN  /\ q.wal = r.wal /\ q.next = Len(r.wal) + 1 /\ q.dcommit = r.dcommit
               /\ s # Primary => q.role = "Follower"
<1> DEFINE c == MinOf(r.dcommit, Len(r.wal))
           zero == [v \in Server |-> 0]
           x == Len(r.wal) + 1
           mid == [r EXCEPT !.role = "Follower", !.votes = {}, !.log = r.wal,
                            !.rcommit = c, !.match = zero, !.next = x]
           q == Reopened(r, s)
<1>1. /\ r \in ServerState /\ r.wal \in Seq(Entry) /\ r.dcommit \in Nat /\ r.term \in Nat
      /\ r.dcommit <= Len(r.wal)
    BY DEF Good, ServerState
<1>2. c \in Nat /\ zero \in [Server -> Nat] /\ x \in Nat
    BY <1>1 DEF MinOf
<1>3. q = Opened(mid, s)
    BY DEF Reopened
<1> HIDE DEF c, zero
<1>4. mid \in ServerState
    BY <1>1, <1>2 DEF ServerState
<1>5. mid.wal = r.wal /\ mid.dcommit = r.dcommit /\ mid.next = x /\ mid.role = "Follower"
    BY <1>1 DEF ServerState
<1> HIDE DEF mid
<1>6. Good(mid)
    BY <1>1, <1>4, <1>5 DEF Good
<1>7. SameWal(mid, q)
    BY <1>3, <1>5, <1>6, OpenedEvolves
<1>8. s # Primary => q = mid
    BY <1>3 DEF Opened
<1> HIDE DEF q
<1> QED
    BY <1>5, <1>7, <1>8 DEF SameWal, q

-----------------------------------------------------------------------------
\* Replicas that follow still follow when the primary's WAL has grown.
LEMMA FollowsGrown ==
    ASSUME NEW r, NEW h, NEW g, Good(r), Good(h), Good(g), Follows(r, h), Grows(h, g)
    PROVE  Follows(r, g)
<1>1. /\ Len(r.wal) \in Nat /\ Len(h.wal) \in Nat /\ h.next \in Nat /\ g.next \in Nat
      /\ r.next \in Nat /\ h.next <= Len(h.wal) + 1
    BY GoodNumbers
<1>2. Len(r.wal) <= Len(h.wal)
    BY <1>1 DEF Follows
<1> QED
    BY <1>1, <1>2 DEF Follows, Grows

\* What a step must do to keep the group steady: replicas follow what the
\* primary's WAL was, the primary's WAL grows, and what is announced or
\* published newly comes from it.
LEMMA SteadyKept ==
    ASSUME IInv, IInv', Steady,
           \A s \in Server \ {Primary} : /\ pending'[s] = None
                                         /\ Follows(srv'[s], srv[Primary])
                                         /\ Grows(srv[s], srv'[s]),
           Grows(srv[Primary], srv'[Primary]),
           \A s \in Server : announced'[s] < srv[Primary].next,
           \A m \in published' : \/ m \in published
                                 \/ /\ m.origin = Primary
                                    /\ m.index < srv'[Primary].next
                                    /\ m.entry = srv'[Primary].wal[m.index]
    PROVE  Steady' /\ WalsGrow
<1> DEFINE h == srv[Primary]
           g == srv'[Primary]
<1>1. Primary \in Server /\ Good(h) /\ Good(g)
    BY ServerAssumption DEF IInv
<1>2. Len(h.wal) \in Nat /\ h.next \in Nat /\ g.next \in Nat /\ h.next <= Len(h.wal) + 1
    BY <1>1, GoodNumbers
<1>3. \A s \in Server \ {Primary} : Follows(srv'[s], g) /\ pending'[s] = None
    BY <1>1, FollowsGrown DEF IInv
<1> HIDE DEF h, g
<1>4. h.next <= g.next
    BY <1>2 DEF Grows, h, g
<1>5. \A s \in Server : announced'[s] < g.next
    <2> SUFFICES ASSUME NEW s \in Server PROVE announced'[s] < g.next
        OBVIOUS
    <2>1. announced'[s] \in Nat /\ announced'[s] < h.next
        BY DEF IInv, TypeOK, h
    <2> QED
        BY <1>2, <1>4, <2>1
<1>6. \A m \in published' : m.origin = Primary /\ m.index < g.next /\ m.entry = g.wal[m.index]
    <2> SUFFICES ASSUME NEW m \in published'
                 PROVE  m.origin = Primary /\ m.index < g.next /\ m.entry = g.wal[m.index]
        OBVIOUS
    <2>1. CASE m \in published
        <3>1. m.index \in Nat /\ m.index # 0
            BY <2>1 DEF IInv, TypeOK
        <3>2. m.origin = Primary /\ m.index < h.next /\ m.entry = h.wal[m.index]
            BY <2>1 DEF Steady, h
        <3>3. m.index \in 1..Len(h.wal) /\ m.index < g.next
            BY <1>2, <1>4, <3>1, <3>2
        <3>4. g.wal[m.index] = h.wal[m.index]
            BY <3>3 DEF Grows, h, g
        <3> QED
            BY <3>2, <3>3, <3>4
    <2>2. CASE m \notin published
        BY <2>2 DEF g
    <2> QED
        BY <2>1, <2>2
<1>7. Steady'
    BY <1>3, <1>5, <1>6 DEF Steady, g
<1>8. WalsGrow
    BY DEF WalsGrow
<1> QED
    BY <1>7, <1>8

\* Steps that change one server and neither announce nor publish anything.
LEMMA SteadySet ==
    ASSUME IInv, IInv', Steady, NEW p \in Server, NEW q, Set(p, q),
           Grows(srv[p], q), p # Primary => Follows(q, srv[Primary]),
           \A s \in Server \ {Primary} : pending'[s] = None,
           UNCHANGED <<announced, published>>
    PROVE  Steady' /\ WalsGrow
<1>1. srv'[p] = q /\ \A s \in Server : s # p => srv'[s] = srv[s]
    BY DEF Set, IInv, TypeOK
<1>2. Primary \in Server
    BY ServerAssumption
<1>3. ASSUME NEW s \in Server PROVE Grows(srv[s], srv'[s])
    <2>1. Len(srv[s].wal) \in Nat /\ srv[s].next \in Nat
        BY GoodNumbers DEF IInv
    <2> QED
        BY <1>1, <2>1 DEF Grows
<1>4. \A s \in Server \ {Primary} : Follows(srv'[s], srv[Primary])
    BY <1>1 DEF Steady
<1>5. Grows(srv[Primary], srv'[Primary])
    BY <1>2, <1>3
<1>6. \A s \in Server : announced'[s] < srv[Primary].next
    BY DEF Steady
<1>7. \A m \in published' : m \in published
    OBVIOUS
<1>8. \A s \in Server \ {Primary} : /\ pending'[s] = None
                                    /\ Follows(srv'[s], srv[Primary])
                                    /\ Grows(srv[s], srv'[s])
    BY <1>3, <1>4
<1> QED
    BY <1>5, <1>6, <1>7, <1>8, SteadyKept

-----------------------------------------------------------------------------
\* Where commit indexes, acknowledgements and announcements of a step come from:
\* a commit index is another server's, or announced, or the primary's after its
\* own announcement, or caught up by an operator; a peer counted as having
\* acknowledged holds the entry; what is announced was acknowledged.
CommitsBacked ==
    \A s \in Server :
        \/ \E q \in Server : srv'[s].dcommit <= srv[q].dcommit \/ srv'[s].dcommit <= announced[q]
        \/ /\ s = Primary /\ pending[s] # None
           /\ pending[s].sent /\ srv'[s].dcommit <= pending[s].index
        \/ OperatorCatchUp /\ s # Primary

AcksBacked ==
    pending'[Primary] # None =>
        /\ \A a \in pending'[Primary].acks :
              \/ pending'[Primary].index <= Len(srv'[a].wal)
              \/ /\ pending[Primary] # None /\ a \in pending[Primary].acks
                 /\ pending'[Primary].index = pending[Primary].index
        /\ pending'[Primary].sent =>
              \/ Cardinality(pending'[Primary].acks) >= RequiredAcks
              \/ /\ pending[Primary] # None /\ pending[Primary].sent
                 /\ pending'[Primary].acks = pending[Primary].acks

AnnouncedBacked ==
    \A s \in Server :
        \/ announced'[s] = announced[s]
        \/ /\ pending[Primary] # None
           /\ Cardinality(pending[Primary].acks) >= RequiredAcks
           /\ announced'[s] = pending[Primary].index

\* What every step does while the primary is alone.
SteadyStep == Steady' /\ WalsGrow /\ CommitsBacked /\ AcksBacked /\ AnnouncedBacked

\* A step that keeps or drops the write in progress and announces nothing.
LEMMA KeptBacked ==
    ASSUME pending'[Primary] \in {pending[Primary], None}, UNCHANGED announced
    PROVE  AcksBacked /\ AnnouncedBacked
BY DEF AcksBacked, AnnouncedBacked

\* A step after which no commit index is higher than some server's was.
LEMMA SetBacked ==
    ASSUME IInv, NEW p \in Server, NEW q, Set(p, q),
           \E s \in Server : q.dcommit <= srv[s].dcommit \/ q.dcommit <= announced[s]
    PROVE  CommitsBacked
<1>1. srv'[p] = q /\ \A s \in Server : s # p => srv'[s] = srv[s]
    BY DEF Set, IInv, TypeOK
<1>2. \A s \in Server : srv[s].dcommit <= srv[s].dcommit
    BY GoodNumbers DEF IInv
<1> QED
    BY <1>1, <1>2 DEF CommitsBacked

\* A step that leaves the servers alone backs every commit index.
LEMMA UnchangedBacked ==
    ASSUME IInv, UNCHANGED srv
    PROVE  CommitsBacked
<1>1. \A s \in Server : srv[s].dcommit <= srv[s].dcommit
    BY GoodNumbers DEF IInv
<1> QED
    BY <1>1 DEF CommitsBacked

\* Every server may be sent entries of the primary's WAL.
LEMMA AllBehind ==
    ASSUME IInv, Steady, NEW p \in Server
    PROVE  /\ Good(srv[p]) /\ Good(srv[Primary]) /\ Behind(srv[p], srv[Primary])
           /\ srv[p].dcommit < srv[Primary].next
<1>1. Good(srv[p]) /\ Good(srv[Primary])
    BY ServerAssumption DEF IInv
<1>2. /\ srv[p].next \in Nat /\ srv[Primary].next \in Nat /\ srv[p].dcommit \in Nat
      /\ srv[p].dcommit < srv[p].next
    BY <1>1, GoodNumbers
<1>3. CASE p = Primary
    BY <1>1, <1>2, <1>3 DEF Behind
<1>4. CASE p # Primary
    BY <1>1, <1>2, <1>4 DEF Behind, Steady, Follows
<1> QED
    BY <1>3, <1>4

\* A replica that advances along the primary's WAL without voting follows it.
LEMMA AdvancesFollows ==
    ASSUME IInv, Steady, NEW p \in Server, p # Primary, NEW q,
           Advances(srv[p], q, srv[Primary]), q.role \in {srv[p].role, "Follower"}
    PROVE  Follows(q, srv[Primary])
BY DEF Steady, Follows, Advances

\* Entries and commit indexes of the primary, received by anyone.
LEMMA SteadyAppend ==
    ASSUME IInv, IInv', Steady, NEW p \in Server, NEW n \in Nat, NEW es \in Seq(Entry),
           NEW c \in Nat, es = <<>> \/ n >= 1, Copied(srv[Primary], n, es),
           c < srv[Primary].next, Set(p, AppendBatch(srv[p], n, es, c).r),
           \A s \in Server \ {Primary} : pending'[s] = None,
           UNCHANGED <<announced, published>>
    PROVE  /\ Steady' /\ WalsGrow
           /\ srv'[p].dcommit <= srv[p].dcommit \/ srv'[p].dcommit <= c
           /\ AppendBatch(srv[p], n, es, c).ok /\ es # <<>> => n + Len(es) <= srv'[p].next
<1>1. PICK res : res = AppendBatch(srv[p], n, es, c)
    OBVIOUS
<1>2. Good(srv[p]) /\ Good(srv[Primary]) /\ Behind(srv[p], srv[Primary])
    BY AllBehind
<1>3. /\ Advances(srv[p], res.r, srv[Primary])
      /\ res.ok /\ es # <<>> => n + Len(es) <= res.r.next
      /\ res.r.dcommit <= srv[p].dcommit \/ res.r.dcommit <= c
    BY <1>1, <1>2, AppendBatchAdvances
<1>4. res.r.role \in {srv[p].role, "Follower"}
    BY <1>1, <1>2, AppendBatchEvolves DEF NotVoting
<1>5. p # Primary => Follows(res.r, srv[Primary])
    BY <1>3, <1>4, AdvancesFollows
<1>6. Set(p, res.r) /\ Grows(srv[p], res.r)
    BY <1>1, <1>3 DEF Advances
<1>7. Steady' /\ WalsGrow
    BY <1>5, <1>6, SteadySet
<1>8. srv'[p] = res.r
    BY <1>6 DEF Set, IInv, TypeOK
<1> QED
    BY <1>1, <1>3, <1>7, <1>8

-----------------------------------------------------------------------------
\* One lemma per action.  An append that was published, run late or again.
LEMMA LateAppendSteady ==
    ASSUME IInv, Steady, NEW p \in Server, NEW m \in published, LateAppend(p, m)
    PROVE  SteadyStep
<1> DEFINE es == <<m.entry>>
<1>1. m.index \in Nat /\ m.index >= 1 /\ m.entry \in Entry
    BY DEF IInv, TypeOK
<1>2. m.index < srv[Primary].next /\ m.entry = srv[Primary].wal[m.index]
    BY DEF Steady
<1>3. es \in Seq(Entry) /\ Len(es) = 1 /\ es[1] = m.entry
    BY <1>1
<1>4. srv[Primary].next \in Nat /\ srv[Primary].next >= 1 /\ srv[p].dcommit \in Nat
    BY GoodNumbers, AllBehind
<1>5. Copied(srv[Primary], m.index, es)
    BY <1>1, <1>2, <1>3, <1>4 DEF Copied
<1> HIDE DEF es
<1>6. IInv'
    BY LateAppendStep
<1>7. Set(p, AppendBatch(srv[p], m.index, es, 0).r)
    BY DEF LateAppend, es
<1>8. UNCHANGED <<pending, announced, published>>
    BY DEF LateAppend
<1>9. \A s \in Server \ {Primary} : pending'[s] = None
    BY <1>8 DEF Steady
<1>10. 0 \in Nat /\ 0 < srv[Primary].next
    BY <1>4
<1>11. Steady' /\ WalsGrow /\ (srv'[p].dcommit <= srv[p].dcommit \/ srv'[p].dcommit <= 0)
    BY <1>1, <1>3, <1>5, <1>6, <1>7, <1>8, <1>9, <1>10, SteadyAppend
<1>12. srv'[p] = AppendBatch(srv[p], m.index, es, 0).r /\ srv'[p].dcommit \in Nat
    BY <1>6, <1>7, GoodNumbers DEF Set, IInv, TypeOK
<1>13. CommitsBacked
    <2>1. srv'[p].dcommit <= srv[p].dcommit
        BY <1>4, <1>11, <1>12
    <2> QED
        BY <1>7, <1>12, <2>1, SetBacked
<1>14. AcksBacked /\ AnnouncedBacked
    BY <1>8, KeptBacked
<1> QED
    BY <1>11, <1>13, <1>14 DEF SteadyStep

\* A heartbeat carries a commit index of the group.
LEMMA HeartbeatSteady ==
    ASSUME IInv, Steady, NEW p \in Server, Heartbeat(p)
    PROVE  SteadyStep
<1>1. PICK c \in {announced[p]} \cup {srv[q].dcommit : q \in Server \ {p}} :
          Set(p, AppendBatch(srv[p], 0, <<>>, c).r)
    BY DEF Heartbeat
<1>2. c \in Nat /\ srv[p].dcommit \in Nat
    BY DEF IInv, TypeOK, Good, ServerState
<1>3. c < srv[Primary].next
    BY <1>2, AllBehind DEF Steady
<1>4. <<>> \in Seq(Entry) /\ Len(<<>>) = 0
    OBVIOUS
<1>5. Copied(srv[Primary], 0, <<>>)
    BY <1>2, <1>3, <1>4, AllBehind, GoodNumbers DEF Copied
<1>6. IInv'
    BY HeartbeatStep
<1>7. UNCHANGED <<pending, announced, published>>
    BY DEF Heartbeat
<1>8. \A s \in Server \ {Primary} : pending'[s] = None
    BY <1>7 DEF Steady
<1>9. Steady' /\ WalsGrow /\ (srv'[p].dcommit <= srv[p].dcommit \/ srv'[p].dcommit <= c)
    BY <1>1, <1>2, <1>3, <1>4, <1>5, <1>6, <1>7, <1>8, SteadyAppend
<1>10. srv'[p] = AppendBatch(srv[p], 0, <<>>, c).r
    BY <1>1 DEF Set, IInv, TypeOK
<1>11. \E s \in Server : srv'[p].dcommit <= srv[s].dcommit \/ srv'[p].dcommit <= announced[s]
    BY <1>1, <1>9
<1>12. CommitsBacked
    BY <1>1, <1>10, <1>11, SetBacked
<1>13. AcksBacked /\ AnnouncedBacked
    BY <1>7, KeptBacked
<1> QED
    BY <1>9, <1>12, <1>13 DEF SteadyStep

\* The pump sends a committed part of a WAL, which is a part of the primary's.
LEMMA PumpSteady ==
    ASSUME IInv, Steady, NEW s \in Server, NEW p \in Server, Pump(s, p)
    PROVE  SteadyStep
<1>1. PICK d \in Nat, w \in Seq(Entry) : d = srv[s].dcommit /\ w = srv[s].wal /\ d <= Len(w)
    BY GoodNumbers DEF IInv
<1>2. PICK n \in 1..d : Set(p, AppendBatch(srv[p], n, SubSeq(w, n, d), d).r)
    BY <1>1 DEF Pump
<1>3. \A i \in n..d : w[i] \in Entry
    BY <1>1
<1>4. PICK es : es = SubSeq(w, n, d)
    OBVIOUS
<1>5. /\ es \in Seq(Entry) /\ Len(es) = d - n + 1
      /\ \A i \in 1..(d - n + 1) : es[i] = w[n + i - 1]
    BY <1>1, <1>3, <1>4, SubSeqProperties
<1>6. d < srv[Primary].next /\ srv[Primary].next \in Nat
    BY <1>1, AllBehind, GoodNumbers
<1>7. \A i \in 1..Len(w) : w[i] = srv[Primary].wal[i]
    BY <1>1, AllBehind DEF Behind
<1>8. Copied(srv[Primary], n, es)
    <2>1. n + Len(es) <= srv[Primary].next
        BY <1>5, <1>6
    <2>2. ASSUME NEW i \in 1..Len(es) PROVE es[i] = srv[Primary].wal[n + i - 1]
        <3>1. Len(es) = d - n + 1 /\ Len(w) \in Nat /\ d <= Len(w)
            BY <1>1, <1>5
        <3>2. i \in 1..(d - n + 1)
            BY <3>1
        <3>3. ASSUME NEW k \in Nat, d <= k PROVE n + i - 1 \in 1..k
            BY <3>2, <3>3
        <3>4. n + i - 1 \in 1..Len(w)
            BY <3>1, <3>3
        <3> QED
            BY <1>5, <1>7, <3>2, <3>4
    <2> QED
        BY <2>1, <2>2 DEF Copied
<1>9. IInv'
    BY PumpStep
<1>10. UNCHANGED <<pending, announced, published>>
    BY DEF Pump
<1>11. \A x \in Server \ {Primary} : pending'[x] = None
    BY <1>10 DEF Steady
<1>12. n \in Nat /\ n >= 1 /\ Set(p, AppendBatch(srv[p], n, es, d).r)
    BY <1>2, <1>4
<1>13. Steady' /\ WalsGrow /\ (srv'[p].dcommit <= srv[p].dcommit \/ srv'[p].dcommit <= d)
    BY <1>5, <1>6, <1>8, <1>9, <1>10, <1>11, <1>12, SteadyAppend
<1>14. srv'[p] = AppendBatch(srv[p], n, es, d).r
    BY <1>12 DEF Set, IInv, TypeOK
<1>15. \E x \in Server : srv'[p].dcommit <= srv[x].dcommit \/ srv'[p].dcommit <= announced[x]
    BY <1>1, <1>13
<1>16. CommitsBacked
    BY <1>12, <1>14, <1>15, SetBacked
<1>17. AcksBacked /\ AnnouncedBacked
    BY <1>10, KeptBacked
<1> QED
    BY <1>13, <1>16, <1>17 DEF SteadyStep

\* The catch-up command copies the primary's WAL to a replica.
LEMMA CatchUpSteady ==
    ASSUME IInv, Steady, NEW p \in Server, CatchUp(p)
    PROVE  SteadyStep
<1>1. PICK n \in Nat, w \in Seq(Entry) :
          n = srv[p].dcommit + 1 /\ w = srv[Primary].wal /\ n >= 1
    BY AllBehind, GoodNumbers
<1>2. PICK es : es = SubSeq(w, n, Len(w))
    OBVIOUS
<1>3. /\ OperatorCatchUp /\ p # Primary /\ Set(p, CatchUpBatch(srv[p], n, es))
      /\ Len(w) = srv[Primary].next - 1 /\ es # <<>>
    BY <1>1, <1>2, ServerAssumption DEF CatchUp
<1>4. UNCHANGED <<pending, announced, published>>
    BY DEF CatchUp
<1>5. IInv'
    BY CatchUpStep
<1>6. es \in Seq(Entry) /\ Len(es) = IF n <= Len(w) THEN Len(w) - n + 1 ELSE 0
    BY <1>1, <1>2, TailType
<1>7. n <= Len(w)
    BY <1>1, <1>3, <1>6
<1>8. \A i \in 1..Len(es) : es[i] = w[n + i - 1]
    <2>1. n \in 1..Len(w) /\ Len(es) = Len(w) - n + 1
        BY <1>1, <1>6, <1>7
    <2>2. \A i \in 1..(Len(w) - n + 1) : SubSeq(w, n, Len(w))[i] = w[n + i - 1]
        BY <2>1, TailElements
    <2> QED
        BY <1>2, <2>1, <2>2
<1>9. srv[Primary].next \in Nat /\ n + Len(es) <= srv[Primary].next
    <2>1. srv[Primary].next \in Nat
        BY AllBehind, GoodNumbers
    <2>2. PICK x \in Nat, l \in Nat, e \in Nat :
              x = srv[Primary].next /\ l = Len(w) /\ e = Len(es)
        BY <1>1, <1>6, <2>1
    <2>3. l = x - 1 /\ n <= l /\ e = IF n <= l THEN l - n + 1 ELSE 0
        BY <1>3, <1>6, <1>7, <2>2
    <2>4. n + e <= x
        BY <2>3
    <2> QED
        BY <2>2, <2>4
<1>10. Copied(srv[Primary], n, es)
    BY <1>1, <1>8, <1>9 DEF Copied
<1>11. PICK q : q = CatchUpBatch(srv[p], n, es)
    OBVIOUS
<1>12. Good(srv[p]) /\ Good(srv[Primary]) /\ Behind(srv[p], srv[Primary])
    BY AllBehind
<1>13. Advances(srv[p], q, srv[Primary])
    BY <1>1, <1>6, <1>10, <1>11, <1>12, CatchUpBatchAdvances
<1>14. q.role \in {srv[p].role, "Follower"}
    BY <1>1, <1>6, <1>11, <1>12, CatchUpBatchEvolves DEF NotVoting
<1>15. Set(p, q) /\ Follows(q, srv[Primary]) /\ Grows(srv[p], q)
    BY <1>3, <1>11, <1>13, <1>14, AdvancesFollows DEF Advances
<1>16. \A s \in Server \ {Primary} : pending'[s] = None
    BY <1>4 DEF Steady
<1>17. Steady' /\ WalsGrow
    BY <1>4, <1>5, <1>15, <1>16, SteadySet
<1>18. CommitsBacked
    <2>1. \A s \in Server : s # p => srv'[s] = srv[s]
        BY <1>15 DEF Set, IInv, TypeOK
    <2>2. \A s \in Server : srv[s].dcommit <= srv[s].dcommit
        BY GoodNumbers DEF IInv
    <2> QED
        BY <1>3, <2>1, <2>2 DEF CommitsBacked
<1>19. AcksBacked /\ AnnouncedBacked
    BY <1>4, KeptBacked
<1> QED
    BY <1>17, <1>18, <1>19 DEF SteadyStep

\* publish_batch at one target: only the primary publishes, from its own WAL,
\* and a target that acknowledges holds the entry.
LEMMA PublishToSteady ==
    ASSUME IInv, Steady, NEW s \in Server, NEW p \in Server, PublishTo(s, p)
    PROVE  SteadyStep
<1>1. s = Primary /\ pending[s] # None /\ p # Primary
    BY DEF PublishTo, Idle, Steady, Targets
<1>2. pending[s] \in [index : Nat, acks : SUBSET Server, sent : BOOLEAN]
    BY <1>1 DEF IInv, TypeOK
<1>3. PICK n \in Nat, acks \in SUBSET Server :
          n = pending[s].index /\ acks = pending[s].acks
    BY <1>2
<1>4. n \in 1..Len(srv[s].wal) /\ n < srv[s].next
    BY <1>1, <1>3 DEF IInv, PendingInWal
<1>5. PICK es : es = <<srv[s].wal[n]>>
    OBVIOUS
<1>6. /\ Set(p, AppendBatch(srv[p], n, es, 0).r)
      /\ pending' = [pending EXCEPT ![s].acks =
                        Acks(acks, p, AppendBatch(srv[p], n, es, 0).ok)]
      /\ ~pending[s].sent
      /\ UNCHANGED <<announced, published>>
    BY <1>3, <1>5 DEF PublishTo
<1>7. es \in Seq(Entry) /\ Len(es) = 1 /\ es[1] = srv[s].wal[n]
    <2>1. srv[s].wal \in Seq(Entry)
        BY GoodNumbers DEF IInv
    <2>2. srv[s].wal[n] \in Entry
        BY <1>4, <2>1
    <2> QED
        BY <1>5, <2>2
<1>8. srv[Primary].next \in Nat /\ srv[Primary].next >= 1 /\ srv[p].dcommit \in Nat
    BY GoodNumbers, AllBehind
<1>9. Copied(srv[Primary], n, es)
    BY <1>1, <1>4, <1>7, <1>8 DEF Copied
<1>10. IInv'
    BY PublishToStep
<1>11. pending \in [Server -> {None} \cup [index : Nat, acks : SUBSET Server, sent : BOOLEAN]]
    BY DEF IInv, TypeOK
<1>12. \A x \in Server \ {Primary} : pending'[x] = None
    BY <1>1, <1>6, <1>11 DEF Steady
<1>20. es # <<>>
    BY <1>5
<1>13. n >= 1 /\ 0 \in Nat /\ 0 < srv[Primary].next /\ es # <<>>
    BY <1>4, <1>8, <1>20
<1>14. /\ Steady' /\ WalsGrow /\ (srv'[p].dcommit <= srv[p].dcommit \/ srv'[p].dcommit <= 0)
       /\ AppendBatch(srv[p], n, es, 0).ok /\ es # <<>> => n + Len(es) <= srv'[p].next
    BY <1>6, <1>7, <1>9, <1>10, <1>12, <1>13, SteadyAppend
<1>15. srv'[p] = AppendBatch(srv[p], n, es, 0).r
    BY <1>6 DEF Set, IInv, TypeOK
<1>16. Good(srv'[p]) /\ srv'[p].dcommit \in Nat
    BY <1>10, GoodNumbers DEF IInv
<1>17. CommitsBacked
    <2>1. srv'[p].dcommit <= srv[p].dcommit
        BY <1>8, <1>14, <1>16
    <2> QED
        BY <1>6, <1>15, <2>1, SetBacked
<1>18. AnnouncedBacked
    BY <1>6 DEF AnnouncedBacked
<1>19. AcksBacked
    <2>1. PICK ok : ok = AppendBatch(srv[p], n, es, 0).ok
        OBVIOUS
    <2>2. PICK w : w = pending[s]
        OBVIOUS
    <2>3. /\ pending'[s] = [w EXCEPT !.acks = Acks(acks, p, ok)]
          /\ w \in [index : Nat, acks : SUBSET Server, sent : BOOLEAN]
        BY <1>2, <1>6, <1>11, <2>1, <2>2
    <2>4. /\ pending'[s].acks = Acks(acks, p, ok) /\ pending'[s].index = n
          /\ pending'[s].sent = FALSE
        BY <1>3, <1>6, <2>2, <2>3
    <2>5. ok => n <= Len(srv'[p].wal)
        <3>1. srv'[p].next \in Nat /\ Len(srv'[p].wal) \in Nat
              /\ srv'[p].next <= Len(srv'[p].wal) + 1
            BY <1>16, GoodNumbers
        <3>2. ok => n + 1 <= srv'[p].next
            BY <1>7, <1>13, <1>14, <2>1
        <3> QED
            BY <3>1, <3>2
    <2>6. \A a \in pending'[s].acks : a \in acks \/ (a = p /\ ok)
        BY <2>4 DEF Acks
    <2>7. \A a \in pending'[Primary].acks :
              \/ pending'[Primary].index <= Len(srv'[a].wal)
              \/ /\ pending[Primary] # None /\ a \in pending[Primary].acks
                 /\ pending'[Primary].index = pending[Primary].index
        BY <1>1, <1>3, <2>4, <2>5, <2>6
    <2> QED
        BY <1>1, <2>4, <2>7 DEF AcksBacked
<1> QED
    BY <1>14, <1>17, <1>18, <1>19 DEF SteadyStep

\* publish_batch giving up leaves the servers alone.
LEMMA PublishFailSteady ==
    ASSUME IInv, Steady, NEW s \in Server, PublishFail(s)
    PROVE  SteadyStep
<1>1. /\ pending' = [pending EXCEPT ![s] = None] /\ UNCHANGED <<srv, announced, published>>
    BY DEF PublishFail
<1>2. pending \in [Server -> {None} \cup [index : Nat, acks : SUBSET Server, sent : BOOLEAN]]
    BY DEF IInv, TypeOK
<1>3. \A x \in Server : pending'[x] \in {pending[x], None}
    BY <1>1, <1>2
<1>4. Steady'
    BY <1>1, <1>3 DEF Steady
<1>5. \A x \in Server : Grows(srv[x], srv[x])
    BY GoodNumbers DEF IInv, Grows
<1>6. WalsGrow
    BY <1>1, <1>5 DEF WalsGrow
<1>7. CommitsBacked
    BY <1>1, UnchangedBacked
<1>8. AcksBacked /\ AnnouncedBacked
    BY <1>1, <1>3, ServerAssumption, KeptBacked
<1> QED
    BY <1>4, <1>6, <1>7, <1>8 DEF SteadyStep

\* The commit heartbeats of publish_batch announce an index of the primary's
\* WAL that enough peers acknowledged.
LEMMA AnnounceCommitSteady ==
    ASSUME IInv, Steady, NEW s \in Server, AnnounceCommit(s)
    PROVE  SteadyStep
<1>1. s = Primary /\ pending[s] # None
    BY DEF AnnounceCommit, Idle, Steady
<1>2. /\ pending' = [pending EXCEPT ![s].sent = TRUE]
      /\ Cardinality(pending[s].acks) >= RequiredAcks
      /\ announced' = [p \in Server |->
                          IF p \in pending[s].acks \ {s}
                          THEN MaxOf(announced[p], pending[s].index) ELSE announced[p]]
      /\ UNCHANGED <<srv, published>>
    BY DEF AnnounceCommit
<1>3. /\ pending \in [Server -> {None} \cup
                        [index : Nat, acks : SUBSET Server, sent : BOOLEAN]]
      /\ pending[s] \in [index : Nat, acks : SUBSET Server, sent : BOOLEAN]
      /\ announced \in [Server -> Nat]
    BY <1>1 DEF IInv, TypeOK
<1>4. PICK w : w = pending[s]
    OBVIOUS
<1>5. pending'[s] = [w EXCEPT !.sent = TRUE] /\ \A x \in Server : x # s => pending'[x] = pending[x]
    BY <1>2, <1>3, <1>4
<1>6. pending'[s].acks = w.acks /\ pending'[s].index = w.index
    BY <1>3, <1>4, <1>5
<1>7. \A x \in Server : announced'[x] \in {announced[x], w.index}
    BY <1>2, <1>3, <1>4 DEF MaxOf
<1>8. w.index < srv[Primary].next
    BY <1>1, <1>4 DEF IInv, PendingInWal
<1>9. \A x \in Server : Grows(srv[x], srv[x])
    BY GoodNumbers DEF IInv, Grows
<1>10. WalsGrow
    BY <1>2, <1>9 DEF WalsGrow
<1>11. Steady'
    <2>1. \A x \in Server : announced'[x] < srv[Primary].next
        BY <1>7, <1>8 DEF Steady
    <2>2. \A x \in Server \ {Primary} : Follows(srv[x], srv[Primary]) /\ pending'[x] = None
        BY <1>1, <1>5 DEF Steady
    <2> QED
        BY <1>2, <2>1, <2>2 DEF Steady
<1>12. CommitsBacked
    BY <1>2, UnchangedBacked
<1>13. AcksBacked
    BY <1>1, <1>2, <1>4, <1>6 DEF AcksBacked
<1>14. AnnouncedBacked
    BY <1>1, <1>2, <1>4, <1>7 DEF AnnouncedBacked
<1> QED
    BY <1>10, <1>11, <1>12, <1>13, <1>14 DEF SteadyStep

\* The end of a write: the primary's commit index moves to the entry that was
\* announced, or stays.
LEMMA LeaderCommitSteady ==
    ASSUME IInv, Steady, NEW s \in Server, LeaderCommit(s)
    PROVE  SteadyStep
<1> DEFINE n == pending[s].index
           match == [v \in Server |-> IF v \in pending[s].acks THEN n ELSE srv[s].match[v]]
           mid == WithMatch(srv[s], match)
           r == AdvanceCommit(mid)
<1>1. /\ s = Primary /\ pending[s] # None /\ pending[s].sent
      /\ pending' = [pending EXCEPT ![s] = None]
      /\ UNCHANGED <<announced, published>>
    BY DEF LeaderCommit, Idle, Steady
<1>2. mid = [srv[s] EXCEPT !.match =
                [v \in Server |-> IF v \in pending[s].acks THEN n ELSE @[v]]]
    BY DEF WithMatch
<1>3. \/ n = r.dcommit + 1 /\ Set(s, [r EXCEPT !.dcommit = n])
      \/ Set(s, r)
    BY <1>2 DEF LeaderCommit
<1>4. /\ pending \in [Server -> {None} \cup
                        [index : Nat, acks : SUBSET Server, sent : BOOLEAN]]
      /\ n \in Nat /\ Good(srv[s]) /\ srv[s].match \in [Server -> Nat]
    BY <1>1 DEF IInv, TypeOK, Good, ServerState
<1>5. match \in [Server -> Nat]
    BY <1>4
<1> HIDE DEF match
<1>6. SameWal(srv[s], mid) /\ Good(mid)
    BY <1>4, <1>5, MatchEvolves DEF Evolves
<1> HIDE DEF mid
<1>7. SameWal(mid, r) /\ Good(r)
    BY <1>6, AdvanceCommitEvolves DEF Evolves
<1> HIDE DEF r
<1>8. PICK q : /\ Set(s, q) /\ q.wal = srv[s].wal /\ q.next = srv[s].next
               /\ q.dcommit \in {srv[s].dcommit, n}
    <2>1. r.wal = srv[s].wal /\ r.next = srv[s].next /\ r.dcommit = srv[s].dcommit
        BY <1>6, <1>7 DEF SameWal
    <2>2. CASE Set(s, r)
        BY <2>1, <2>2
    <2>3. CASE Set(s, [r EXCEPT !.dcommit = n])
        <3>1. PICK u : u = [r EXCEPT !.dcommit = n]
            OBVIOUS
        <3>2. u.wal = r.wal /\ u.next = r.next /\ u.dcommit = n
            BY <1>7, <3>1 DEF Good, ServerState
        <3> QED
            BY <2>1, <2>3, <3>1, <3>2
    <2> QED
        BY <1>3, <2>2, <2>3
<1>9. IInv'
    BY LeaderCommitStep
<1>10. \A x \in Server : pending'[x] \in {pending[x], None}
    BY <1>1, <1>4
<1>11. \A x \in Server \ {Primary} : pending'[x] = None
    BY <1>10 DEF Steady
<1>12. Len(srv[s].wal) \in Nat /\ srv[s].next \in Nat /\ srv[s].dcommit \in Nat
    BY <1>4, GoodNumbers
<1>13. Grows(srv[s], q)
    BY <1>8, <1>12 DEF Grows
<1>14. Steady' /\ WalsGrow
    BY <1>1, <1>8, <1>9, <1>11, <1>13, SteadySet
<1>15. CommitsBacked
    <2>1. srv'[s] = q /\ \A x \in Server : x # s => srv'[x] = srv[x]
        BY <1>8 DEF Set, IInv, TypeOK
    <2>2. \A x \in Server : srv[x].dcommit <= srv[x].dcommit
        BY GoodNumbers DEF IInv
    <2>3. n <= n
        BY <1>4
    <2> QED
        BY <1>1, <1>8, <2>1, <2>2, <2>3 DEF CommitsBacked
<1>16. AcksBacked /\ AnnouncedBacked
    BY <1>1, <1>10, ServerAssumption, KeptBacked
<1> QED
    BY <1>14, <1>15, <1>16 DEF SteadyStep

\* append_local_command: only a leader writes, so only the primary does, at the
\* end of its WAL.
LEMMA ClientWriteSteady ==
    ASSUME IInv, Steady, NEW s \in Server, NEW v \in Value, ClientWrite(s, v)
    PROVE  SteadyStep
<1>1. PICK r, e : r = srv[s] /\ e = [term |-> r.term, val |-> v]
    OBVIOUS
<1> DEFINE logged == [r EXCEPT !.wal = Append(@, e)]
           both == [logged EXCEPT !.log = Append(@, e), !.match[s] = r.next,
                                  !.next = r.next + 1]
           entry == [index |-> r.next, entry |-> e, origin |-> s]
           write == [index |-> r.next, acks |-> {s}, sent |-> FALSE]
<1>2. /\ r \in ServerState /\ r.wal \in Seq(Entry) /\ r.next \in Nat /\ r.dcommit \in Nat
      /\ r.term \in Nat /\ Good(r) /\ Len(r.wal) \in Nat
    BY <1>1 DEF IInv, Good, ServerState
<1>3. Len(r.wal) = r.next - 1 /\ r.role = "Leader"
    BY <1>1 DEF ClientWrite
<1>4. s = Primary
    BY <1>1, <1>3 DEF Steady, Follows
<1>5. \/ /\ Set(s, logged) /\ UNCHANGED <<pending, published>>
      \/ /\ Set(s, AdvanceCommit(both))
         /\ pending' = [pending EXCEPT ![s] = write]
         /\ published' = published \cup {entry}
    BY <1>1 DEF ClientWrite
<1>6. UNCHANGED announced
    BY DEF ClientWrite
<1>7. e \in Entry
    BY <1>1, <1>2 DEF Entry
<1>8. IInv'
    BY ClientWriteStep
<1>9. PICK wal : wal = Append(r.wal, e)
    OBVIOUS
<1>10. /\ wal \in Seq(Entry) /\ Len(wal) = Len(r.wal) + 1 /\ wal[Len(r.wal) + 1] = e
       /\ \A i \in 1..Len(r.wal) : wal[i] = r.wal[i]
    BY <1>2, <1>7, <1>9, AppendProperties
<1>11. logged.wal = wal /\ logged.next = r.next /\ logged.dcommit = r.dcommit
    BY <1>2, <1>9 DEF ServerState
<1>12. /\ AdvanceCommit(both).wal = wal /\ AdvanceCommit(both).next = r.next + 1
       /\ AdvanceCommit(both).dcommit = r.dcommit
    <2>1. both.wal = wal /\ both.next = r.next + 1 /\ both.dcommit = r.dcommit
        BY <1>2, <1>9 DEF ServerState
    <2>2. \A c : LET u == [both EXCEPT !.rcommit = c]
                 IN  u.wal = wal /\ u.next = r.next + 1 /\ u.dcommit = r.dcommit
        BY <1>2, <1>9 DEF ServerState
    <2> HIDE DEF both
    <2>3. AdvanceCommit(both) = both \/ \E c : AdvanceCommit(both) = [both EXCEPT !.rcommit = c]
        BY DEF AdvanceCommit
    <2> QED
        BY <2>1, <2>2, <2>3
<1> HIDE DEF logged, both
<1>13. PICK q : /\ Set(s, q) /\ q.wal = wal /\ q.dcommit = r.dcommit
                /\ \/ q.next = r.next /\ UNCHANGED <<pending, published>>
                   \/ /\ q.next = r.next + 1 /\ pending' = [pending EXCEPT ![s] = write]
                      /\ published' = published \cup {entry}
    BY <1>5, <1>11, <1>12
<1>14. /\ pending \in [Server -> {None} \cup
                         [index : Nat, acks : SUBSET Server, sent : BOOLEAN]]
    BY DEF IInv, TypeOK
<1>15. srv'[s] = q /\ \A x \in Server : x # s => srv'[x] = srv[x]
    BY <1>13 DEF Set, IInv, TypeOK
<1>16. Grows(srv[s], srv'[s])
    BY <1>1, <1>2, <1>10, <1>13, <1>15 DEF Grows
<1>17. Steady' /\ WalsGrow
    <2>1. \A x \in Server \ {Primary} : /\ pending'[x] = None
                                        /\ Follows(srv'[x], srv[Primary])
                                        /\ Grows(srv[x], srv'[x])
        <3> SUFFICES ASSUME NEW x \in Server \ {Primary}
                     PROVE  /\ pending'[x] = None /\ Follows(srv'[x], srv[Primary])
                            /\ Grows(srv[x], srv'[x])
            OBVIOUS
        <3>1. pending'[x] = pending[x]
            BY <1>4, <1>13, <1>14
        <3>2. srv'[x] = srv[x] /\ Len(srv[x].wal) \in Nat /\ srv[x].next \in Nat
            BY <1>4, <1>15, GoodNumbers DEF IInv
        <3> QED
            BY <3>1, <3>2 DEF Steady, Grows
    <2>2. Grows(srv[Primary], srv'[Primary])
        BY <1>4, <1>16
    <2>3. \A x \in Server : announced'[x] < srv[Primary].next
        BY <1>6 DEF Steady
    <2>4. \A m \in published' : \/ m \in published
                                \/ /\ m.origin = Primary
                                   /\ m.index < srv'[Primary].next
                                   /\ m.entry = srv'[Primary].wal[m.index]
        <3>1. CASE UNCHANGED published
            BY <3>1
        <3>2. CASE q.next = r.next + 1 /\ published' = published \cup {entry}
            <4>1. entry.origin = s /\ entry.index = r.next /\ entry.entry = e
                OBVIOUS
            <4>2. r.next < q.next /\ wal[r.next] = e
                BY <1>2, <1>3, <1>10, <3>2
            <4> HIDE DEF entry
            <4> QED
                BY <1>4, <1>13, <1>15, <3>2, <4>1, <4>2
        <3> QED
            BY <1>13, <3>1, <3>2
    <2> QED
        BY <1>8, <2>1, <2>2, <2>3, <2>4, SteadyKept
<1>18. CommitsBacked
    <2>1. \A x \in Server : srv'[x].dcommit = srv[x].dcommit
        BY <1>1, <1>13, <1>15
    <2>2. \A x \in Server : srv[x].dcommit <= srv[x].dcommit
        BY GoodNumbers DEF IInv
    <2> QED
        BY <2>1, <2>2 DEF CommitsBacked
<1>19. AnnouncedBacked
    BY <1>6 DEF AnnouncedBacked
<1>20. AcksBacked
    <2>1. CASE UNCHANGED <<pending, published>>
        BY <1>6, <2>1, KeptBacked
    <2>2. CASE pending' = [pending EXCEPT ![s] = write]
        <3>1. pending'[s] = write
            BY <1>14, <2>2
        <3>2. write.acks = {s} /\ write.index = r.next /\ write.sent = FALSE
            OBVIOUS
        <3>3. r.next <= Len(srv'[s].wal)
            BY <1>2, <1>3, <1>10, <1>13, <1>15
        <3> HIDE DEF write
        <3> QED
            BY <1>4, <3>1, <3>2, <3>3 DEF AcksBacked
    <2> QED
        BY <1>13, <2>1, <2>2
<1> QED
    BY <1>17, <1>18, <1>19, <1>20 DEF SteadyStep

\* Steps that leave servers, writes in progress, announcements and published
\* entries alone.
LEMMA QuietSteady ==
    ASSUME IInv, Steady, UNCHANGED <<srv, pending, announced, published>>
    PROVE  SteadyStep
<1>1. Steady'
    BY DEF Steady
<1>2. \A x \in Server : Grows(srv[x], srv[x])
    BY GoodNumbers DEF IInv, Grows
<1>3. WalsGrow
    BY <1>2 DEF WalsGrow
<1>4. CommitsBacked
    BY UnchangedBacked
<1>5. AcksBacked /\ AnnouncedBacked
    BY KeptBacked
<1> QED
    BY <1>1, <1>3, <1>4, <1>5 DEF SteadyStep

\* Steps that keep the WAL of the one server they change, who still follows
\* unless it is the primary.
LEMMA SameWalSteady ==
    ASSUME IInv, IInv', Steady, NEW p \in Server, NEW q, Set(p, q),
           SameWal(srv[p], q), p # Primary => q.role = "Follower",
           UNCHANGED <<pending, announced, published>>
    PROVE  SteadyStep
<1>1. Good(srv[p]) /\ Len(srv[p].wal) \in Nat /\ srv[p].next \in Nat /\ srv[p].dcommit \in Nat
    BY GoodNumbers DEF IInv
<1>2. Grows(srv[p], q)
    BY <1>1 DEF Grows, SameWal
<1>3. p # Primary => Follows(q, srv[Primary])
    BY DEF Steady, Follows, SameWal
<1>4. \A s \in Server \ {Primary} : pending'[s] = None
    BY DEF Steady
<1>5. Steady' /\ WalsGrow
    BY <1>2, <1>3, <1>4, SteadySet
<1>6. q.dcommit <= srv[p].dcommit
    BY <1>1 DEF SameWal
<1>7. CommitsBacked
    BY <1>6, SetBacked
<1>8. AcksBacked /\ AnnouncedBacked
    BY KeptBacked
<1> QED
    BY <1>5, <1>7, <1>8 DEF SteadyStep

\* start_raft_election: whoever campaigns votes for itself, so it is the primary.
LEMMA StartElectionSteady ==
    ASSUME IInv, Steady, PrimaryAlone', NEW s \in Server, StartElection(s)
    PROVE  SteadyStep
<1>1. UNCHANGED <<pending, announced, published>>
    BY DEF StartElection
<1>2. CASE UNCHANGED srv
    BY <1>1, <1>2, QuietSteady
<1>3. CASE ~UNCHANGED srv
    <2>1. PICK r : r = Campaign(srv[s], s)
        OBVIOUS
    <2>2. Set(s, r) /\ granted' = granted \cup {[term |-> r.term, voter |-> s, cand |-> s]}
        BY <1>3, <2>1 DEF StartElection
    <2>3. s = Primary
        <3>1. PICK g : g = [term |-> r.term, voter |-> s, cand |-> s]
            OBVIOUS
        <3>2. g \in granted' /\ g.cand = s
            BY <2>2, <3>1
        <3> QED
            BY <3>2 DEF PrimaryAlone
    <2>4. SameWal(srv[s], r)
        BY <2>1, CampaignEvolves DEF IInv
    <2>5. IInv'
        BY StartElectionStep
    <2> QED
        BY <1>1, <2>2, <2>3, <2>4, <2>5, SameWalSteady
<1> QED
    BY <1>2, <1>3

\* request_raft_vote at a voter.
LEMMA HandleRequestVoteSteady ==
    ASSUME IInv, Steady, NEW p \in Server, NEW m \in requests, HandleRequestVote(p, m)
    PROVE  SteadyStep
<1>1. PICK q : q = RequestVote(srv[p], m)
    OBVIOUS
<1>2. Set(p, q) /\ UNCHANGED <<pending, announced, published>>
    BY <1>1 DEF HandleRequestVote
<1>3. m.term \in Nat /\ m.cand \in Server /\ Good(srv[p])
    BY DEF IInv, TypeOK
<1>4. SameWal(srv[p], q)
    BY <1>1, <1>3, RequestVoteEvolves
<1>5. p # Primary => q.role = "Follower"
    BY <1>1, <1>3, FollowersDoNotWin DEF Steady, Follows
<1>6. IInv'
    BY HandleRequestVoteStep
<1> QED
    BY <1>2, <1>4, <1>5, <1>6, SameWalSteady

\* record_raft_vote_response at the candidate.
LEMMA HandleVoteResponseSteady ==
    ASSUME IInv, Steady, NEW s \in Server, NEW m \in responses, HandleVoteResponse(s, m)
    PROVE  SteadyStep
<1>1. PICK q : q = RecordVote(srv[s], s, m)
    OBVIOUS
<1>2. Set(s, q) /\ UNCHANGED <<pending, announced, published>>
    BY <1>1 DEF HandleVoteResponse
<1>3. m.term \in Nat /\ m.voter \in Server /\ Good(srv[s])
    BY DEF IInv, TypeOK
<1>4. SameWal(srv[s], q)
    BY <1>1, <1>3, RecordVoteEvolves
<1>5. s # Primary => q.role = "Follower"
    BY <1>1, <1>3, FollowersDoNotWin DEF Steady, Follows
<1>6. IInv'
    BY HandleVoteResponseStep
<1> QED
    BY <1>2, <1>4, <1>5, <1>6, SameWalSteady

\* A restart keeps the WAL and moves next_log_index to its end.
LEMMA RestartSteady ==
    ASSUME IInv, Steady, NEW s \in Server, Restart(s)
    PROVE  SteadyStep
<1>1. PICK q : q = Reopened(srv[s], s)
    OBVIOUS
<1>2. Set(s, q) /\ pending' = [pending EXCEPT ![s] = None] /\ UNCHANGED <<announced, published>>
    BY <1>1 DEF Restart
<1>3. Good(srv[s]) /\ Len(srv[s].wal) \in Nat /\ srv[s].next \in Nat /\ srv[s].dcommit \in Nat
      /\ srv[s].next <= Len(srv[s].wal) + 1
    BY GoodNumbers DEF IInv
<1>4. /\ q.wal = srv[s].wal /\ q.next = Len(srv[s].wal) + 1 /\ q.dcommit = srv[s].dcommit
      /\ s # Primary => q.role = "Follower"
    BY <1>1, <1>3, ReopenedFollows
<1>5. Grows(srv[s], q)
    BY <1>3, <1>4 DEF Grows
<1>6. s # Primary => Follows(q, srv[Primary])
    BY <1>4 DEF Steady, Follows
<1>7. \A x \in Server : pending'[x] \in {pending[x], None}
    BY <1>2 DEF IInv, TypeOK
<1>8. \A x \in Server \ {Primary} : pending'[x] = None
    BY <1>7 DEF Steady
<1>9. IInv'
    BY RestartStep
<1>10. Steady' /\ WalsGrow
    BY <1>2, <1>5, <1>6, <1>8, <1>9, SteadySet
<1>11. q.dcommit <= srv[s].dcommit
    BY <1>3, <1>4
<1>12. CommitsBacked
    BY <1>2, <1>11, SetBacked
<1>13. AcksBacked /\ AnnouncedBacked
    BY <1>2, <1>7, ServerAssumption, KeptBacked
<1> QED
    BY <1>10, <1>12, <1>13 DEF SteadyStep

\* Every step, as long as the primary is alone after it.
LEMMA NextSteady ==
    ASSUME IInv, Steady, PrimaryAlone', [Next]_vars
    PROVE  SteadyStep
<1>1. CASE UNCHANGED vars
    BY <1>1, QuietSteady DEF vars
<1>2. ASSUME NEW s \in Server, PreVoteRound(s) PROVE SteadyStep
    BY <1>2, QuietSteady DEF PreVoteRound
<1>3. CASE Next
    BY <1>2, <1>3, StartElectionSteady, HandleRequestVoteSteady,
       HandleVoteResponseSteady, ClientWriteSteady, PublishToSteady, LateAppendSteady,
       PublishFailSteady, AnnounceCommitSteady, LeaderCommitSteady, HeartbeatSteady,
       PumpSteady, CatchUpSteady, RestartSteady DEF Next
<1> QED
    BY <1>1, <1>3

\* Votes are never taken back, so a primary that is alone was alone before.
LEMMA AloneBefore ==
    ASSUME PrimaryAlone', [Next]_vars
    PROVE  PrimaryAlone
<1>1. granted \subseteq granted'
    BY DEF Next, vars, PreVoteRound, StartElection, HandleRequestVote,
       HandleVoteResponse, ClientWrite, PublishTo, LateAppend, PublishFail,
       AnnounceCommit, LeaderCommit, Heartbeat, Pump, CatchUp, Restart
<1> QED
    BY <1>1 DEF PrimaryAlone

\* A group of fresh data directories is steady.
LEMMA InitSteady ==
    ASSUME Init
    PROVE  Steady
<1>1. \A s \in Server : srv[s] = Opened(Fresh, s) /\ pending[s] = None /\ announced[s] = 0
    BY DEF Init
<1>2. Good(Fresh) /\ Fresh.role = "Follower" /\ Fresh.wal = <<>> /\ Fresh.next = 1
    BY FreshGood DEF Fresh
<1>3. Primary \in Server /\ SameWal(Fresh, Opened(Fresh, Primary))
    BY <1>2, ServerAssumption, OpenedEvolves
<1>4. srv[Primary].next = 1
    BY <1>1, <1>2, <1>3 DEF SameWal
<1>5. \A s \in Server \ {Primary} : srv[s] = Fresh
    BY <1>1 DEF Opened
<1>6. \A s \in Server \ {Primary} : Follows(srv[s], srv[Primary])
    BY <1>2, <1>4, <1>5 DEF Follows
<1>7. published = {}
    BY DEF Init
<1> QED
    BY <1>1, <1>4, <1>6, <1>7 DEF Steady

\* The inductive invariant: steady until a replica stands for election.
LEMMA SteadyHolds == Spec => [](PrimaryAlone => Steady)
<1> DEFINE SteadyInv == PrimaryAlone => Steady
<1>1. Init => SteadyInv
    BY InitSteady
<1>2. IInv /\ SteadyInv /\ [Next]_vars => SteadyInv'
    BY AloneBefore, NextSteady DEF SteadyStep
<1> HIDE DEF SteadyInv
<1>3. Spec => []SteadyInv
    BY <1>1, <1>2, IInvHolds, PTL DEF Spec
<1> QED
    BY <1>3, PTL DEF SteadyInv

-----------------------------------------------------------------------------
\* While nobody but the routing-table primary has stood for election, whatever
\* two servers both committed is the same: late and repeated appends, pumps
\* from any server, catch-ups with uncommitted entries, new terms of the
\* primary and restarts included.  No ack policy is needed for that.
THEOREM SteadyLogsAgree == Spec => [](PrimaryAlone => StateMachineSafety)
<1>1. IInv /\ (PrimaryAlone => Steady) => (PrimaryAlone => StateMachineSafety)
    <2> SUFFICES ASSUME IInv, Steady, NEW p \in Server, NEW q \in Server,
                        NEW i \in 1..MinOf(srv[p].dcommit, srv[q].dcommit)
                 PROVE  srv[p].wal[i] = srv[q].wal[i]
        BY DEF StateMachineSafety
    <2>1. /\ srv[p].dcommit \in Nat /\ srv[q].dcommit \in Nat
          /\ Len(srv[p].wal) \in Nat /\ Len(srv[q].wal) \in Nat
          /\ srv[p].dcommit <= Len(srv[p].wal) /\ srv[q].dcommit <= Len(srv[q].wal)
        BY GoodNumbers DEF IInv
    <2>2. i \in 1..Len(srv[p].wal) /\ i \in 1..Len(srv[q].wal)
        BY <2>1 DEF MinOf
    <2>3. srv[p].wal[i] = srv[Primary].wal[i] /\ srv[q].wal[i] = srv[Primary].wal[i]
        BY <2>2, AllBehind DEF Behind
    <2> QED
        BY <2>3
<1> QED
    BY <1>1, IInvHolds, SteadyHolds, PTL

-----------------------------------------------------------------------------
\* The servers whose WAL holds index i.
Holders(i) == {q \in Server : i <= Len(srv[q].wal)}

\* Every commit index, known or announced, is held by a majority of the WALs,
\* and so is a write whose acknowledgements were enough.
Spread ==
    /\ \A s \in Server : HasQuorum(Holders(srv[s].dcommit)) /\ HasQuorum(Holders(announced[s]))
    /\ pending[Primary] # None =>
          /\ \A a \in pending[Primary].acks : pending[Primary].index <= Len(srv[a].wal)
          /\ pending[Primary].sent => Cardinality(pending[Primary].acks) >= RequiredAcks

\* A set of servers with a majority inside has one itself.
LEMMA QuorumGrows ==
    ASSUME NEW S, NEW T, HasQuorum(S), S \cap Server \subseteq T
    PROVE  HasQuorum(T)
<1>1. IsFiniteSet(Server)
    BY ServerAssumption
<1>2. IsFiniteSet(T \cap Server)
    BY <1>1, FS_Subset
<1>3. S \cap Server \subseteq T \cap Server
    OBVIOUS
<1>4. /\ Cardinality(S \cap Server) <= Cardinality(T \cap Server)
      /\ IsFiniteSet(S \cap Server)
    BY <1>2, <1>3, FS_Subset
<1>5. /\ Cardinality(S \cap Server) \in Nat /\ Cardinality(T \cap Server) \in Nat
      /\ Cardinality(Server) \in Nat
    BY <1>1, <1>2, <1>4, FS_CardinalityType
<1> QED
    BY <1>4, <1>5 DEF HasQuorum

\* WALs grow, so what a majority held it still holds, and everything below it.
LEMMA HeldStays ==
    ASSUME IInv, IInv', WalsGrow, NEW i \in Nat, NEW j \in Nat, j <= i, HasQuorum(Holders(i))
    PROVE  HasQuorum(Holders(j)')
<1>1. ASSUME NEW q \in Holders(i) PROVE q \in Holders(j)'
    <2>1. Len(srv[q].wal) \in Nat /\ Len(srv'[q].wal) \in Nat
        BY GoodNumbers DEF IInv, Holders
    <2>2. i <= Len(srv[q].wal) /\ Len(srv'[q].wal) >= Len(srv[q].wal)
        BY DEF Holders, WalsGrow, Grows
    <2> QED
        BY <2>1, <2>2 DEF Holders
<1> QED
    BY <1>1, QuorumGrows

\* Enough acknowledgements are a majority when the ack policy asks for one.
LEMMA AckersHold ==
    ASSUME 2 * RequiredAcks > Cardinality(Server), NEW A \in SUBSET Server,
           Cardinality(A) >= RequiredAcks
    PROVE  HasQuorum(A)
<1>1. IsFiniteSet(Server) /\ A \cap Server = A
    BY ServerAssumption
<1>2. IsFiniteSet(A)
    BY <1>1, FS_Subset
<1>3. Cardinality(A) \in Nat /\ Cardinality(Server) \in Nat
    BY <1>1, <1>2, FS_CardinalityType
<1>4. RequiredAcks \in Nat
    BY <1>3, AcksAssumption
<1>5. PICK k \in Nat, n \in Nat, m \in Nat :
          k = Cardinality(A) /\ n = Cardinality(Server) /\ m = RequiredAcks
    BY <1>3, <1>4
<1>6. 2 * k > n
    <2>1. k >= m /\ 2 * m > n
        BY <1>5
    <2> QED
        BY <2>1
<1> QED
    BY <1>1, <1>5, <1>6 DEF HasQuorum

\* Two servers are a majority of at most three.
LEMMA PairIsQuorum ==
    ASSUME NEW p \in Server, p # Primary, Cardinality(Server) <= 3
    PROVE  HasQuorum({p, Primary})
<1>1. {p, Primary} \cap Server = {p, Primary} /\ IsFiniteSet(Server)
    BY ServerAssumption
<1>2. Cardinality({p, Primary}) = 2
    <2>1. IsFiniteSet({Primary}) /\ Cardinality({Primary}) = 1
        BY FS_Singleton
    <2>2. p \notin {Primary} /\ {Primary} \cup {p} = {p, Primary}
        OBVIOUS
    <2>3. Cardinality({Primary} \cup {p}) = Cardinality({Primary}) + 1
        BY <2>1, <2>2, FS_AddElement
    <2> QED
        BY <2>1, <2>2, <2>3
<1>3. Cardinality(Server) \in Nat
    BY <1>1, FS_CardinalityType
<1> QED
    BY <1>1, <1>2, <1>3 DEF HasQuorum

\* Every step of a steady group keeps commit indexes spread.
LEMMA NextSpread ==
    ASSUME 2 * RequiredAcks > Cardinality(Server),
           ~OperatorCatchUp \/ Cardinality(Server) <= 3,
           IInv, IInv', Spread, SteadyStep
    PROVE  Spread'
<1>1. WalsGrow /\ Steady' /\ Primary \in Server
    BY ServerAssumption DEF SteadyStep
<1>2. /\ pending \in [Server -> {None} \cup
                        [index : Nat, acks : SUBSET Server, sent : BOOLEAN]]
      /\ pending' \in [Server -> {None} \cup
                        [index : Nat, acks : SUBSET Server, sent : BOOLEAN]]
      /\ announced \in [Server -> Nat] /\ announced' \in [Server -> Nat]
    BY DEF IInv, TypeOK
<1>3. \A s \in Server : /\ srv[s].dcommit \in Nat /\ srv'[s].dcommit \in Nat
                        /\ Len(srv[s].wal) \in Nat /\ Len(srv'[s].wal) \in Nat
                        /\ srv'[s].dcommit <= Len(srv'[s].wal)
    BY GoodNumbers DEF IInv
<1>4. ASSUME pending[Primary] # None, Cardinality(pending[Primary].acks) >= RequiredAcks
      PROVE  HasQuorum(Holders(pending[Primary].index)) /\ pending[Primary].index \in Nat
    <2>1. PICK A \in SUBSET Server, n \in Nat :
              A = pending[Primary].acks /\ n = pending[Primary].index
        BY <1>1, <1>2, <1>4
    <2>2. HasQuorum(A)
        BY <1>4, <2>1, AckersHold
    <2>3. A \subseteq Holders(n)
        BY <1>4, <2>1 DEF Spread, Holders
    <2>4. HasQuorum(Holders(n))
        BY <2>2, <2>3, QuorumGrows
    <2> QED
        BY <2>1, <2>4
<1>5. ASSUME NEW s \in Server PROVE HasQuorum(Holders(srv[s].dcommit)')
    <2>1. PICK d \in Nat : d = srv'[s].dcommit
        BY <1>3
    <2>2. CASE \E q \in Server : d <= srv[q].dcommit
        <3>1. PICK q \in Server, i \in Nat : i = srv[q].dcommit /\ d <= i
            BY <1>3, <2>2
        <3>2. HasQuorum(Holders(i))
            BY <3>1 DEF Spread
        <3>3. HasQuorum(Holders(d)')
            BY <1>1, <3>1, <3>2, HeldStays
        <3> QED
            BY <2>1, <3>3 DEF Holders
    <2>3. CASE \E q \in Server : d <= announced[q]
        <3>1. PICK q \in Server, i \in Nat : i = announced[q] /\ d <= i
            BY <1>2, <2>3
        <3>2. HasQuorum(Holders(i))
            BY <3>1 DEF Spread
        <3>3. HasQuorum(Holders(d)')
            BY <1>1, <3>1, <3>2, HeldStays
        <3> QED
            BY <2>1, <3>3 DEF Holders
    <2>4. CASE /\ s = Primary /\ pending[s] # None
               /\ pending[s].sent /\ d <= pending[s].index
        <3>1. PICK i \in Nat : i = pending[Primary].index /\ HasQuorum(Holders(i))
            BY <1>4, <2>4 DEF Spread
        <3>2. HasQuorum(Holders(d)')
            BY <1>1, <2>4, <3>1, HeldStays
        <3> QED
            BY <2>1, <3>2 DEF Holders
    <2>5. CASE OperatorCatchUp /\ s # Primary
        <3>1. HasQuorum({s, Primary})
            BY <2>5, PairIsQuorum
        <3>6. srv'[s].next = Len(srv'[s].wal) + 1 /\ srv'[s].next <= srv'[Primary].next
            BY <1>1, <2>5 DEF Steady, Follows
        <3>7. srv'[Primary].next \in Nat
            BY <1>1, GoodNumbers DEF IInv
        <3>2. d <= Len(srv'[s].wal) /\ d < srv'[Primary].next
            BY <1>3, <2>1, <3>6, <3>7
        <3>3. d <= Len(srv'[Primary].wal)
            <4>1. /\ srv'[Primary].next \in Nat
                  /\ srv'[Primary].next <= Len(srv'[Primary].wal) + 1
                BY <1>1, GoodNumbers DEF IInv
            <4> QED
                BY <1>1, <1>3, <3>2, <4>1
        <3>5. d <= Len(srv'[s].wal) /\ s \in Server
            BY <3>2
        <3>4. {s, Primary} \subseteq Holders(srv[s].dcommit)'
            BY <1>1, <2>1, <3>3, <3>5 DEF Holders
        <3> QED
            BY <3>1, <3>4, QuorumGrows
    <2> QED
        BY <2>1, <2>2, <2>3, <2>4, <2>5 DEF SteadyStep, CommitsBacked
<1>6. ASSUME NEW s \in Server PROVE HasQuorum(Holders(announced[s])')
    <2>1. CASE announced'[s] = announced[s]
        <3>1. PICK i \in Nat : i = announced[s]
            BY <1>2
        <3>2. HasQuorum(Holders(i)) /\ i <= i
            BY <3>1 DEF Spread
        <3>3. HasQuorum(Holders(i)')
            BY <1>1, <3>2, HeldStays
        <3> QED
            BY <2>1, <3>1, <3>3 DEF Holders
    <2>2. CASE /\ pending[Primary] # None
               /\ Cardinality(pending[Primary].acks) >= RequiredAcks
               /\ announced'[s] = pending[Primary].index
        <3>1. PICK i \in Nat : i = pending[Primary].index /\ HasQuorum(Holders(i)) /\ i <= i
            BY <1>4, <2>2
        <3>2. HasQuorum(Holders(i)')
            BY <1>1, <3>1, HeldStays
        <3> QED
            BY <2>2, <3>1, <3>2 DEF Holders
    <2> QED
        BY <2>1, <2>2 DEF SteadyStep, AnnouncedBacked
<1>7. ASSUME pending'[Primary] # None
      PROVE  /\ \A a \in pending'[Primary].acks : pending'[Primary].index <= Len(srv'[a].wal)
             /\ pending'[Primary].sent => Cardinality(pending'[Primary].acks) >= RequiredAcks
    <2>1. ASSUME NEW a \in pending'[Primary].acks
          PROVE  pending'[Primary].index <= Len(srv'[a].wal)
        <3>1. CASE pending'[Primary].index <= Len(srv'[a].wal)
            BY <3>1
        <3>2. CASE /\ pending[Primary] # None /\ a \in pending[Primary].acks
                   /\ pending'[Primary].index = pending[Primary].index
            <4>1. a \in Server /\ pending[Primary].index \in Nat
                BY <1>1, <1>2, <3>2
            <4>2. pending[Primary].index <= Len(srv[a].wal)
                BY <3>2 DEF Spread
            <4>3. Len(srv'[a].wal) >= Len(srv[a].wal)
                BY <1>1, <4>1 DEF WalsGrow, Grows
            <4> QED
                BY <1>3, <3>2, <4>1, <4>2, <4>3
        <3> QED
            BY <1>7, <2>1, <3>1, <3>2 DEF SteadyStep, AcksBacked
    <2>2. pending'[Primary].sent => Cardinality(pending'[Primary].acks) >= RequiredAcks
        BY <1>7 DEF SteadyStep, AcksBacked, Spread
    <2> QED
        BY <2>1, <2>2
<1> QED
    BY <1>5, <1>6, <1>7 DEF Spread

\* Index 0 is held by everyone.
LEMMA InitSpread ==
    ASSUME Init
    PROVE  Spread
<1>1. IInv
    BY InitIInv
<1>2. \A s \in Server : srv[s].dcommit = 0 /\ announced[s] = 0 /\ pending[s] = None
    <2>1. \A s \in Server : srv[s] = Opened(Fresh, s) /\ announced[s] = 0 /\ pending[s] = None
        BY DEF Init
    <2>2. Good(Fresh) /\ Fresh.role # "Candidate" /\ Fresh.dcommit = 0
        BY FreshGood DEF Fresh
    <2>3. \A s \in Server : SameWal(Fresh, Opened(Fresh, s))
        BY <2>2, OpenedEvolves
    <2> QED
        BY <2>1, <2>2, <2>3 DEF SameWal
<1>3. Holders(0) = Server
    BY <1>1, GoodNumbers DEF IInv, Holders
<1>4. HasQuorum(Server)
    <2>1. IsFiniteSet(Server) /\ Server \cap Server = Server
        BY ServerAssumption
    <2>2. Cardinality(Server) \in Nat
        BY <2>1, FS_CardinalityType
    <2>3. Cardinality(Server) >= 1
        BY <2>2, AcksAssumption
    <2>4. PICK n \in Nat : n = Cardinality(Server) /\ n >= 1
        BY <2>2, <2>3
    <2>5. 2 * n > n
        BY <2>4
    <2> QED
        BY <2>1, <2>4, <2>5 DEF HasQuorum
<1>5. pending[Primary] = None
    BY <1>2, ServerAssumption
<1> QED
    BY <1>2, <1>3, <1>4, <1>5 DEF Spread

\* While nobody but the routing-table primary has stood for election, nothing is
\* committed anywhere before a majority of the WALs hold it, provided the ack
\* policy asks for a majority and operators catch replicas up only in groups of
\* at most three, where a replica and the primary are one.
THEOREM SteadyQuorum ==
    ASSUME 2 * RequiredAcks > Cardinality(Server),
           ~OperatorCatchUp \/ Cardinality(Server) <= 3
    PROVE  Spec => []SteadyCommitsNeedQuorum
<1> DEFINE SpreadInv == PrimaryAlone => Steady /\ Spread
<1>1. Init => SpreadInv
    BY InitSteady, InitSpread
<1>2. IInv /\ IInv' /\ SpreadInv /\ [Next]_vars => SpreadInv'
    BY AloneBefore, NextSteady, NextSpread DEF SteadyStep
<1>3. IInv /\ SpreadInv => SteadyCommitsNeedQuorum
    <2> SUFFICES ASSUME IInv, Steady, Spread, NEW s \in Server, NEW i \in 1..srv[s].dcommit
                 PROVE  HasQuorum({q \in Server : i \in DOMAIN srv[q].wal
                                                  /\ srv[q].wal[i] = srv[s].wal[i]})
        BY DEF SteadyCommitsNeedQuorum, CommitNeedsQuorum
    <2>1. PICK d \in Nat : d = srv[s].dcommit /\ d <= Len(srv[s].wal)
        BY GoodNumbers DEF IInv
    <2>2. HasQuorum(Holders(d))
        BY <2>1 DEF Spread
    <2>3. ASSUME NEW q \in Holders(d)
          PROVE  i \in DOMAIN srv[q].wal /\ srv[q].wal[i] = srv[s].wal[i]
        <3>1. q \in Server /\ d <= Len(srv[q].wal)
            BY DEF Holders
        <3>2. srv[q].wal \in Seq(Entry) /\ srv[s].wal \in Seq(Entry)
            BY <3>1, GoodNumbers DEF IInv
        <3>3. DOMAIN srv[q].wal = 1..Len(srv[q].wal) /\ Len(srv[q].wal) \in Nat
              /\ Len(srv[s].wal) \in Nat
            BY <3>2, LenDomain
        <3>4. i \in 1..Len(srv[q].wal) /\ i \in 1..Len(srv[s].wal)
            BY <2>1, <3>1, <3>3
        <3>5. srv[q].wal[i] = srv[Primary].wal[i] /\ srv[s].wal[i] = srv[Primary].wal[i]
            BY <3>1, <3>4, AllBehind DEF Behind
        <3> QED
            BY <3>3, <3>4, <3>5
    <2>4. Holders(d) \cap Server \subseteq
              {q \in Server : i \in DOMAIN srv[q].wal /\ srv[q].wal[i] = srv[s].wal[i]}
        BY <2>3
    <2> QED
        BY <2>2, <2>4, QuorumGrows
<1> HIDE DEF SpreadInv
<1> QED
    BY <1>1, <1>2, <1>3, IInvHolds, PTL DEF Spec
=============================================================================
