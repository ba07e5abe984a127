----------------------- MODULE DistributedReadProofs ------------------------
(***************************************************************************)
(* A read over every shard is whole, for every number of shards, servers,  *)
(* rows and writes: what the client gets is every row of every shard, in   *)
(* shard order, each shard at one version the read may show.               *)
(***************************************************************************)
EXTENDS DistributedRead, FiniteSetTheorems, SequenceTheorems, WellFoundedInduction, TLAPS

-----------------------------------------------------------------------------
\* The rows a cursor has yet to give, and when a remote cursor that says it
\* has no more has none at the peer.
Row == Nat \X Nat \X Nat
Cursor == [remote : BOOLEAN, left : Seq(Row), buffered : Seq(Row), more : BOOLEAN]
Rest(c) == c.buffered \o c.left
CursorOK(c) ==
  /\ c \in Cursor
  /\ c.remote /\ ~c.more => c.left = <<>>
  /\ ~c.remote => c.buffered = <<>>

N == Cardinality(DrShard)

Whole(s, rows) == \E v \in 0..MaxWrites : MayShow(s, v) /\ rows = ShardRows(s, v)

-----------------------------------------------------------------------------
(* The inductive invariant.                                                *)

\* The copies only gain writes, within the bound.
CopiesOK ==
  /\ drConf \in DrConf
  /\ drCopy \in [DrServer -> [DrShard -> 0..MaxWrites]]
  /\ drFirst \in [DrServer -> [DrShard -> 0..MaxWrites]]
  /\ \A n \in DrServer, s \in DrShard : drFirst[n][s] <= drCopy[n][s]

StateOK ==
  /\ drCursor \in [DrShard -> Cursor]
  /\ drGot \in [DrShard -> Seq(Row)]
  /\ drWorker \in [DrShard -> {"start", "pull", "sent"}]
  /\ drQueue \in Seq([shard : DrShard, ok : BOOLEAN, rows : Seq(Row)])
  /\ drParts \subseteq [shard : DrShard, ok : {TRUE}, rows : Seq(Row)]
  /\ drAt \in Nat
  /\ drPage \in Seq(Row) /\ drRows \in Seq(Row)

\* A worker that pulls has the first rows of its shard and a cursor for the
\* others; one that has not sent has no result under way.
PullsWhole ==
  \A s \in DrShard :
    /\ drWorker[s] = "start" => drGot[s] = <<>>
    /\ drWorker[s] = "pull" => CursorOK(drCursor[s]) /\ Whole(s, drGot[s] \o Rest(drCursor[s]))

\* Results carry a whole shard, and a shard has one result.
ResultsWhole ==
  /\ \A i \in 1..Len(drQueue) :
       /\ drWorker[drQueue[i].shard] = "sent"
       /\ drQueue[i].ok => Whole(drQueue[i].shard, drQueue[i].rows)
       /\ \A j \in 1..Len(drQueue) : drQueue[i].shard = drQueue[j].shard => i = j
       /\ \A p \in drParts : p.shard # drQueue[i].shard
  /\ \A p \in drParts : drWorker[p.shard] = "sent" /\ Whole(p.shard, p.rows)
  /\ \A p, q \in drParts : p.shard = q.shard => p = q

GatherInv ==
  drConf.path = "gather" =>
    /\ drPhase \in {"idle", "gather", "join", "done", "failed"}
    /\ drPhase = "idle" => drQueue = <<>> /\ drParts = {} /\ \A s \in DrShard : drWorker[s] = "start"
    /\ PullsWhole
    /\ ResultsWhole

\* The cursors opened so far hold their shards whole.
OpenedWhole ==
  \A s \in DrShard : s <= drAt => CursorOK(drCursor[s]) /\ Whole(s, Rest(drCursor[s]))

\* F[k] is the rows of the first k shards at the versions v.
Flattens(v, F) ==
  /\ F[1] = ShardRows(1, v[1])
  /\ \A k \in 1..(N - 1) : F[k + 1] = F[k] \o ShardRows(k + 1, v[k + 1])
  /\ FlattenSeq([s \in DrShard |-> ShardRows(s, v[s])]) = F[N]

\* What was given, the page and the rest of the current cursor are the shards
\* up to the current one; the later cursors are whole.
PageWhole(v, F) ==
  /\ v \in [DrShard -> 0..MaxWrites]
  /\ \A s \in DrShard : MayShow(s, v[s])
  /\ Flattens(v, F)
  /\ \A s \in DrShard : CursorOK(drCursor[s])
  /\ \A s \in DrShard : s > drAt => Rest(drCursor[s]) = ShardRows(s, v[s])
  /\ drAt \in 1..(N + 1)
  /\ drAt <= N => (drRows \o drPage) \o Rest(drCursor[drAt]) = F[drAt]
  /\ drAt = N + 1 => drRows \o drPage = F[N]

NativeInv ==
  drConf.path # "gather" =>
    /\ drPhase \in {"idle", "open", "page", "done", "failed"}
    /\ \A s \in DrShard : drWorker[s] = "start"
    /\ drPhase \in {"idle", "open"} => drRows = <<>> /\ drPage = <<>>
    /\ drPhase = "idle" => drAt = 0
    /\ drPhase = "open" => drAt \in 0..N /\ OpenedWhole
    /\ drPhase = "page" => \E v, F : PageWhole(v, F)

ReadInv == CopiesOK /\ StateOK /\ GatherInv /\ NativeInv /\ ReadsAreWhole

-----------------------------------------------------------------------------
(* Facts about the operators of the model.                                 *)

\* A nonempty set of naturals has a smallest element.
LEMMA MinInSet ==
    ASSUME NEW S, S \subseteq Nat, S # {}
    PROVE  Min(S) \in S /\ \A j \in S : Min(S) <= j
<1> DEFINE R == {ss \in Nat \X Nat : ss[1] < ss[2]}
<1>1. R = OpToRel(<, Nat)
    BY DEF OpToRel
<1>2. IsWellFoundedOn(R, Nat)
    BY <1>1, NatLessThanWellFounded
<1> HIDE DEF R
<1>3. PICK x \in S : \A y \in S : ~(<<y, x>> \in R)
    BY <1>2, WFMin
<1>4. ASSUME NEW y \in S PROVE x <= y
    <2>1. <<y, x>> \in Nat \X Nat
      OBVIOUS
    <2>2. ~(y < x)
      BY <1>3, <2>1 DEF R
    <2> QED BY <2>2
<1> QED BY <1>3, <1>4 DEF Min

\* f is the function that FlattenSeq defines over the first n of the sequences.
Step(S, f, n) == f = [i \in 1..n |-> IF i = 1 THEN S[i] ELSE f[i - 1] \o S[i]]

\* There is one for every n: the smallest n without one could be extended.
LEMMA FlattenExists ==
    ASSUME NEW S, NEW n \in Nat
    PROVE  \E f : Step(S, f, n)
<1> DEFINE Bad == {m \in Nat : ~\E f : Step(S, f, m)}
<1>1. SUFFICES ASSUME Bad # {} PROVE FALSE
  OBVIOUS
<1>2. PICK m \in Bad : \A k \in Bad : m <= k
  BY <1>1, MinInSet
<1>3. m # 0
  <2>1. Step(S, <<>>, 0)
    BY DEF Step
  <2> QED BY <2>1
<1>4. PICK k \in Nat : m = k + 1
  BY <1>3
<1>5. PICK f : Step(S, f, k)
  BY <1>2, <1>4
<1> DEFINE g == [i \in 1..m |-> IF i = 1 THEN S[i] ELSE IF i <= k THEN f[i] ELSE f[i - 1] \o S[i]]
<1>6. ASSUME NEW i \in 1..m PROVE g[i] = IF i = 1 THEN S[i] ELSE g[i - 1] \o S[i]
  <2>1. f = [j \in 1..k |-> IF j = 1 THEN S[j] ELSE f[j - 1] \o S[j]]
    BY <1>5 DEF Step
  <2>2. \A j \in 1..k : f[j] = IF j = 1 THEN S[j] ELSE f[j - 1] \o S[j]
    BY <2>1
  <2>3. \A j \in 1..k : g[j] = f[j]
    BY <2>2, <1>4
  <2>4. CASE i = 1
    BY <2>4
  <2>5. CASE i # 1 /\ i <= k
    <3>1. i \in 1..k /\ i - 1 \in 1..k
      BY <2>5, <1>4
    <3>2. g[i] = f[i] /\ g[i - 1] = f[i - 1] /\ f[i] = f[i - 1] \o S[i]
      BY <3>1, <2>2, <2>3, <2>5
    <3> QED BY <3>2, <2>5
  <2>6. CASE i # 1 /\ i > k
    <3>1. i - 1 \in 1..k /\ i = m
      BY <2>6, <1>4
    <3>2. g[i - 1] = f[i - 1]
      BY <3>1, <2>3
    <3>3. i # 1 /\ ~(i <= k)
      BY <2>6, <1>4
    <3>4. g[i] = f[i - 1] \o S[i]
      BY <3>3
    <3> QED BY <3>2, <3>3, <3>4
  <2> QED BY <2>4, <2>5, <2>6, <1>4
<1>7. Step(S, g, m)
  BY <1>6 DEF Step
<1> QED BY <1>7

\* FlattenSeq one sequence at a time.
LEMMA FlattenIs ==
    ASSUME NEW S, NEW n \in Nat \ {0}, DOMAIN S = 1..n, Len(S) = n
    PROVE  \E F : /\ FlattenSeq(S) = F[n] /\ F[1] = S[1]
                  /\ \A k \in 1..(n - 1) : F[k + 1] = F[k] \o S[k + 1]
<1> DEFINE F == CHOOSE f : f = [i \in 1..Len(S) |-> IF i = 1 THEN S[i] ELSE f[i - 1] \o S[i]]
<1>1. FlattenSeq(S) = F[n]
  BY DEF FlattenSeq
<1>2. F = [i \in 1..Len(S) |-> IF i = 1 THEN S[i] ELSE F[i - 1] \o S[i]]
  BY FlattenExists DEF Step
<1> HIDE DEF F
<1>3. \A i \in 1..n : F[i] = IF i = 1 THEN S[i] ELSE F[i - 1] \o S[i]
  BY <1>2
<1>4. F[1] = S[1]
  BY <1>3
<1>5. ASSUME NEW k \in 1..(n - 1) PROVE F[k + 1] = F[k] \o S[k + 1]
  <2>1. PICK i \in 1..n : i = k + 1
    OBVIOUS
  <2>2. i # 1 /\ i - 1 = k
    BY <2>1
  <2>3. F[i] = F[i - 1] \o S[i]
    BY <1>3, <2>2
  <2> QED BY <2>1, <2>2, <2>3
<1> QED BY <1>1, <1>4, <1>5

\* The shards are 1..N, and there is one.
LEMMA ShardsAre == N \in Nat \ {0} /\ DrShard = 1..N /\ IsFiniteSet(DrShard)
BY DrAssumption, FS_CardinalityType, FS_EmptySet DEF N

\* The rows of a shard are rows.
LEMMA ShardRowsType ==
  ASSUME CopiesOK, NEW s \in DrShard, NEW v \in 0..MaxWrites
  PROVE  ShardRows(s, v) \in Seq(Row)
<1>1. drConf.rows[s] \in Nat /\ s \in Nat /\ v \in Nat
  BY DrAssumption, ShardsAre DEF CopiesOK, DrConfOK
<1>2. PICK n \in Nat : n = drConf.rows[s] + v
  BY <1>1
<1>3. [i \in 1..n |-> <<s, v, i>>] \in Seq(Row)
  BY <1>1 DEF Row
<1>4. <<>> \in Seq(Row) /\ << <<s, v, 0>> >> \in Seq(Row)
  BY <1>1 DEF Row
<1>5. PICK a \in Seq(Row) : a = [i \in 1..n |-> <<s, v, i>>]
  BY <1>3
<1>6. PICK b \in Seq(Row) : b = IF drConf.path = "staged" /\ s \in drConf.staged
                               THEN << <<s, v, 0>> >> ELSE <<>>
  BY <1>4
<1>7. a \o b \in Seq(Row)
  OBVIOUS
<1> QED BY <1>2, <1>5, <1>6, <1>7 DEF ShardRows

\* fetch splits what is left into the page and the rest, and says whether
\* something remains.
LEMMA VecFetchSplits ==
  ASSUME NEW left \in Seq(Row), NEW n \in Nat \ {0}, NEW f, f = VecFetch(left, n)
  PROVE  /\ f.rows \in Seq(Row) /\ f.left \in Seq(Row) /\ f.more \in BOOLEAN
         /\ f.rows \o f.left = left
         /\ ~f.more => f.left = <<>>
<1>1. PICK l \in Nat : l = Len(left)
  OBVIOUS
<1>2. PICK e \in Nat : e = Min({n, l})
  BY MinInSet
<1>3. e <= n /\ e <= l /\ (e = n \/ e = l)
  BY <1>2, MinInSet
<1>4. f = [rows |-> SubSeq(left, 1, e), left |-> SubSeq(left, e + 1, l), more |-> l > n]
  BY <1>1, <1>2 DEF VecFetch
<1>5. f.rows = SubSeq(left, 1, e) /\ f.left = SubSeq(left, e + 1, l) /\ f.more = (l > n)
  BY <1>4
<1>9. f.more \in BOOLEAN /\ (f.more <=> l > n)
  <2>1. CASE l > n
    <3>1. (l > n) = TRUE
      BY <2>1
    <3>2. f.more = TRUE
      BY <1>5, <3>1, Zenon
    <3> QED BY <2>1, <3>2, Zenon
  <2>2. CASE ~(l > n)
    <3>1. (l > n) = FALSE
      BY <2>2
    <3>2. f.more = FALSE
      BY <1>5, <3>1, Zenon
    <3> QED BY <2>2, <3>2, Zenon
  <2> QED BY <2>1, <2>2, Zenon
<1>6. SubSeq(left, 1, e) \in Seq(Row) /\ SubSeq(left, e + 1, l) \in Seq(Row)
  BY <1>1, <1>3
<1>7. SubSeq(left, 1, e) \o SubSeq(left, e + 1, l) = left
  <2>1. SubSeq(left, 1, e) \o SubSeq(left, e + 1, l) = SubSeq(left, 1, l)
    <3>1. 1 \in 1..Len(left) + 1 /\ e \in (1 - 1)..Len(left) /\ l \in e..Len(left)
      BY <1>1, <1>3
    <3> QED BY <3>1, ConcatAdjacentSubSeq, Zenon
  <2>2. SubSeq(left, 1, Len(left)) = left
    BY SubSeqFull
  <2> QED BY <1>1, <2>1, <2>2
<1>8. ASSUME ~(l > n) PROVE SubSeq(left, e + 1, l) = <<>>
  BY <1>3, <1>8
<1>10. f.rows \in Seq(Row) /\ f.left \in Seq(Row) /\ f.rows \o f.left = left
  BY <1>5, <1>6, <1>7
<1>11. ~f.more => f.left = <<>>
  BY <1>5, <1>8, <1>9
<1> QED BY <1>9, <1>10, <1>11

\* A buffer shorter than the page leaves room in it.
LEMMA RoomLeft ==
  \A k \in Nat, n \in Nat \ {0} : ~(k >= n) => n - k \in Nat \ {0}
OBVIOUS

\* Concatenation of rows is associative.
LEMMA RowsAssociative ==
  \A s, t, u \in Seq(Row) : (s \o t) \o u = s \o (t \o u)
BY ConcatAssociative

\* A local cursor over some rows, and a remote one, have those rows to give.
LEMMA LocalCursorHolds ==
  ASSUME NEW rows \in Seq(Row)
  PROVE  CursorOK(LocalCursor(rows)) /\ Rest(LocalCursor(rows)) = rows
         /\ LocalCursor(rows).left = rows /\ LocalCursor(rows).remote = FALSE
<1>1. PICK c : c = LocalCursor(rows)
  OBVIOUS
<1>2. c \in Cursor /\ c.remote = FALSE /\ c.left = rows /\ c.buffered = <<>>
  BY <1>1 DEF LocalCursor, Cursor
<1>3. <<>> \o rows = rows
  BY ConcatEmptySeq
<1> QED BY <1>1, <1>2, <1>3 DEF CursorOK, Rest

\* The same of a cursor opened at a peer.
LEMMA RemoteCursorHolds ==
  ASSUME NEW rows \in Seq(Row)
  PROVE  CursorOK(RemoteCursor(rows)) /\ Rest(RemoteCursor(rows)) = rows
         /\ RemoteCursor(rows).remote = TRUE
<1>1. PICK f : f = VecFetch(rows, NativePage)
  OBVIOUS
<1>2. /\ f.rows \in Seq(Row) /\ f.left \in Seq(Row) /\ f.more \in BOOLEAN
      /\ f.rows \o f.left = rows
      /\ ~f.more => f.left = <<>>
  BY <1>1, VecFetchSplits, DrAssumption
<1>3. PICK c : c = [remote |-> TRUE, left |-> f.left, buffered |-> f.rows, more |-> f.more]
  OBVIOUS
<1>4. c = RemoteCursor(rows)
  BY <1>1, <1>3 DEF RemoteCursor
<1>5. c \in Cursor /\ c.remote = TRUE /\ c.left = f.left /\ c.buffered = f.rows /\ c.more = f.more
  BY <1>2, <1>3 DEF Cursor
<1> QED BY <1>2, <1>4, <1>5 DEF CursorOK, Rest

\* A call to the peer that is answered moves rows into the buffer and loses none.
LEMMA FetchRemoteKeeps ==
  ASSUME NEW c, CursorOK(c), c.remote, NEW n \in Nat \ {0}, NEW f, f = FetchRemote(c, n, TRUE)
  PROVE  CursorOK(f) /\ f.remote = c.remote /\ Rest(f) = Rest(c)
<1>1. c \in Cursor /\ c.left \in Seq(Row) /\ c.buffered \in Seq(Row)
  BY DEF CursorOK, Cursor
<1>2. CASE Len(c.buffered) >= n \/ ~c.more
  BY <1>2 DEF FetchRemote
<1>3. CASE ~(Len(c.buffered) >= n \/ ~c.more)
  <2>0. ~(Len(c.buffered) >= n)
    BY <1>3, Zenon
  <2>1. PICK m \in Nat \ {0} : m = n - Len(c.buffered)
    <3>1. PICK k \in Nat : k = Len(c.buffered)
      BY <1>1
    <3>2. ~(k >= n)
      BY <2>0, <3>1
    <3> QED BY <3>1, <3>2, RoomLeft
  <2>2. PICK p : p = VecFetch(c.left, m)
    OBVIOUS
  <2>3. /\ p.rows \in Seq(Row) /\ p.left \in Seq(Row) /\ p.more \in BOOLEAN
        /\ p.rows \o p.left = c.left
        /\ ~p.more => p.left = <<>>
    BY <1>1, <2>2, VecFetchSplits
  <2>4. PICK b : b = c.buffered \o p.rows
    OBVIOUS
  <2>5. b \in Seq(Row)
    BY <1>1, <2>3, <2>4
  <2>6. f = [c EXCEPT !.buffered = c.buffered \o p.rows, !.left = p.left, !.more = p.more]
    BY <1>3, <2>1, <2>2 DEF FetchRemote
  <2>7. f = [c EXCEPT !.buffered = b, !.left = p.left, !.more = p.more]
    BY <2>4, <2>6
  <2>8. f \in Cursor /\ f.remote = c.remote /\ f.buffered = b /\ f.left = p.left /\ f.more = p.more
    BY <1>1, <2>3, <2>5, <2>7 DEF Cursor
  <2>9. b \o p.left = c.buffered \o c.left
    <3>1. (c.buffered \o p.rows) \o p.left = c.buffered \o (p.rows \o p.left)
      <4>1. PICK x \in Seq(Row), y \in Seq(Row), z \in Seq(Row) :
                x = c.buffered /\ y = p.rows /\ z = p.left
        BY <1>1, <2>3
      <4>2. (x \o y) \o z = x \o (y \o z)
        BY RowsAssociative
      <4> QED BY <4>1, <4>2
    <3> QED BY <2>3, <2>4, <3>1
  <2> QED BY <2>3, <2>8, <2>9 DEF CursorOK, Rest
<1> QED BY <1>2, <1>3

\* A page of either kind of cursor: the rows, and the cursor after them, are
\* what the cursor had; when there is no more, the page was all of it.
LEMMA FetchKeeps ==
  ASSUME NEW c, CursorOK(c), NEW n \in Nat \ {0}, NEW page, page = FetchShardCursor(c, n, TRUE)
  PROVE  /\ page.rows \in Seq(Row) /\ page.more \in BOOLEAN
         /\ CursorOK(page.cursor)
         /\ page.rows \o Rest(page.cursor) = Rest(c)
         /\ ~page.more => Rest(page.cursor) = <<>>
<1>1. c \in Cursor /\ c.left \in Seq(Row) /\ c.buffered \in Seq(Row) /\ c.remote \in BOOLEAN
  BY DEF CursorOK, Cursor
<1>2. CASE c.remote
  <2>1. PICK full : full = FetchRemote(c, n, TRUE)
    OBVIOUS
  <2>2. CursorOK(full) /\ full.remote = c.remote /\ Rest(full) = Rest(c)
    BY <1>2, <2>1, FetchRemoteKeeps
  <2>3. full \in Cursor /\ full.left \in Seq(Row) /\ full.buffered \in Seq(Row) /\ full.more \in BOOLEAN
    BY <2>2 DEF CursorOK, Cursor
  <2>4. PICK p : p = VecFetch(full.buffered, n)
    OBVIOUS
  <2>5. /\ p.rows \in Seq(Row) /\ p.left \in Seq(Row) /\ p.more \in BOOLEAN
        /\ p.rows \o p.left = full.buffered
        /\ ~p.more => p.left = <<>>
    BY <2>3, <2>4, VecFetchSplits
  <2>6. PICK d : d = [full EXCEPT !.buffered = p.left]
    OBVIOUS
  <2>7. d \in Cursor /\ d.remote = full.remote /\ d.buffered = p.left /\ d.left = full.left /\ d.more = full.more
    BY <2>3, <2>5, <2>6 DEF Cursor
  <2>8. page = [rows |-> p.rows, cursor |-> d, more |-> p.more \/ full.more]
    BY <1>2, <2>1, <2>4, <2>6 DEF FetchShardCursor
  <2>9. page.rows = p.rows /\ page.cursor = d /\ page.more = (p.more \/ full.more)
    <3>1. PICK q : q = [rows |-> p.rows, cursor |-> d, more |-> p.more \/ full.more]
      OBVIOUS
    <3>2. q.rows = p.rows /\ q.cursor = d /\ q.more = (p.more \/ full.more)
      BY <3>1
    <3>3. page = q
      BY <2>8, <3>1
    <3> QED BY <3>2, <3>3
  <2>10. page.more \in BOOLEAN /\ (page.more <=> p.more \/ full.more)
    BY <2>3, <2>5, <2>9
  <2>11. CursorOK(d)
    BY <1>2, <2>2, <2>7 DEF CursorOK
  <2>12. p.rows \o (p.left \o full.left) = full.buffered \o full.left
    <3>1. (p.rows \o p.left) \o full.left = p.rows \o (p.left \o full.left)
      BY <2>3, <2>5, RowsAssociative
    <3> QED BY <2>5, <3>1
  <2>13. page.rows \o Rest(page.cursor) = Rest(c)
    BY <2>2, <2>7, <2>9, <2>12 DEF Rest
  <2>14. ASSUME ~page.more PROVE Rest(page.cursor) = <<>>
    <3>1. p.left = <<>> /\ full.left = <<>>
      BY <1>2, <2>2, <2>5, <2>10, <2>14 DEF CursorOK
    <3>2. <<>> \o <<>> = <<>>
      BY ConcatEmptySeq
    <3> QED BY <2>7, <2>9, <3>1, <3>2 DEF Rest
  <2> QED BY <2>5, <2>9, <2>10, <2>11, <2>13, <2>14
<1>3. CASE ~c.remote
  <2>1. PICK p : p = VecFetch(c.left, n)
    OBVIOUS
  <2>2. /\ p.rows \in Seq(Row) /\ p.left \in Seq(Row) /\ p.more \in BOOLEAN
        /\ p.rows \o p.left = c.left
        /\ ~p.more => p.left = <<>>
    BY <1>1, <2>1, VecFetchSplits
  <2>3. PICK d : d = [c EXCEPT !.left = p.left]
    OBVIOUS
  <2>4. d \in Cursor /\ d.remote = c.remote /\ d.buffered = c.buffered /\ d.left = p.left
    BY <1>1, <2>2, <2>3 DEF Cursor
  <2>5. page = [rows |-> p.rows, cursor |-> d, more |-> p.more]
    BY <1>3, <2>1, <2>3 DEF FetchShardCursor
  <2>6. page.rows = p.rows /\ page.cursor = d /\ page.more = p.more
    <3>1. PICK q : q = [rows |-> p.rows, cursor |-> d, more |-> p.more]
      OBVIOUS
    <3>2. q.rows = p.rows /\ q.cursor = d /\ q.more = p.more
      BY <3>1
    <3>3. page = q
      BY <2>5, <3>1
    <3> QED BY <3>2, <3>3
  <2>7. c.buffered = <<>> /\ d.buffered = <<>>
    BY <1>3, <2>4 DEF CursorOK
  <2>8. <<>> \o p.left = p.left /\ <<>> \o c.left = c.left
    BY <1>1, <2>2, ConcatEmptySeq
  <2>9. Rest(d) = p.left /\ Rest(c) = c.left
    BY <2>4, <2>7, <2>8 DEF Rest
  <2>10. CursorOK(d)
    BY <1>3, <2>4, <2>7 DEF CursorOK
  <2> QED BY <2>2, <2>6, <2>9, <2>10
<1> QED BY <1>1, <1>2, <1>3

\* The rows of the first shards, shard by shard, at any versions.
LEMMA FlattensExists ==
  ASSUME NEW v
  PROVE  \E F : Flattens(v, F)
<1> DEFINE S == [s \in DrShard |-> ShardRows(s, v[s])]
<1>1. N \in Nat \ {0} /\ DrShard = 1..N
  BY ShardsAre
<1>2. DOMAIN S = 1..N /\ \A s \in 1..N : S[s] = ShardRows(s, v[s])
  BY <1>1
<1>3. Len(S) = N
  BY <1>1, <1>2
<1>4. PICK F : /\ FlattenSeq(S) = F[N] /\ F[1] = S[1]
               /\ \A k \in 1..(N - 1) : F[k + 1] = F[k] \o S[k + 1]
  <2> HIDE DEF S
  <2> QED BY <1>1, <1>2, <1>3, FlattenIs
<1>5. F[1] = ShardRows(1, v[1])
  BY <1>1, <1>2, <1>4
<1>6. ASSUME NEW k \in 1..(N - 1) PROVE F[k + 1] = F[k] \o ShardRows(k + 1, v[k + 1])
  <2>1. k + 1 \in 1..N
    BY <1>1
  <2> QED BY <1>2, <1>4, <2>1
<1> QED BY <1>4, <1>5, <1>6 DEF Flattens

\* They are rows.
LEMMA FlattenType ==
  ASSUME CopiesOK, NEW v \in [DrShard -> 0..MaxWrites], NEW F, Flattens(v, F)
  PROVE  /\ \A k \in 1..N : F[k] \in Seq(Row)
         /\ FlattenSeq([s \in DrShard |-> ShardRows(s, v[s])]) \in Seq(Row)
<1>1. N \in Nat \ {0} /\ DrShard = 1..N
  BY ShardsAre
<1>2. \A s \in 1..N : ShardRows(s, v[s]) \in Seq(Row)
  BY <1>1, ShardRowsType
<1> DEFINE Bad == {k \in 1..N : F[k] \notin Seq(Row)}
<1>3. ASSUME Bad # {} PROVE FALSE
  <2>1. Bad \subseteq Nat
    BY <1>1
  <2>2. PICK k \in Bad : \A j \in Bad : k <= j
    BY <1>3, <2>1, MinInSet
  <2>3. k \in 1..N /\ F[k] \notin Seq(Row)
    OBVIOUS
  <2>4. k # 1
    BY <1>1, <1>2, <2>3 DEF Flattens
  <2>5. PICK j \in 1..(N - 1) : k = j + 1
    BY <1>1, <2>3, <2>4
  <2>6. j \in 1..N /\ ~(k <= j)
    BY <1>1, <2>5
  <2>7. F[j] \in Seq(Row)
    BY <2>2, <2>6
  <2>8. F[k] = F[j] \o ShardRows(k, v[k])
    BY <2>5 DEF Flattens
  <2>9. F[j] \o ShardRows(k, v[k]) \in Seq(Row)
    BY <1>2, <2>3, <2>7, ConcatProperties
  <2> QED BY <2>3, <2>8, <2>9
<1>4. \A k \in 1..N : F[k] \in Seq(Row)
  BY <1>3
<1>5. N \in 1..N
  BY <1>1
<1> QED BY <1>4, <1>5 DEF Flattens

\* What opening a shard gives: a cursor over the whole shard, at a version
\* the read may show.
LEMMA OpenWhole ==
  ASSUME CopiesOK, NEW s \in DrShard, NEW c \in OpenShard(s)
  PROVE  CursorOK(c) /\ Whole(s, Rest(c)) /\ (~c.remote => c.left = Rest(c))
<1>1. CASE HasLocalCopy(s)
  <2>1. PICK v : v = IF drConf.path = "tx" THEN drFirst[DrLocal][s] ELSE drCopy[DrLocal][s]
    OBVIOUS
  <2>2. v \in 0..MaxWrites
    BY <2>1, DrAssumption DEF CopiesOK
  <2>3. MayShow(s, v)
    BY <1>1, <2>1 DEF MayShow
  <2>4. c = LocalCursor(ShardRows(s, v))
    BY <1>1, <2>1 DEF OpenShard
  <2>5. PICK rows \in Seq(Row) : rows = ShardRows(s, v)
    BY <2>2, ShardRowsType
  <2>6. CursorOK(LocalCursor(rows)) /\ Rest(LocalCursor(rows)) = rows
         /\ LocalCursor(rows).left = rows /\ LocalCursor(rows).remote = FALSE
    BY LocalCursorHolds
  <2> QED BY <2>2, <2>3, <2>4, <2>5, <2>6 DEF Whole
<1>2. CASE ~HasLocalCopy(s)
  <2>1. PICK n \in SelectRemoteQueryTarget(s) : c = RemoteCursor(ShardRows(s, drCopy[n][s]))
    BY <1>2 DEF OpenShard
  <2>2. drConf.primary[s] \in DrServer /\ drConf.replicas[s] \in Seq(DrServer)
    BY DrAssumption DEF CopiesOK, DrConfOK
  <2>3. n \in DrServer /\ (drConf.prefer = "primary" => n = drConf.primary[s])
    <3>1. PICK near : near = {i \in DOMAIN drConf.replicas[s] : drConf.replicas[s][i] \in drConf.peers}
      OBVIOUS
    <3>2. CASE drConf.prefer = "replica" /\ near # {}
      <4>1. near \subseteq 1..Len(drConf.replicas[s])
        BY <2>2, <3>1
      <4>2. near \subseteq Nat
        BY <2>2, <4>1
      <4>3. Min(near) \in near
        BY <3>2, <4>2, MinInSet
      <4>4. drConf.replicas[s][Min(near)] \in DrServer
        <5>1. PICK r \in Seq(DrServer) : r = drConf.replicas[s]
          BY <2>2
        <5>2. PICK i \in 1..Len(r) : i = Min(near)
          BY <4>1, <4>3, <5>1
        <5>3. r[i] \in DrServer
          BY ElementOfSeq
        <5> QED BY <5>1, <5>2, <5>3
      <4>5. n = drConf.replicas[s][Min(near)]
        BY <2>1, <3>1, <3>2 DEF SelectRemoteQueryTarget
      <4> QED BY <3>2, <4>4, <4>5
    <3>3. CASE ~(drConf.prefer = "replica" /\ near # {})
      <4>1. n = drConf.primary[s]
        BY <2>1, <3>1, <3>3 DEF SelectRemoteQueryTarget
      <4> QED BY <2>2, <4>1
    <3> QED BY <3>2, <3>3
  <2>4. PICK v \in 0..MaxWrites : v = drCopy[n][s]
    BY <2>3 DEF CopiesOK
  <2>5. MayShow(s, v)
    BY <1>2, <2>2, <2>3, <2>4 DEF MayShow, CopiesOK
  <2>6. PICK rows \in Seq(Row) : rows = ShardRows(s, v)
    BY ShardRowsType
  <2>7. CursorOK(RemoteCursor(rows)) /\ Rest(RemoteCursor(rows)) = rows
         /\ RemoteCursor(rows).remote = TRUE
    BY RemoteCursorHolds
  <2> QED BY <2>1, <2>4, <2>5, <2>6, <2>7 DEF Whole
<1> QED BY <1>1, <1>2

-----------------------------------------------------------------------------
(* What depends only on the configuration and on where the read began.     *)

\* It is the same before and after a step that changes neither.
LEMMA Stable ==
  ASSUME UNCHANGED <<drConf, drFirst>>
  PROVE  /\ \A s, v : ShardRows(s, v)' = ShardRows(s, v)
         /\ \A s, v : MayShow(s, v)' <=> MayShow(s, v)
         /\ \A s, x : Whole(s, x)' <=> Whole(s, x)
         /\ \A v, F : Flattens(v, F)' <=> Flattens(v, F)
<1>1. \A s, v : ShardRows(s, v)' = ShardRows(s, v)
  BY DEF ShardRows
<1>2. \A s, v : MayShow(s, v)' <=> MayShow(s, v)
  BY DEF MayShow, HasLocalCopy
<1>3. \A s, x : Whole(s, x)' <=> Whole(s, x)
  BY <1>1, <1>2 DEF Whole
<1>4. ASSUME NEW v, NEW F PROVE Flattens(v, F)' <=> Flattens(v, F)
  <2>1. [s \in DrShard |-> ShardRows(s, v[s])]' = [s \in DrShard |-> ShardRows(s, v[s])]
    BY <1>1
  <2> QED BY <1>1, <2>1 DEF Flattens
<1> QED BY <1>1, <1>2, <1>3, <1>4

\* A read that is over stays as it is.
LEMMA DoneStable ==
  ASSUME ReadsAreWhole, UNCHANGED <<drConf, drFirst>>,
         drPhase' = "done" => drPhase = "done" /\ drRows' = drRows
  PROVE  ReadsAreWhole'
<1> SUFFICES ASSUME drPhase' = "done"
             PROVE  \E v \in [DrShard -> 0..MaxWrites] :
                      /\ \A s \in DrShard : MayShow(s, v[s])'
                      /\ drRows' = FlattenSeq([s \in DrShard |-> ShardRows(s, v[s])'])
  BY DEF ReadsAreWhole
<1>1. PICK v \in [DrShard -> 0..MaxWrites] :
         /\ \A s \in DrShard : MayShow(s, v[s])
         /\ drRows = FlattenSeq([s \in DrShard |-> ShardRows(s, v[s])])
  BY DEF ReadsAreWhole
<1>2. [s \in DrShard |-> ShardRows(s, v[s])'] = [s \in DrShard |-> ShardRows(s, v[s])]
  BY Stable
<1>3. \A s \in DrShard : MayShow(s, v[s])'
  BY <1>1, Stable
<1> QED BY <1>1, <1>2, <1>3

\* A read that ends with whole shards is whole.
LEMMA WholeAtEnd ==
  ASSUME NEW v \in [DrShard -> 0..MaxWrites], UNCHANGED <<drConf, drFirst>>,
         \A s \in DrShard : MayShow(s, v[s]),
         drRows' = FlattenSeq([s \in DrShard |-> ShardRows(s, v[s])])
  PROVE  ReadsAreWhole'
<1>1. [s \in DrShard |-> ShardRows(s, v[s])'] = [s \in DrShard |-> ShardRows(s, v[s])]
  BY Stable
<1>2. \A s \in DrShard : MayShow(s, v[s])'
  BY Stable
<1> QED BY <1>1, <1>2 DEF ReadsAreWhole

\* The invariant reads the copies only through CopiesOK.
LEMMA CopiesFrame ==
  ASSUME ReadInv, CopiesOK',
         UNCHANGED <<drConf, drFirst, drPhase, drCursor, drWorker, drGot, drQueue, drParts,
                     drAt, drPage, drRows>>
  PROVE  ReadInv'
<1>1. StateOK'
  BY DEF ReadInv, StateOK
<1>2. PullsWhole => PullsWhole'
  BY Stable DEF PullsWhole
<1>3. ResultsWhole => ResultsWhole'
  BY Stable DEF ResultsWhole
<1>4. GatherInv'
  BY <1>2, <1>3 DEF ReadInv, GatherInv
<1>5. OpenedWhole => OpenedWhole'
  BY Stable DEF OpenedWhole
<1>6. \A v, F : PageWhole(v, F) => PageWhole(v, F)'
  <2>1. ASSUME NEW v, NEW F, PageWhole(v, F) PROVE PageWhole(v, F)'
    BY <2>1, Stable DEF PageWhole
  <2> QED BY <2>1
<1>7. NativeInv'
  BY <1>5, <1>6 DEF ReadInv, NativeInv
<1>8. ReadsAreWhole'
  BY DoneStable DEF ReadInv
<1> QED BY <1>1, <1>4, <1>7, <1>8 DEF ReadInv

-----------------------------------------------------------------------------
(* The steps.                                                              *)

\* Before the read.
LEMMA ReadInitInv == ReadInit => ReadInv
<1> SUFFICES ASSUME ReadInit PROVE ReadInv
  OBVIOUS
<1>1. NoCursor \in Cursor
  BY DEF NoCursor, LocalCursor, Cursor
<1>2. CopiesOK
  BY DrAssumption DEF ReadInit, CopiesOK
<1>3. StateOK
  BY <1>1 DEF ReadInit, StateOK
<1>4. PullsWhole
  BY DEF ReadInit, PullsWhole
<1>5. ResultsWhole
  BY DEF ReadInit, ResultsWhole
<1>6. GatherInv
  BY <1>4, <1>5 DEF ReadInit, GatherInv
<1>7. NativeInv
  BY DEF ReadInit, NativeInv
<1>8. ReadsAreWhole
  BY DEF ReadInit, ReadsAreWhole
<1> QED BY <1>2, <1>3, <1>6, <1>7, <1>8 DEF ReadInv

\* One copy of a shard gains a write.
LEMMA CopyGrows ==
  ASSUME CopiesOK, NEW n \in DrServer, NEW s \in DrShard, drCopy[n][s] < MaxWrites,
         drCopy' = [drCopy EXCEPT ![n][s] = @ + 1], UNCHANGED <<drConf, drFirst>>
  PROVE  CopiesOK'
<1>1. PICK v \in 0..MaxWrites : v = drCopy[n][s]
  BY DEF CopiesOK
<1>2. PICK w \in 0..MaxWrites : w = v + 1
  BY <1>1, DrAssumption
<1>3. PICK r : r = [drCopy[n] EXCEPT ![s] = w]
  OBVIOUS
<1>4. r \in [DrShard -> 0..MaxWrites] /\ r[s] = w /\ \A t \in DrShard \ {s} : r[t] = drCopy[n][t]
  BY <1>3 DEF CopiesOK
<1>5. drCopy' = [drCopy EXCEPT ![n] = r]
  BY <1>1, <1>2, <1>3 DEF CopiesOK
<1>6. /\ drCopy' \in [DrServer -> [DrShard -> 0..MaxWrites]]
      /\ drCopy'[n] = r /\ \A m \in DrServer \ {n} : drCopy'[m] = drCopy[m]
  BY <1>4, <1>5 DEF CopiesOK
<1>7. ASSUME NEW m \in DrServer, NEW t \in DrShard PROVE drFirst[m][t] <= drCopy'[m][t]
  <2>1. drFirst[m][t] \in 0..MaxWrites /\ drFirst[m][t] <= drCopy[m][t]
    BY DEF CopiesOK
  <2>2. CASE m = n /\ t = s
    <3>1. drFirst[m][t] <= v /\ drCopy'[m][t] = w
      BY <1>1, <1>4, <1>6, <2>1, <2>2
    <3> QED BY <1>2, <2>1, <3>1, DrAssumption
  <2>3. CASE ~(m = n /\ t = s)
    BY <1>4, <1>6, <2>1, <2>3
  <2> QED BY <2>2, <2>3
<1> QED BY <1>6, <1>7 DEF CopiesOK

\* A write of another session.
LEMMA OtherWriteInv ==
  ASSUME ReadInv, NEW s \in DrShard, OtherWrite(s)
  PROVE  ReadInv'
<1>1. PICK n \in DrServer : n = drConf.primary[s]
  BY DrAssumption DEF ReadInv, CopiesOK, DrConfOK
<1>2. drCopy[n][s] < MaxWrites /\ drCopy' = [drCopy EXCEPT ![n][s] = @ + 1]
  BY <1>1 DEF OtherWrite
<1>3. CopiesOK'
  BY <1>2, CopyGrows DEF OtherWrite, ReadInv
<1> QED BY <1>3, CopiesFrame DEF OtherWrite

\* A replica that catches up.
LEMMA CopyWriteInv ==
  ASSUME ReadInv, NEW n \in DrServer, NEW s \in DrShard, CopyWrite(n, s)
  PROVE  ReadInv'
<1>1. PICK m \in DrServer : m = drConf.primary[s]
  BY DrAssumption DEF ReadInv, CopiesOK, DrConfOK
<1>2. drCopy[n][s] < drCopy[m][s] /\ drCopy' = [drCopy EXCEPT ![n][s] = @ + 1]
  BY <1>1 DEF CopyWrite
<1>3. CopiesOK'
  <2>1. drCopy[n][s] < MaxWrites
    <3>1. drCopy[n][s] \in 0..MaxWrites /\ drCopy[m][s] \in 0..MaxWrites
      BY DEF ReadInv, CopiesOK
    <3> QED BY <1>2, <3>1, DrAssumption
  <2> QED BY <1>2, <2>1, CopyGrows DEF CopyWrite, ReadInv
<1> QED BY <1>3, CopiesFrame DEF CopyWrite

\* The read begins: nothing is opened yet.
LEMMA BeginReadInv ==
  ASSUME ReadInv, BeginRead
  PROVE  ReadInv'
<1>1. CopiesOK'
  BY DrAssumption DEF BeginRead, ReadInv, CopiesOK
<1>2. StateOK'
  BY DEF BeginRead, ReadInv, StateOK
<1>3. GatherInv'
  <2> SUFFICES ASSUME drConf.path = "gather"
               PROVE  drPhase' \in {"gather"} /\ PullsWhole' /\ ResultsWhole'
    BY DEF BeginRead, GatherInv
  <2>1. /\ drQueue' = <<>> /\ drParts' = {} /\ \A s \in DrShard : drWorker'[s] = "start"
        /\ drGot' = drGot /\ PullsWhole
    BY DEF BeginRead, ReadInv, GatherInv
  <2>2. PullsWhole'
    BY <2>1 DEF BeginRead, PullsWhole
  <2>3. ResultsWhole'
    BY <2>1 DEF ResultsWhole
  <2> QED BY <2>2, <2>3 DEF BeginRead
<1>4. NativeInv'
  <2> SUFFICES ASSUME drConf.path # "gather"
               PROVE  /\ drPhase' = "open" /\ \A s \in DrShard : drWorker'[s] = "start"
                      /\ drRows' = <<>> /\ drPage' = <<>> /\ drAt' \in 0..N /\ OpenedWhole'
    BY DEF BeginRead, NativeInv
  <2>1. /\ drPhase' = "open" /\ \A s \in DrShard : drWorker'[s] = "start"
        /\ drRows' = <<>> /\ drPage' = <<>> /\ drAt' = 0
    BY DEF BeginRead, ReadInv, NativeInv
  <2>2. OpenedWhole'
    BY <2>1, ShardsAre DEF OpenedWhole
  <2> QED BY <2>1, <2>2, ShardsAre
<1>5. ReadsAreWhole'
  BY DEF BeginRead, ReadsAreWhole
<1> QED BY <1>1, <1>2, <1>3, <1>4, <1>5 DEF ReadInv

-----------------------------------------------------------------------------
(* Gathering.                                                              *)

Result == [shard : DrShard, ok : BOOLEAN, rows : Seq(Row)]

\* A worker that has not sent has no result under way.
LEMMA NoResultYet ==
  ASSUME StateOK, ResultsWhole, NEW s \in DrShard, drWorker[s] # "sent"
  PROVE  /\ \A i \in 1..Len(drQueue) : drQueue[i].shard # s
         /\ \A p \in drParts : p.shard # s
BY DEF ResultsWhole

\* The worker of shard s sends its result: whole rows, or an error.
LEMMA SendsResult ==
  ASSUME StateOK, ResultsWhole, NEW s \in DrShard, drWorker[s] # "sent",
         NEW m \in Result, m.shard = s, m.ok => Whole(s, m.rows),
         drQueue' = Append(drQueue, m), drWorker' = [drWorker EXCEPT ![s] = "sent"],
         UNCHANGED <<drParts, drConf, drFirst>>
  PROVE  /\ ResultsWhole'
         /\ drQueue' \in Seq(Result)
         /\ drWorker' \in [DrShard -> {"start", "pull", "sent"}]
<1>1. PICK q \in Seq(Result) : q = drQueue
  BY DEF StateOK, Result
<1>2. PICK n \in Nat : n = Len(q)
  BY <1>1
<1>3. PICK r : r = Append(q, m)
  OBVIOUS
<1>4. /\ r \in Seq(Result) /\ Len(r) = n + 1 /\ r[n + 1] = m
      /\ \A i \in 1..n : r[i] = q[i]
  BY <1>1, <1>2, <1>3, AppendProperties
<1>5. drQueue' = r
  BY <1>1, <1>3
<1>6. /\ drWorker' \in [DrShard -> {"start", "pull", "sent"}]
      /\ drWorker'[s] = "sent" /\ \A t \in DrShard \ {s} : drWorker'[t] = drWorker[t]
  BY DEF StateOK
<1>7. /\ \A i \in 1..n : q[i].shard # s
      /\ \A p \in drParts : p.shard # s
  BY <1>1, <1>2, NoResultYet
<1>8. \A i \in 1..n : q[i].shard \in DrShard
  <2>1. ASSUME NEW i \in 1..n PROVE q[i].shard \in DrShard
    <3>1. q[i] \in Result
      BY <1>2, ElementOfSeq
    <3> QED BY <3>1 DEF Result
  <2> QED BY <2>1
<1>9. \A p \in drParts : p.shard \in DrShard
  BY DEF StateOK
<1>10. /\ \A i \in 1..n :
            /\ drWorker[q[i].shard] = "sent"
            /\ q[i].ok => Whole(q[i].shard, q[i].rows)
            /\ \A j \in 1..n : q[i].shard = q[j].shard => i = j
            /\ \A p \in drParts : p.shard # q[i].shard
       /\ \A p \in drParts : drWorker[p.shard] = "sent" /\ Whole(p.shard, p.rows)
       /\ \A p, o \in drParts : p.shard = o.shard => p = o
  BY <1>1, <1>2 DEF ResultsWhole
<1>11. \A t, x : Whole(t, x)' <=> Whole(t, x)
  BY Stable
<1>12. ASSUME NEW i \in 1..(n + 1)
       PROVE  /\ drWorker'[r[i].shard] = "sent"
              /\ r[i].ok => Whole(r[i].shard, r[i].rows)
              /\ \A j \in 1..(n + 1) : r[i].shard = r[j].shard => i = j
              /\ \A p \in drParts : p.shard # r[i].shard
  <2>1. CASE i = n + 1
    <3>1. r[i] = m
      BY <1>4, <2>1
    <3>2. \A j \in 1..(n + 1) : r[i].shard = r[j].shard => i = j
      BY <1>2, <1>4, <1>7, <2>1, <3>1
    <3> QED BY <1>6, <1>7, <3>1, <3>2
  <2>2. CASE i # n + 1
    <3>1. i \in 1..n /\ r[i] = q[i]
      BY <1>2, <1>4, <2>2
    <3>2. ASSUME NEW j \in 1..(n + 1), r[i].shard = r[j].shard PROVE i = j
      <4>1. CASE j = n + 1
        <5>1. r[j].shard = s
          BY <1>4, <4>1
        <5> QED BY <1>7, <3>1, <3>2, <5>1
      <4>2. CASE j # n + 1
        <5>1. j \in 1..n /\ r[j] = q[j]
          BY <1>2, <1>4, <4>2
        <5> QED BY <1>10, <3>1, <3>2, <5>1
      <4> QED BY <4>1, <4>2
    <3>3. drWorker'[r[i].shard] = "sent"
      BY <1>6, <1>8, <1>10, <3>1
    <3> QED BY <1>10, <3>1, <3>2, <3>3
  <2> QED BY <2>1, <2>2
<1>13. \A p \in drParts : drWorker'[p.shard] = "sent" /\ Whole(p.shard, p.rows)
  BY <1>6, <1>9, <1>10
<1>14. Len(drQueue') = n + 1
  BY <1>4, <1>5
<1>15. ResultsWhole'
  <2>1. \A i \in 1..Len(drQueue') :
          /\ drWorker'[drQueue'[i].shard] = "sent"
          /\ drQueue'[i].ok => Whole(drQueue'[i].shard, drQueue'[i].rows)
          /\ \A j \in 1..Len(drQueue') : drQueue'[i].shard = drQueue'[j].shard => i = j
          /\ \A p \in drParts : p.shard # drQueue'[i].shard
    BY <1>5, <1>12, <1>14
  <2> QED BY <1>10, <1>11, <1>13, <2>1 DEF ResultsWhole
<1> QED BY <1>4, <1>5, <1>6, <1>15

\* A step of the gathering keeps the rest of the invariant.
LEMMA GatherFrame ==
  ASSUME ReadInv, drConf.path = "gather", StateOK', PullsWhole', ResultsWhole',
         drPhase # "idle", drPhase' \in {"gather", "join", "done", "failed"},
         drPhase' = "done" => drPhase = "done" /\ drRows' = drRows,
         UNCHANGED <<drConf, drFirst, drCopy>>
  PROVE  ReadInv'
<1>1. CopiesOK'
  BY DEF ReadInv, CopiesOK
<1>2. GatherInv'
  BY DEF GatherInv
<1>3. NativeInv'
  BY DEF NativeInv
<1>4. ReadsAreWhole'
  BY DoneStable DEF ReadInv
<1> QED BY <1>1, <1>2, <1>3, <1>4 DEF ReadInv

\* The pulls of the other workers are not touched.
LEMMA PullsKept ==
  ASSUME StateOK, PullsWhole, NEW s \in DrShard, UNCHANGED <<drConf, drFirst>>,
         \A t \in DrShard \ {s} : /\ drWorker'[t] = drWorker[t] /\ drGot'[t] = drGot[t]
                                  /\ drCursor'[t] = drCursor[t],
         \/ drWorker'[s] = "sent"
         \/ /\ drWorker'[s] = "pull"
            /\ CursorOK(drCursor'[s]) /\ Whole(s, drGot'[s] \o Rest(drCursor'[s]))
  PROVE  PullsWhole'
<1>1. \A t, x : Whole(t, x)' <=> Whole(t, x)
  BY Stable
<1>2. ASSUME NEW t \in DrShard
      PROVE  /\ drWorker'[t] = "start" => drGot'[t] = <<>>
             /\ drWorker'[t] = "pull" => CursorOK(drCursor'[t]) /\ Whole(t, drGot'[t] \o Rest(drCursor'[t]))
  <2>1. CASE t = s
    BY <2>1
  <2>2. CASE t # s
    BY <2>2 DEF PullsWhole
  <2> QED BY <2>1, <2>2
<1> QED BY <1>1, <1>2 DEF PullsWhole

\* A worker starts: it sends its local shard, or opens its cursor, or fails.
LEMMA StartWorkerInv ==
  ASSUME ReadInv, NEW s \in DrShard, StartWorker(s)
  PROVE  ReadInv'
<1>1. /\ drConf.path = "gather" /\ drPhase # "idle" /\ drWorker[s] = "start"
      /\ UNCHANGED <<drConf, drCopy, drFirst, drPhase, drGot, drParts, drAt, drPage, drRows>>
  BY DEF StartWorker
<1>2. CopiesOK /\ StateOK /\ PullsWhole /\ ResultsWhole /\ drPhase \in {"gather", "join", "done", "failed"}
  BY <1>1 DEF ReadInv, GatherInv
<1>3. SUFFICES StateOK' /\ PullsWhole' /\ ResultsWhole'
  BY <1>1, <1>2, GatherFrame
<1>4. drWorker \in [DrShard -> {"start", "pull", "sent"}] /\ drCursor \in [DrShard -> Cursor]
  BY <1>2 DEF StateOK
<1>5. ASSUME NEW m \in Result, m.shard = s, m.ok => Whole(s, m.rows),
             drQueue' = Append(drQueue, m), drWorker' = [drWorker EXCEPT ![s] = "sent"],
             UNCHANGED drCursor
      PROVE  StateOK' /\ PullsWhole' /\ ResultsWhole'
  <2>1. /\ ResultsWhole'
        /\ drQueue' \in Seq(Result)
        /\ drWorker' \in [DrShard -> {"start", "pull", "sent"}]
    BY <1>1, <1>2, <1>5, SendsResult
  <2>2. drWorker'[s] = "sent" /\ \A t \in DrShard \ {s} : drWorker'[t] = drWorker[t]
    BY <1>4, <1>5
  <2>3. PullsWhole'
    BY <1>1, <1>2, <1>5, <2>2, PullsKept
  <2>4. StateOK'
    BY <1>1, <1>2, <1>5, <2>1 DEF StateOK, Result
  <2> QED BY <2>1, <2>3, <2>4
<1>6. ASSUME NEW c \in OpenShard(s), c.remote,
             drCursor' = [drCursor EXCEPT ![s] = c], drWorker' = [drWorker EXCEPT ![s] = "pull"],
             UNCHANGED drQueue
      PROVE  StateOK' /\ PullsWhole' /\ ResultsWhole'
  <2>1. CursorOK(c) /\ Whole(s, Rest(c))
    BY <1>2, OpenWhole
  <2>2. c \in Cursor /\ Rest(c) \in Seq(Row)
    BY <2>1 DEF CursorOK, Cursor, Rest
  <2>3. /\ drCursor' \in [DrShard -> Cursor] /\ drCursor'[s] = c
        /\ drWorker' \in [DrShard -> {"start", "pull", "sent"}] /\ drWorker'[s] = "pull"
        /\ \A t \in DrShard \ {s} : drWorker'[t] = drWorker[t] /\ drCursor'[t] = drCursor[t]
    BY <1>4, <1>6, <2>2
  <2>4. drGot[s] = <<>>
    BY <1>1, <1>2 DEF PullsWhole
  <2>5. drGot'[s] \o Rest(drCursor'[s]) = Rest(c)
    <3>1. <<>> \o Rest(c) = Rest(c)
      BY <2>2, ConcatEmptySeq
    <3> QED BY <1>1, <2>3, <2>4, <3>1
  <2>6. PullsWhole'
    BY <1>1, <1>2, <2>1, <2>3, <2>5, PullsKept
  <2>7. StateOK'
    BY <1>1, <1>2, <1>6, <2>3 DEF StateOK
  <2>8. ResultsWhole'
    <3>1. /\ \A i \in 1..Len(drQueue) : drQueue[i].shard # s
          /\ \A p \in drParts : p.shard # s
      BY <1>1, <1>2, NoResultYet
    <3>2. \A i \in 1..Len(drQueue) : drQueue[i].shard \in DrShard
      <4>1. drQueue \in Seq(Result)
        BY <1>2 DEF StateOK, Result
      <4>2. \A i \in 1..Len(drQueue) : drQueue[i] \in Result
        BY <4>1, ElementOfSeq
      <4> QED BY <4>2 DEF Result
    <3>3. \A p \in drParts : p.shard \in DrShard
      BY <1>2 DEF StateOK
    <3>4. \A t, x : Whole(t, x)' <=> Whole(t, x)
      BY <1>1, Stable
    <3>5. drQueue' = drQueue /\ drParts' = drParts
      BY <1>1, <1>6
    <3> QED BY <1>2, <2>3, <3>1, <3>2, <3>3, <3>4, <3>5 DEF ResultsWhole
  <2> QED BY <2>6, <2>7, <2>8
<1>7. CASE \E c \in OpenShard(s) :
             IF c.remote
             THEN /\ drCursor' = [drCursor EXCEPT ![s] = c]
                  /\ drWorker' = [drWorker EXCEPT ![s] = "pull"]
                  /\ UNCHANGED drQueue
             ELSE /\ drWorker' = [drWorker EXCEPT ![s] = "sent"]
                  /\ drQueue' = Append(drQueue, [shard |-> s, ok |-> TRUE, rows |-> c.left])
                  /\ UNCHANGED drCursor
  <2>1. PICK c \in OpenShard(s) :
             IF c.remote
             THEN /\ drCursor' = [drCursor EXCEPT ![s] = c]
                  /\ drWorker' = [drWorker EXCEPT ![s] = "pull"]
                  /\ UNCHANGED drQueue
             ELSE /\ drWorker' = [drWorker EXCEPT ![s] = "sent"]
                  /\ drQueue' = Append(drQueue, [shard |-> s, ok |-> TRUE, rows |-> c.left])
                  /\ UNCHANGED drCursor
    BY <1>7
  <2>2. CASE c.remote
    BY <1>6, <2>1, <2>2
  <2>3. CASE ~c.remote
    <3>1. CursorOK(c) /\ Whole(s, Rest(c)) /\ c.left = Rest(c)
      BY <1>2, <2>3, OpenWhole
    <3>2. PICK m : m = [shard |-> s, ok |-> TRUE, rows |-> c.left]
      OBVIOUS
    <3>3. m \in Result /\ m.shard = s /\ m.rows = Rest(c)
      BY <3>1, <3>2 DEF Result, CursorOK, Cursor
    <3> QED BY <1>5, <2>1, <2>3, <3>1, <3>2, <3>3
  <2> QED BY <2>2, <2>3
<1>8. CASE /\ OpenMayFail(s)
           /\ drWorker' = [drWorker EXCEPT ![s] = "sent"]
           /\ drQueue' = Append(drQueue, [shard |-> s, ok |-> FALSE, rows |-> <<>>])
           /\ UNCHANGED drCursor
  <2>1. PICK m : m = [shard |-> s, ok |-> FALSE, rows |-> <<>>]
    OBVIOUS
  <2>2. m \in Result /\ m.shard = s /\ ~m.ok
    BY <2>1 DEF Result
  <2> QED BY <1>5, <1>8, <2>1, <2>2
<1> QED BY <1>7, <1>8 DEF StartWorker

\* What the theorem asks of the peers: a call for more rows of a cursor that
\* is open is answered.
FetchesAnswered == \A c \in DrConf : "fetch" \notin c.faults

\* A worker pulls a page; with the last one it sends all it has.
LEMMA PullWorkerInv ==
  ASSUME ReadInv, FetchesAnswered, NEW s \in DrShard, PullWorker(s)
  PROVE  ReadInv'
<1>1. /\ drWorker[s] = "pull"
      /\ UNCHANGED <<drConf, drCopy, drFirst, drPhase, drParts, drAt, drPage, drRows>>
  BY DEF PullWorker
<1>2. drConf.path = "gather"
  BY <1>1 DEF ReadInv, NativeInv
<1>3. CopiesOK /\ StateOK /\ PullsWhole /\ ResultsWhole /\ drPhase \in {"gather", "join", "done", "failed"}
  BY <1>1, <1>2 DEF ReadInv, GatherInv
<1>4. SUFFICES StateOK' /\ PullsWhole' /\ ResultsWhole'
  BY <1>1, <1>2, <1>3, GatherFrame
<1>5. FetchOutcomes(drCursor[s]) = {TRUE}
  BY <1>3 DEF FetchOutcomes, FetchesAnswered, CopiesOK
<1>6. PICK page :
        /\ page = FetchShardCursor(drCursor[s], GatherPage, TRUE)
        /\ drCursor' = [drCursor EXCEPT ![s] = page.cursor]
        /\ drGot' = [drGot EXCEPT ![s] = @ \o page.rows]
        /\ \/ page.more /\ UNCHANGED <<drWorker, drQueue>>
           \/ /\ ~page.more
              /\ drWorker' = [drWorker EXCEPT ![s] = "sent"]
              /\ drQueue' = Append(drQueue, [shard |-> s, ok |-> TRUE, rows |-> drGot'[s]])
  BY <1>5 DEF PullWorker
<1>7. PICK c \in Cursor : c = drCursor[s]
  BY <1>3 DEF StateOK
<1>8. PICK g \in Seq(Row) : g = drGot[s]
  BY <1>3 DEF StateOK
<1>9. CursorOK(c) /\ Whole(s, g \o Rest(c))
  BY <1>1, <1>3, <1>7, <1>8 DEF PullsWhole
<1>10. /\ page.rows \in Seq(Row) /\ page.more \in BOOLEAN
       /\ CursorOK(page.cursor)
       /\ page.rows \o Rest(page.cursor) = Rest(c)
       /\ ~page.more => Rest(page.cursor) = <<>>
  BY <1>6, <1>7, <1>9, FetchKeeps, DrAssumption
<1>11. PICK d \in Cursor : d = page.cursor
  BY <1>10 DEF CursorOK
<1>12. PICK r \in Seq(Row) : r = page.rows
  BY <1>10
<1>13. PICK h \in Seq(Row) : h = g \o r
  BY ConcatProperties
<1>14. Rest(d) \in Seq(Row)
  BY DEF Rest, Cursor
<1>15. h \o Rest(d) = g \o Rest(c)
  <2>1. (g \o r) \o Rest(d) = g \o (r \o Rest(d))
    BY <1>14, RowsAssociative
  <2> QED BY <1>10, <1>11, <1>12, <1>13, <2>1
<1>16. /\ drCursor' \in [DrShard -> Cursor] /\ drCursor'[s] = d
       /\ drGot' \in [DrShard -> Seq(Row)] /\ drGot'[s] = h
       /\ \A t \in DrShard \ {s} : drGot'[t] = drGot[t] /\ drCursor'[t] = drCursor[t]
  <2>1. drCursor' = [drCursor EXCEPT ![s] = d] /\ drGot' = [drGot EXCEPT ![s] = h]
    BY <1>6, <1>8, <1>11, <1>12, <1>13
  <2> QED BY <1>3, <2>1 DEF StateOK
<1>17. CASE page.more /\ UNCHANGED <<drWorker, drQueue>>
  <2>1. StateOK'
    BY <1>1, <1>3, <1>16, <1>17 DEF StateOK
  <2>2. CursorOK(drCursor'[s]) /\ Whole(s, drGot'[s] \o Rest(drCursor'[s]))
    BY <1>9, <1>10, <1>11, <1>15, <1>16
  <2>3. PullsWhole'
    BY <1>1, <1>3, <1>16, <1>17, <2>2, PullsKept
  <2>4. \A t, x : Whole(t, x)' <=> Whole(t, x)
    BY <1>1, Stable
  <2>5. ResultsWhole'
    BY <1>1, <1>3, <1>17, <2>4 DEF ResultsWhole
  <2> QED BY <2>1, <2>3, <2>5
<1>18. CASE /\ ~page.more
            /\ drWorker' = [drWorker EXCEPT ![s] = "sent"]
            /\ drQueue' = Append(drQueue, [shard |-> s, ok |-> TRUE, rows |-> drGot'[s]])
  <2>1. PICK m : m = [shard |-> s, ok |-> TRUE, rows |-> h]
    OBVIOUS
  <2>2. m \in Result /\ m.shard = s /\ m.rows = h
    BY <2>1 DEF Result
  <2>3. Whole(s, h)
    <3>1. Rest(d) = <<>>
      BY <1>10, <1>11, <1>18
    <3>2. h \o <<>> = h
      BY ConcatEmptySeq
    <3> QED BY <1>9, <1>15, <3>1, <3>2
  <2>4. drQueue' = Append(drQueue, m)
    BY <1>16, <1>18, <2>1
  <2>5. /\ ResultsWhole'
        /\ drQueue' \in Seq(Result)
        /\ drWorker' \in [DrShard -> {"start", "pull", "sent"}]
    BY <1>1, <1>3, <1>18, <2>2, <2>3, <2>4, SendsResult
  <2>6. drWorker'[s] = "sent" /\ \A t \in DrShard \ {s} : drWorker'[t] = drWorker[t]
    BY <1>3, <1>18 DEF StateOK
  <2>7. PullsWhole'
    BY <1>1, <1>3, <1>16, <2>6, PullsKept
  <2>8. StateOK'
    BY <1>1, <1>3, <1>16, <2>5 DEF StateOK, Result
  <2> QED BY <2>5, <2>7, <2>8
<1> QED BY <1>6, <1>17, <1>18

\* The oldest result is received.
LEMMA ReceivePartInv ==
  ASSUME ReadInv, ReceivePart
  PROVE  ReadInv'
<1>1. /\ drPhase = "gather" /\ drQueue # <<>> /\ drQueue' = Tail(drQueue)
      /\ UNCHANGED <<drConf, drCopy, drFirst, drCursor, drWorker, drGot, drAt, drPage, drRows>>
      /\ drPhase' \in {"gather", "join", "failed"}
  BY DEF ReceivePart
<1>2. drConf.path = "gather"
  BY <1>1 DEF ReadInv, NativeInv
<1>3. CopiesOK /\ StateOK /\ PullsWhole /\ ResultsWhole
  BY <1>2 DEF ReadInv, GatherInv
<1>4. PICK q \in Seq(Result) : q = drQueue
  BY <1>3 DEF StateOK, Result
<1>5. PICK n \in Nat : Len(q) = n + 1
  BY <1>1, <1>4
<1>6. PICK r \in Seq(Result) : r = Tail(q)
  BY <1>1, <1>4
<1>7. Len(r) = n /\ \A i \in 1..n : r[i] = q[i + 1]
  BY <1>1, <1>4, <1>5, <1>6
<1>8. PICK m \in Result : m = Head(q) /\ m = q[1]
  BY <1>1, <1>4
<1>9. drQueue' = r /\ Len(drQueue') = n
  BY <1>1, <1>4, <1>6, <1>7
<1>10. /\ m.ok => drParts' = drParts \cup {m}
       /\ ~m.ok => drParts' = drParts
  BY <1>4, <1>8 DEF ReceivePart
<1>11. /\ \A i \in 1..(n + 1) :
            /\ drWorker[q[i].shard] = "sent"
            /\ q[i].ok => Whole(q[i].shard, q[i].rows)
            /\ \A j \in 1..(n + 1) : q[i].shard = q[j].shard => i = j
            /\ \A p \in drParts : p.shard # q[i].shard
       /\ \A p \in drParts : drWorker[p.shard] = "sent" /\ Whole(p.shard, p.rows)
       /\ \A p, o \in drParts : p.shard = o.shard => p = o
  BY <1>3, <1>4, <1>5 DEF ResultsWhole
<1>12. 1 \in 1..(n + 1) /\ \A i \in 1..n : i + 1 \in 1..(n + 1) /\ i + 1 # 1
  BY <1>5
<1>13. \A i, j \in 1..n : i + 1 = j + 1 => i = j
  OBVIOUS
<1>14. ASSUME NEW i \in 1..n
       PROVE  /\ drWorker[r[i].shard] = "sent"
              /\ r[i].ok => Whole(r[i].shard, r[i].rows)
              /\ \A j \in 1..n : r[i].shard = r[j].shard => i = j
              /\ \A p \in drParts' : p.shard # r[i].shard
  <2>1. PICK k \in 1..(n + 1) : k = i + 1 /\ k # 1
    BY <1>12
  <2>2. r[i] = q[k]
    BY <1>7, <2>1
  <2>3. /\ drWorker[r[i].shard] = "sent"
        /\ r[i].ok => Whole(r[i].shard, r[i].rows)
        /\ \A p \in drParts : p.shard # r[i].shard
    BY <1>11, <2>2
  <2>4. m.shard # r[i].shard
    BY <1>8, <1>11, <1>12, <2>1, <2>2
  <2>5. ASSUME NEW j \in 1..n, r[i].shard = r[j].shard PROVE i = j
    <3>1. PICK l \in 1..(n + 1) : l = j + 1
      BY <1>12
    <3>2. r[j] = q[l]
      BY <1>7, <3>1
    <3>3. k = l
      BY <1>11, <2>2, <2>5, <3>2
    <3> QED BY <1>13, <2>1, <3>1, <3>3
  <2> QED BY <1>10, <2>3, <2>4, <2>5
<1>15. /\ \A p \in drParts' : drWorker[p.shard] = "sent" /\ Whole(p.shard, p.rows)
       /\ \A p, o \in drParts' : p.shard = o.shard => p = o
  <2>1. drWorker[m.shard] = "sent" /\ (m.ok => Whole(m.shard, m.rows)) /\ \A p \in drParts : p.shard # m.shard
    BY <1>8, <1>11, <1>12
  <2>2. CASE m.ok
    BY <1>10, <1>11, <2>1, <2>2
  <2>3. CASE ~m.ok
    BY <1>10, <1>11, <2>3
  <2> QED BY <2>2, <2>3
<1>16. \A t, x : Whole(t, x)' <=> Whole(t, x)
  BY <1>1, Stable
<1>17. ResultsWhole'
  <2>1. \A i \in 1..Len(drQueue') :
          /\ drWorker'[drQueue'[i].shard] = "sent"
          /\ drQueue'[i].ok => Whole(drQueue'[i].shard, drQueue'[i].rows)
          /\ \A j \in 1..Len(drQueue') : drQueue'[i].shard = drQueue'[j].shard => i = j
          /\ \A p \in drParts' : p.shard # drQueue'[i].shard
    BY <1>1, <1>9, <1>14
  <2>2. \A p \in drParts' : drWorker'[p.shard] = "sent" /\ Whole(p.shard, p.rows)
    BY <1>1, <1>15
  <2> QED BY <1>15, <1>16, <2>1, <2>2 DEF ResultsWhole
<1>18. PullsWhole'
  BY <1>1, <1>3, <1>16 DEF PullsWhole
<1>19. StateOK'
  <2>1. drParts' \subseteq [shard : DrShard, ok : {TRUE}, rows : Seq(Row)]
    <3>1. m.ok => m \in [shard : DrShard, ok : {TRUE}, rows : Seq(Row)]
      BY DEF Result
    <3>2. drParts \subseteq [shard : DrShard, ok : {TRUE}, rows : Seq(Row)]
      BY <1>3 DEF StateOK
    <3> QED BY <1>10, <3>1, <3>2
  <2>2. drQueue' \in Seq(Result)
    BY <1>9
  <2> QED BY <1>1, <1>3, <2>1, <2>2 DEF StateOK, Result
<1> QED BY <1>1, <1>2, <1>17, <1>18, <1>19, GatherFrame

\* The deadline ends the wait for results.
LEMMA GatherDeadlineInv ==
  ASSUME ReadInv, GatherDeadline
  PROVE  ReadInv'
<1>1. drConf.path = "gather" /\ drPhase = "gather" /\ drPhase' = "join"
  BY DEF GatherDeadline, ReadInv, NativeInv
<1>2. StateOK /\ PullsWhole /\ ResultsWhole
  BY <1>1 DEF ReadInv, GatherInv
<1>3. \A t, x : Whole(t, x)' <=> Whole(t, x)
  BY Stable DEF GatherDeadline
<1>4. StateOK'
  BY <1>2 DEF StateOK, GatherDeadline
<1>5. PullsWhole' /\ ResultsWhole'
  BY <1>2, <1>3 DEF PullsWhole, ResultsWhole, GatherDeadline
<1> QED BY <1>1, <1>4, <1>5, GatherFrame DEF GatherDeadline

\* As many parts as shards, one each, are a part of every shard.
LEMMA PartsCover ==
  ASSUME StateOK, ResultsWhole, Cardinality(drParts) = Cardinality(DrShard), NEW s \in DrShard
  PROVE  \E p \in drParts : p.shard = s
<1> DEFINE f == [p \in drParts |-> p.shard]
<1>1. f \in [drParts -> DrShard]
  BY DEF StateOK
<1>2. \A a, b \in drParts : f[a] = f[b] => a = b
  BY DEF ResultsWhole
<1>3. f \in Injection(drParts, DrShard)
  BY <1>1, <1>2 DEF Injection, IsInjective
<1>4. IsFiniteSet(DrShard)
  BY ShardsAre
<1> HIDE DEF f
<1>5. f \in Surjection(drParts, DrShard)
  BY <1>3, <1>4, FS_Injection
<1>6. PICK p \in drParts : f[p] = s
  BY <1>5 DEF Surjection
<1> QED BY <1>6 DEF f

\* All workers have ended: the merged parts are the shards in order.
LEMMA JoinWorkersInv ==
  ASSUME ReadInv, JoinWorkers
  PROVE  ReadInv'
<1>1. drConf.path = "gather" /\ drPhase = "join"
      /\ UNCHANGED <<drConf, drCopy, drFirst, drCursor, drWorker, drQueue, drGot, drParts, drAt, drPage>>
  BY DEF JoinWorkers, ReadInv, NativeInv
<1>2. CopiesOK /\ StateOK /\ PullsWhole /\ ResultsWhole
  BY <1>1 DEF ReadInv, GatherInv
<1>3. \A t, x : Whole(t, x)' <=> Whole(t, x)
  BY <1>1, Stable
<1>4. PullsWhole' /\ ResultsWhole'
  BY <1>1, <1>2, <1>3 DEF PullsWhole, ResultsWhole
<1>5. CASE Cardinality(drParts) # Cardinality(DrShard)
  <2>1. drPhase' = "failed" /\ drRows' = drRows
    BY <1>5 DEF JoinWorkers
  <2>2. StateOK'
    BY <1>1, <1>2, <2>1 DEF StateOK
  <2> QED BY <1>1, <1>4, <2>1, <2>2, GatherFrame
<1>6. CASE Cardinality(drParts) = Cardinality(DrShard)
  <2>1. drPhase' = "done" /\ drRows' = MergeParts(drParts)
    BY <1>6 DEF JoinWorkers
  <2> DEFINE part(s) == CHOOSE p \in drParts : p.shard = s
  <2>2. \A s \in DrShard : part(s) \in drParts /\ part(s).shard = s
    BY <1>2, <1>6, PartsCover
  <2>3. \A s \in DrShard : Whole(s, part(s).rows)
    BY <1>2, <2>2 DEF ResultsWhole
  <2> DEFINE v == [s \in DrShard |-> CHOOSE w \in 0..MaxWrites :
                     MayShow(s, w) /\ part(s).rows = ShardRows(s, w)]
  <2>4. ASSUME NEW s \in DrShard
        PROVE  v[s] \in 0..MaxWrites /\ MayShow(s, v[s]) /\ part(s).rows = ShardRows(s, v[s])
    <3>1. \E w \in 0..MaxWrites : MayShow(s, w) /\ part(s).rows = ShardRows(s, w)
      BY <2>3 DEF Whole
    <3> HIDE DEF part
    <3> QED BY <3>1
  <2>5. [s \in DrShard |-> part(s).rows] = [s \in DrShard |-> ShardRows(s, v[s])]
    BY <2>4
  <2>6. MergeParts(drParts) = FlattenSeq([s \in DrShard |-> part(s).rows])
    BY DEF MergeParts
  <2> HIDE DEF part
  <2>7. v \in [DrShard -> 0..MaxWrites]
    BY <2>4
  <2> HIDE DEF v
  <2>8. drRows' = FlattenSeq([s \in DrShard |-> ShardRows(s, v[s])])
    BY <2>1, <2>5, <2>6
  <2>9. PICK u \in [DrShard -> 0..MaxWrites] :
            /\ \A s \in DrShard : MayShow(s, u[s])
            /\ drRows' = FlattenSeq([s \in DrShard |-> ShardRows(s, u[s])])
    BY <2>4, <2>7, <2>8
  <2>10. drRows' \in Seq(Row)
    <3>1. PICK F : Flattens(u, F)
      BY FlattensExists
    <3> QED BY <1>2, <2>9, <3>1, FlattenType
  <2>11. ReadsAreWhole'
    BY <1>1, <2>9, WholeAtEnd
  <2>12. StateOK'
    BY <1>1, <1>2, <2>10 DEF StateOK
  <2>13. CopiesOK'
    BY <1>1, <1>2 DEF CopiesOK
  <2>14. GatherInv' /\ NativeInv'
    BY <1>1, <1>4, <2>1 DEF GatherInv, NativeInv
  <2> QED BY <2>11, <2>12, <2>13, <2>14 DEF ReadInv
<1> QED BY <1>5, <1>6

-----------------------------------------------------------------------------
(* The chained cursors.                                                    *)

\* A step of the chained cursors keeps the rest of the invariant.
LEMMA NativeFrame ==
  ASSUME ReadInv, drConf.path # "gather", StateOK',
         drPhase' \in {"open", "page", "done", "failed"},
         drPhase' = "open" => drRows' = <<>> /\ drPage' = <<>> /\ drAt' \in 0..N /\ OpenedWhole',
         drPhase' = "page" => \E v, F : PageWhole(v, F)',
         ReadsAreWhole',
         UNCHANGED <<drConf, drFirst, drCopy, drWorker>>
  PROVE  ReadInv'
<1>1. CopiesOK'
  BY DEF ReadInv, CopiesOK
<1>2. GatherInv'
  BY DEF GatherInv
<1>3. NativeInv'
  BY DEF ReadInv, NativeInv
<1> QED BY <1>1, <1>2, <1>3 DEF ReadInv

\* The next shard is opened, or the read fails.
LEMMA OpenNextInv ==
  ASSUME ReadInv, OpenNext
  PROVE  ReadInv'
<1>1. /\ drPhase = "open" /\ drAt < N
      /\ UNCHANGED <<drConf, drCopy, drFirst, drWorker, drQueue, drGot, drParts, drPage, drRows>>
  BY DEF OpenNext, N
<1>2. drConf.path # "gather"
  BY <1>1 DEF ReadInv, GatherInv
<1>3. /\ CopiesOK /\ StateOK /\ OpenedWhole /\ ReadsAreWhole
      /\ drAt \in 0..N /\ drRows = <<>> /\ drPage = <<>>
  BY <1>1, <1>2 DEF ReadInv, NativeInv
<1>4. PICK k \in DrShard : k = drAt + 1
  BY <1>1, <1>3, ShardsAre
<1>5. drPhase' # "done" => ReadsAreWhole'
  BY DEF ReadsAreWhole
<1>6. ASSUME NEW c \in OpenShard(k), drCursor' = [drCursor EXCEPT ![k] = c], drAt' = k,
             drPhase' = drPhase
      PROVE  ReadInv'
  <2>1. CursorOK(c) /\ Whole(k, Rest(c))
    BY <1>3, OpenWhole
  <2>2. c \in Cursor
    BY <2>1 DEF CursorOK
  <2>3. /\ drCursor' \in [DrShard -> Cursor] /\ drCursor'[k] = c
        /\ \A s \in DrShard \ {k} : drCursor'[s] = drCursor[s]
    BY <1>3, <1>6, <2>2 DEF StateOK
  <2>4. StateOK'
    <3>1. drAt' \in Nat
      BY <1>6, ShardsAre
    <3> QED BY <1>1, <1>3, <2>3, <3>1 DEF StateOK
  <2>5. \A s, x : Whole(s, x)' <=> Whole(s, x)
    BY <1>1, Stable
  <2>6. ASSUME NEW s \in DrShard, s <= k
        PROVE  CursorOK(drCursor'[s]) /\ Whole(s, Rest(drCursor'[s]))
    <3>1. CASE s = k
      BY <2>1, <2>3, <3>1
    <3>2. CASE s # k
      <4>1. s <= drAt
        BY <1>3, <1>4, <2>6, <3>2, ShardsAre
      <4> QED BY <1>3, <2>3, <3>2, <4>1 DEF OpenedWhole
    <3> QED BY <3>1, <3>2
  <2>7. OpenedWhole'
    BY <1>6, <2>5, <2>6 DEF OpenedWhole
  <2>8. drAt' \in 0..N
    BY <1>6, ShardsAre
  <2> QED BY <1>1, <1>2, <1>3, <1>5, <1>6, <2>4, <2>7, <2>8, NativeFrame
<1>7. ASSUME drPhase' = "failed", UNCHANGED <<drCursor, drAt>>
      PROVE  ReadInv'
  <2>1. StateOK'
    BY <1>1, <1>3, <1>7 DEF StateOK
  <2> QED BY <1>1, <1>2, <1>5, <1>7, <2>1, NativeFrame
<1> QED BY <1>4, <1>6, <1>7 DEF OpenNext

\* All shards are open: the cursor is stored, or has too many rows.
LEMMA OpenedAllInv ==
  ASSUME ReadInv, OpenedAll
  PROVE  ReadInv'
<1>1. /\ drPhase = "open" /\ drAt = N /\ drAt' = 1 /\ drPhase' \in {"failed", "page"}
      /\ UNCHANGED <<drConf, drCopy, drFirst, drCursor, drWorker, drQueue, drGot,
                     drParts, drPage, drRows>>
  BY DEF OpenedAll, N
<1>2. drConf.path # "gather"
  BY <1>1 DEF ReadInv, GatherInv
<1>3. CopiesOK /\ StateOK /\ OpenedWhole /\ drRows = <<>> /\ drPage = <<>>
  BY <1>1, <1>2 DEF ReadInv, NativeInv
<1>4. StateOK'
  BY <1>1, <1>3 DEF StateOK
<1>5. ReadsAreWhole'
  BY <1>1 DEF ReadsAreWhole
<1>6. \A s \in DrShard : CursorOK(drCursor[s]) /\ Whole(s, Rest(drCursor[s]))
  BY <1>1, <1>3, ShardsAre DEF OpenedWhole
<1> DEFINE w == [s \in DrShard |-> CHOOSE x \in 0..MaxWrites :
                   MayShow(s, x) /\ Rest(drCursor[s]) = ShardRows(s, x)]
<1>7. \A s \in DrShard : /\ w[s] \in 0..MaxWrites /\ MayShow(s, w[s])
                         /\ Rest(drCursor[s]) = ShardRows(s, w[s])
  BY <1>6 DEF Whole
<1>8. PICK v \in [DrShard -> 0..MaxWrites] :
        \A s \in DrShard : MayShow(s, v[s]) /\ Rest(drCursor[s]) = ShardRows(s, v[s])
  <2>1. w \in [DrShard -> 0..MaxWrites]
    BY <1>7
  <2> HIDE DEF w
  <2> QED BY <1>7, <2>1
<1>9. PICK F : Flattens(v, F)
  BY FlattensExists
<1>10. PageWhole(v, F)'
  <2>1. N \in Nat \ {0} /\ DrShard = 1..N /\ 1 \in DrShard
    BY ShardsAre
  <2>2. /\ \A s, x : ShardRows(s, x)' = ShardRows(s, x)
        /\ \A s, x : MayShow(s, x)' <=> MayShow(s, x)
        /\ \A x, G : Flattens(x, G)' <=> Flattens(x, G)
    BY <1>1, Stable
  <2>3. (<<>> \o <<>>) \o Rest(drCursor[1]) = F[1]
    <3>1. PICK r \in Seq(Row) : r = ShardRows(1, v[1])
      BY <1>3, <2>1, ShardRowsType
    <3>2. Rest(drCursor[1]) = r /\ F[1] = r
      BY <1>8, <1>9, <2>1, <3>1 DEF Flattens
    <3>3. <<>> \o <<>> = <<>> /\ <<>> \o r = r
      BY ConcatEmptySeq
    <3> QED BY <3>2, <3>3
  <2>4. drAt' \in 1..(N + 1) /\ drAt' # N + 1
    BY <1>1, <2>1
  <2>5. (drRows' \o drPage') \o Rest(drCursor'[drAt']) = F[drAt']
    BY <1>1, <1>3, <2>3
  <2> QED BY <1>1, <1>6, <1>8, <1>9, <2>2, <2>4, <2>5 DEF PageWhole
<1> QED BY <1>1, <1>2, <1>4, <1>5, <1>10, NativeFrame

\* One turn of the loop of fetch: rows move from the current cursor to the page.
LEMMA FetchNextInv ==
  ASSUME FetchesAnswered, ReadInv, FetchNext
  PROVE  ReadInv'
<1>1. /\ drPhase = "page" /\ drPhase' = "page" /\ Len(drPage) < NativePage /\ drAt <= N
      /\ UNCHANGED <<drConf, drCopy, drFirst, drPhase, drWorker, drQueue, drGot, drParts, drRows>>
  BY DEF FetchNext, N
<1>2. drConf.path # "gather"
  BY <1>1 DEF ReadInv, GatherInv
<1>3. CopiesOK /\ StateOK /\ \E v, F : PageWhole(v, F)
  BY <1>1, <1>2 DEF ReadInv, NativeInv
<1>4. PICK v, F : PageWhole(v, F)
  BY <1>3
<1>5. N \in Nat \ {0} /\ DrShard = 1..N
  BY ShardsAre
<1>6. PICK k \in DrShard : k = drAt
  BY <1>1, <1>4, <1>5 DEF PageWhole
<1>7. PICK c : c = drCursor[k]
  OBVIOUS
<1>8. PICK n \in Nat \ {0} : n = NativePage - Len(drPage)
  <2>1. PICK l \in Nat : l = Len(drPage)
    BY <1>3 DEF StateOK
  <2>2. ~(l >= NativePage) /\ NativePage \in Nat \ {0}
    BY <1>1, <2>1, DrAssumption
  <2> QED BY <2>1, <2>2, RoomLeft
<1>9. FetchOutcomes(c) = {TRUE}
  BY <1>3 DEF FetchOutcomes, FetchesAnswered, CopiesOK
<1>10. PICK page : /\ page = FetchShardCursor(c, n, TRUE)
                   /\ drPage' = drPage \o page.rows
                   /\ drCursor' = [drCursor EXCEPT ![k] = page.cursor]
                   /\ drAt' = NextAt(k, page)
  BY <1>6, <1>7, <1>8, <1>9 DEF FetchNext
<1>11. /\ page.rows \in Seq(Row) /\ page.more \in BOOLEAN
       /\ CursorOK(page.cursor)
       /\ page.rows \o Rest(page.cursor) = Rest(c)
       /\ ~page.more => Rest(page.cursor) = <<>>
  <2>1. CursorOK(c)
    BY <1>4, <1>7 DEF PageWhole
  <2> QED BY <1>10, <2>1, FetchKeeps
<1>12. PICK x \in Seq(Row), y \in Seq(Row), z \in Seq(Row), r \in Seq(Row) :
         x = drRows /\ y = drPage /\ z = page.rows /\ r = Rest(page.cursor)
  <2>1. Rest(page.cursor) \in Seq(Row)
    BY <1>11 DEF CursorOK, Cursor, Rest
  <2> QED BY <1>3, <1>11, <2>1 DEF StateOK
<1>13. page.cursor \in Cursor
  BY <1>11 DEF CursorOK
<1>14. /\ drCursor' \in [DrShard -> Cursor] /\ drCursor'[k] = page.cursor
       /\ \A s \in DrShard \ {k} : drCursor'[s] = drCursor[s]
  BY <1>3, <1>10, <1>13 DEF StateOK
<1>15. drPage' = y \o z /\ y \o z \in Seq(Row)
  <2>1. y \o z \in Seq(Row)
    OBVIOUS
  <2>2. drPage' = y \o z
    BY <1>10, <1>12
  <2> QED BY <2>1, <2>2
<1>16. (page.more => drAt' = k) /\ (~page.more => drAt' = k + 1)
  BY <1>10 DEF NextAt
<1>17. drAt' \in Nat
  BY <1>5, <1>11, <1>16
<1>18. StateOK'
  BY <1>1, <1>3, <1>14, <1>15, <1>17 DEF StateOK
<1>19. (x \o (y \o z)) \o r = F[k]
  <2>1. (x \o y) \o Rest(c) = F[k]
    BY <1>1, <1>4, <1>6, <1>7, <1>12 DEF PageWhole
  <2>2. Rest(c) = z \o r
    BY <1>11, <1>12
  <2>3. PICK b \in Seq(Row) : b = x \o y
    <3>1. x \o y \in Seq(Row)
      OBVIOUS
    <3> QED BY <3>1
  <2>4. (x \o y) \o (z \o r) = ((x \o y) \o z) \o r
    <3>1. (b \o z) \o r = b \o (z \o r)
      BY RowsAssociative
    <3> QED BY <2>3, <3>1
  <2>5. (x \o y) \o z = x \o (y \o z)
    BY SMTT(30), RowsAssociative
  <2> QED BY <2>1, <2>2, <2>4, <2>5
<1>20. PICK h \in Seq(Row) : h = drRows' \o drPage'
  <2>1. drRows' = x
    BY <1>1, <1>12
  <2>2. x \o (y \o z) \in Seq(Row)
    BY <1>15
  <2> QED BY <1>15, <2>1, <2>2
<1>21. h \o r = F[k]
  <2>1. drRows' = x
    BY <1>1, <1>12
  <2> QED BY <1>15, <1>19, <1>20, <2>1
<1>22. /\ \A s, a : ShardRows(s, a)' = ShardRows(s, a)
       /\ \A s, a : MayShow(s, a)' <=> MayShow(s, a)
       /\ \A a, G : Flattens(a, G)' <=> Flattens(a, G)
  BY <1>1, Stable
<1>23. \A s \in DrShard : CursorOK(drCursor'[s])
  <2>1. ASSUME NEW s \in DrShard PROVE CursorOK(drCursor'[s])
    <3>1. CASE s = k
      BY <1>11, <1>14, <3>1
    <3>2. CASE s # k
      BY <1>4, <1>14, <3>2 DEF PageWhole
    <3> QED BY <3>1, <3>2
  <2> QED BY <2>1
<1>24. \A s \in DrShard : s > k => s # k /\ drCursor'[s] = drCursor[s]
                                   /\ Rest(drCursor[s]) = ShardRows(s, v[s])
  <2>1. ASSUME NEW s \in DrShard, s > k PROVE s # k
    BY <1>5, <2>1
  <2> QED BY <1>4, <1>6, <1>14, <2>1 DEF PageWhole
<1>25. CASE page.more
  <2>1. drAt' = k
    BY <1>16, <1>25
  <2>2. \A s \in DrShard : s > drAt' => Rest(drCursor'[s]) = ShardRows(s, v[s])
    BY <1>24, <2>1
  <2>3. drAt' \in 1..(N + 1) /\ drAt' # N + 1
    BY <1>5, <2>1
  <2>4. (drRows' \o drPage') \o Rest(drCursor'[drAt']) = F[drAt']
    BY <1>12, <1>14, <1>20, <1>21, <2>1
  <2>5. PageWhole(v, F)'
    BY <1>4, <1>22, <1>23, <2>2, <2>3, <2>4 DEF PageWhole
  <2>6. ReadsAreWhole'
    BY <1>1 DEF ReadsAreWhole
  <2> QED BY <1>1, <1>2, <1>18, <2>5, <2>6, NativeFrame
<1>26. CASE ~page.more
  <2>1. drAt' = k + 1
    BY <1>16, <1>26
  <2>2. h = F[k]
    <3>1. r = <<>>
      BY <1>11, <1>12, <1>26
    <3>2. h \o <<>> = h
      BY ConcatEmptySeq
    <3> QED BY <1>21, <3>1, <3>2
  <2>3. \A s \in DrShard : s > drAt' => Rest(drCursor'[s]) = ShardRows(s, v[s])
    <3>1. \A s \in DrShard : s > k + 1 => s > k
      BY <1>5
    <3> QED BY <1>24, <2>1, <3>1
  <2>4. drAt' \in 1..(N + 1)
    BY <1>5, <2>1
  <2>5. drAt' <= N => (drRows' \o drPage') \o Rest(drCursor'[drAt']) = F[drAt']
    <3> SUFFICES ASSUME k + 1 <= N PROVE h \o Rest(drCursor'[k + 1]) = F[k + 1]
      BY <1>20, <2>1
    <3>1. k \in 1..(N - 1) /\ k + 1 \in DrShard /\ k + 1 > k
      BY <1>5
    <3>2. F[k + 1] = F[k] \o ShardRows(k + 1, v[k + 1])
      BY <1>4, <3>1 DEF PageWhole, Flattens
    <3>3. Rest(drCursor'[k + 1]) = ShardRows(k + 1, v[k + 1])
      BY <1>24, <3>1
    <3> QED BY <2>2, <3>2, <3>3
  <2>6. drAt' = N + 1 => drRows' \o drPage' = F[N]
    <3>1. drAt' = N + 1 => k = N
      BY <1>5, <2>1
    <3> QED BY <1>20, <2>2, <3>1
  <2>7. PageWhole(v, F)'
    BY <1>4, <1>22, <1>23, <2>3, <2>4, <2>5, <2>6 DEF PageWhole
  <2>8. ReadsAreWhole'
    BY <1>1 DEF ReadsAreWhole
  <2> QED BY <1>1, <1>2, <1>18, <2>7, <2>8, NativeFrame
<1> QED BY <1>11, <1>25, <1>26

\* The page goes to the client; the last one ends the read.
LEMMA GivePageInv ==
  ASSUME ReadInv, GivePage
  PROVE  ReadInv'
<1>1. /\ drPhase = "page" /\ drRows' = drRows \o drPage /\ drPage' = <<>>
      /\ drPhase' = IF drAt > N THEN "done" ELSE "page"
      /\ UNCHANGED <<drConf, drCopy, drFirst, drCursor, drWorker, drQueue, drGot, drParts, drAt>>
  BY DEF GivePage, N
<1>2. drConf.path # "gather"
  BY <1>1 DEF ReadInv, GatherInv
<1>3. CopiesOK /\ StateOK /\ \E v, F : PageWhole(v, F)
  BY <1>1, <1>2 DEF ReadInv, NativeInv
<1>4. PICK v, F : PageWhole(v, F)
  BY <1>3
<1>5. N \in Nat \ {0} /\ DrShard = 1..N /\ drAt \in 1..(N + 1)
  BY <1>4, ShardsAre DEF PageWhole
<1>6. PICK h \in Seq(Row) : h = drRows \o drPage
  <2>1. PICK x \in Seq(Row), y \in Seq(Row) : x = drRows /\ y = drPage
    BY <1>3 DEF StateOK
  <2>2. x \o y \in Seq(Row)
    OBVIOUS
  <2> QED BY <2>1, <2>2
<1>7. drRows' = h /\ h \o <<>> = h
  BY <1>1, <1>6, ConcatEmptySeq
<1>8. StateOK'
  <2>1. drPage' \in Seq(Row) /\ drRows' \in Seq(Row)
    BY <1>1, <1>7
  <2> QED BY <1>1, <1>3, <2>1 DEF StateOK
<1>9. CASE drAt <= N
  <2>1. drPhase' = "page"
    BY <1>1, <1>5, <1>9
  <2>2. /\ \A s, a : ShardRows(s, a)' = ShardRows(s, a)
        /\ \A s, a : MayShow(s, a)' <=> MayShow(s, a)
        /\ \A a, G : Flattens(a, G)' <=> Flattens(a, G)
    BY <1>1, Stable
  <2>3. drRows' \o drPage' = drRows \o drPage
    BY <1>1, <1>6, <1>7
  <2>4. PageWhole(v, F)'
    BY <1>1, <1>4, <2>2, <2>3 DEF PageWhole
  <2>5. ReadsAreWhole'
    BY <2>1 DEF ReadsAreWhole
  <2> QED BY <1>1, <1>2, <1>8, <2>1, <2>4, <2>5, NativeFrame
<1>10. CASE drAt = N + 1
  <2>1. drPhase' = "done"
    BY <1>1, <1>5, <1>10
  <2>2. drRows' = FlattenSeq([s \in DrShard |-> ShardRows(s, v[s])])
    BY <1>4, <1>6, <1>7, <1>10 DEF PageWhole, Flattens
  <2>3. v \in [DrShard -> 0..MaxWrites] /\ \A s \in DrShard : MayShow(s, v[s])
    BY <1>4 DEF PageWhole
  <2>4. ReadsAreWhole'
    BY <1>1, <2>2, <2>3, WholeAtEnd
  <2> QED BY <1>1, <1>2, <1>8, <2>1, <2>4, NativeFrame
<1> QED BY <1>5, <1>9, <1>10

-----------------------------------------------------------------------------
(* The theorem.                                                            *)

\* A read that ends without an error is whole (execute_distributed_query,
\* DistributedQueryCursor::fetch), for every placement, number of shards and
\* servers, page size and interleaving with writes, catch-up and the deadline,
\* as long as a peer that answered the first call of a cursor answers the later
\* ones: RemoteShardQueryCursor::fetch takes an error there for the end.
THEOREM ReadsWhole ==
  ASSUME FetchesAnswered
  PROVE  ReadSpec => []ReadsAreWhole
<1>1. ReadInit => ReadInv
  BY ReadInitInv
<1>2. ReadInv /\ [ReadNext]_drVars => ReadInv'
  <2> SUFFICES ASSUME ReadInv, [ReadNext]_drVars PROVE ReadInv'
    OBVIOUS
  <2>1. CASE BeginRead
    BY <2>1, BeginReadInv
  <2>2. ASSUME NEW s \in DrShard, OtherWrite(s) PROVE ReadInv'
    BY <2>2, OtherWriteInv
  <2>3. ASSUME NEW s \in DrShard, StartWorker(s) PROVE ReadInv'
    BY <2>3, StartWorkerInv
  <2>4. ASSUME NEW s \in DrShard, PullWorker(s) PROVE ReadInv'
    BY <2>4, PullWorkerInv
  <2>5. ASSUME NEW n \in DrServer, NEW s \in DrShard, CopyWrite(n, s) PROVE ReadInv'
    BY <2>5, CopyWriteInv
  <2>6. CASE ReceivePart
    BY <2>6, ReceivePartInv
  <2>7. CASE GatherDeadline
    BY <2>7, GatherDeadlineInv
  <2>8. CASE JoinWorkers
    BY <2>8, JoinWorkersInv
  <2>9. CASE OpenNext
    BY <2>9, OpenNextInv
  <2>10. CASE OpenedAll
    BY <2>10, OpenedAllInv
  <2>11. CASE FetchNext
    BY <2>11, FetchNextInv
  <2>12. CASE GivePage
    BY <2>12, GivePageInv
  <2>13. CASE UNCHANGED drVars
    <3>1. CopiesOK'
      BY <2>13 DEF drVars, ReadInv, CopiesOK
    <3> QED BY <2>13, <3>1, CopiesFrame DEF drVars
  <2> QED BY <2>1, <2>2, <2>3, <2>4, <2>5, <2>6, <2>7, <2>8, <2>9, <2>10, <2>11, <2>12,
             <2>13 DEF ReadNext
<1>3. ReadInv => ReadsAreWhole
  BY DEF ReadInv
<1> QED BY <1>1, <1>2, <1>3, PTL DEF ReadSpec
=============================================================================
