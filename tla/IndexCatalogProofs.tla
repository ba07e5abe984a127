------------------------- MODULE IndexCatalogProofs -------------------------
(***************************************************************************)
(* The vector indexes and constraints of the catalog stay in step with the *)
(* store, for every number of indexes, nodes, values, versions and kills.  *)
(***************************************************************************)
EXTENDS IndexCatalog, FiniteSetTheorems, SequenceTheorems, TLAPS

-----------------------------------------------------------------------------
StoreValue == IcValue \cup {NoIndexValue, NoNode}

NamesOf(defs) == {d.name : d \in defs}

\* What the vector indexes of some definitions hold of a store.
EntriesOf(defs, store) == [n \in NamesOf(defs) |-> VectorEntries(store)]

VecIs(vec, cat, store) == vec = EntriesOf(VectorDefinitions(cat), store)

\* A cache file is of an older catalog, or holds the vectors of the store.
CacheFor(cache, cat, store) ==
  cache.present =>
    /\ cache.version \in Nat /\ cache.version <= cat.version
    /\ cache.version = cat.version => cache.entries = EntriesOf(cache.defs, store)

\* The cache file, if there is one, is of this catalog.
Synced(cache, cat) ==
  cache.present => cache.version = cat.version /\ cache.defs = VectorDefinitions(cat)

\* The steps that leave the vector indexes as they are, once they are right.
CalmStep(s, cat) ==
  \/ s.step \in {"life", "vectors", "resume"}
  \/ s.step = "rebuild" /\ s.name \in NamesOf(VectorDefinitions(cat))
CalmFrom(op, k, cat) == \A i \in 1..Len(op) : i >= k => CalmStep(op[i], cat)
SavesFrom(op, k) == \E i \in 1..Len(op) : i >= k /\ op[i].step = "vectors"

(* What is left of a call, and what holds meanwhile.                       *)

\* Nothing but calm steps: the indexes are right.
Settled(op, cat, store, vec, cache) ==
  CalmFrom(op, 1, cat) /\ VecIs(vec, cat, store) /\ (Synced(cache, cat) \/ SavesFrom(op, 1))

\* All indexes are about to be built anew, and then the cache.
Rebuilding(op, cat) ==
  \E k \in 1..Len(op) :
    /\ op[k].step = "rebuildAll"
    /\ \A i \in 1..Len(op) : i < k => op[i].step = "life"
    /\ CalmFrom(op, k + 1, cat) /\ SavesFrom(op, k + 1)

\* A catalog the store fits is about to be saved.
NextCatalog(s, cat, store) ==
  /\ s.step = "catalog" /\ s.cat.version \in Nat /\ s.cat.version >= cat.version
  /\ s.cat.indexes \subseteq IndexDefinition
  /\ ValidAgainst(s.cat, store)

\* The indexes of that catalog are there.
Changing(op, cat, store, vec) ==
  /\ op # <<>> /\ NextCatalog(op[1], cat, store)
  /\ CalmFrom(op, 2, op[1].cat) /\ SavesFrom(op, 2)
  /\ \A n \in NamesOf(VectorDefinitions(op[1].cat)) :
       n \in DOMAIN vec /\ vec[n] = VectorEntries(store)

\* They are about to be built.
Installing(op, cat, store) ==
  /\ Len(op) >= 3 /\ NextCatalog(op[1], cat, store) /\ op[2].step = "rebuildAll"
  /\ CalmFrom(op, 3, op[1].cat) /\ SavesFrom(op, 3)

\* The index at position k is about to be filled.
CreatingAt(k, op, cat, store, vec, cache) ==
  /\ Len(op) >= k + 2 /\ op[k].step = "insert" /\ op[k + 1].step = "catalog"
  /\ \A i \in 1..Len(op) : i < k => op[i].step = "life"
  /\ op[k + 1].cat.version = cat.version + 1
  /\ op[k + 1].cat.indexes = cat.indexes \cup {op[k].def} /\ op[k].def \in IndexDefinition
  /\ op[k].def.kind = "unique" => UniqueHolds(store)
  /\ CalmFrom(op, k + 2, op[k + 1].cat) /\ SavesFrom(op, k + 2)
  /\ VecIs(vec, cat, store) /\ Synced(cache, cat)

\* One of these is left of the running call.
Underway(op, cat, store, vec, cache) ==
  \/ Settled(op, cat, store, vec, cache)
  \/ Rebuilding(op, cat)
  \/ Changing(op, cat, store, vec)
  \/ Installing(op, cat, store)
  \/ CreatingAt(1, op, cat, store, vec, cache)
  \/ CreatingAt(2, op, cat, store, vec, cache)

\* A write is in the store and not yet in the indexes.
Writing(op, cat, store, vec, cache) ==
  /\ Len(op) = 1 /\ op[1].step = "write" /\ op[1].node \in IcNode
  /\ \E x \in StoreValue :
       LET before == [store EXCEPT ![op[1].node] = x]
       IN  VecIs(vec, cat, before) /\ CacheFor(cache, cat, before)
  /\ Synced(cache, cat)

CatalogInv ==
  /\ icStore \in [IcNode -> StoreValue]
  /\ icCat = icDiskCat /\ icCat.version \in Nat /\ icCat.indexes \subseteq IndexDefinition
  /\ ValidAgainst(icCat, icStore)
  /\ icOp \in Seq(Range(icOp))
  /\ icUp \in BOOLEAN
  /\ \/ /\ CacheFor(icDiskVec, icCat, icStore)
        /\ icUp => Underway(icOp, icCat, icStore, icVec, icDiskVec)
     \/ icUp /\ Writing(icOp, icCat, icStore, icVec, icDiskVec)

-----------------------------------------------------------------------------
(* Facts about the steps that are left.                                    *)

\* The first step is taken.
LEMMA TailOf ==
  ASSUME NEW s, s \in Seq(Range(s)), s # <<>>, NEW t, t = Tail(s)
  PROVE  /\ Len(s) \in Nat \ {0} /\ Len(t) = Len(s) - 1 /\ Head(s) = s[1]
         /\ \A i \in 1..Len(t) : i + 1 \in 1..Len(s) /\ t[i] = s[i + 1]
         /\ \A i \in 1..Len(s) : i > 1 => i - 1 \in 1..Len(t) /\ t[i - 1] = s[i]
         /\ t \in Seq(Range(t))
<1>1. PICK S : s \in Seq(S)
  OBVIOUS
<1>2. PICK n \in Nat : n = Len(s)
  BY <1>1
<1>3. n # 0
  BY <1>1, <1>2
<1>4. t \in Seq(S) /\ Len(t) = n - 1 /\ Head(s) = s[1] /\ \A i \in 1..Len(t) : t[i] = s[i + 1]
  BY <1>1, <1>2, <1>3, HeadTailProperties
<1>5. DOMAIN t = 1..(n - 1)
  BY <1>4
<1>6. t \in Seq(Range(t))
  BY <1>4, SeqOfRange
<1>7. \A i \in 1..Len(t) : i + 1 \in 1..n
  BY <1>2, <1>4
<1>8. ASSUME NEW i \in 1..n, i > 1 PROVE i - 1 \in 1..Len(t) /\ t[i - 1] = s[i]
  <2>1. PICK j \in 1..Len(t) : j = i - 1
    BY <1>2, <1>4, <1>8
  <2>2. j + 1 = i
    BY <1>2, <2>1
  <2> QED BY <1>4, <2>1, <2>2
<1> QED BY <1>2, <1>3, <1>4, <1>6, <1>7, <1>8

\* What was said of the steps from k + 1 on is now true from k on.
LEMMA TailShifts ==
  ASSUME NEW s, s \in Seq(Range(s)), s # <<>>, NEW t, t = Tail(s), NEW cat, NEW k \in Nat
  PROVE  /\ CalmFrom(s, k + 1, cat) => CalmFrom(t, k, cat)
         /\ k > 0 /\ SavesFrom(s, k + 1) => SavesFrom(t, k)
         /\ SavesFrom(s, 1) /\ s[1].step # "vectors" => SavesFrom(t, 1)
<1>1. /\ Len(s) \in Nat \ {0} /\ Len(t) = Len(s) - 1
      /\ \A i \in 1..Len(t) : i + 1 \in 1..Len(s) /\ t[i] = s[i + 1]
      /\ \A i \in 1..Len(s) : i > 1 => i - 1 \in 1..Len(t) /\ t[i - 1] = s[i]
  BY TailOf
<1>2. ASSUME CalmFrom(s, k + 1, cat), NEW i \in 1..Len(t), i >= k PROVE CalmStep(t[i], cat)
  <2>1. i + 1 \in 1..Len(s) /\ i + 1 >= k + 1
    BY <1>1, <1>2
  <2> QED BY <1>1, <1>2, <2>1 DEF CalmFrom
<1>3. ASSUME k > 0, SavesFrom(s, k + 1) PROVE SavesFrom(t, k)
  <2>1. PICK i \in 1..Len(s) : i >= k + 1 /\ s[i].step = "vectors"
    BY <1>3 DEF SavesFrom
  <2>2. i > 1 /\ i - 1 >= k
    BY <1>1, <1>3, <2>1
  <2> QED BY <1>1, <2>1, <2>2 DEF SavesFrom
<1>4. ASSUME SavesFrom(s, 1), s[1].step # "vectors" PROVE SavesFrom(t, 1)
  <2>1. PICK i \in 1..Len(s) : s[i].step = "vectors"
    BY <1>4 DEF SavesFrom
  <2>2. i > 1 /\ i - 1 >= 1
    BY <1>1, <1>4, <2>1
  <2> QED BY <1>1, <2>1, <2>2 DEF SavesFrom
<1> QED BY <1>2, <1>3, <1>4 DEF CalmFrom

\* Calm steps before calm steps are calm, and the later ones still save.
LEMMA ConcatCalm ==
  ASSUME NEW s, s \in Seq(Range(s)), NEW t, t \in Seq(Range(t)), NEW cat,
         CalmFrom(s, 1, cat), CalmFrom(t, 1, cat)
  PROVE  /\ CalmFrom(s \o t, 1, cat)
         /\ SavesFrom(t, 1) => SavesFrom(s \o t, 1)
         /\ s \o t \in Seq(Range(s \o t))
<1>1. PICK S : S = Range(s) \cup Range(t)
  OBVIOUS
<1>2. s \in Seq(S) /\ t \in Seq(S)
  BY <1>1
<1>3. PICK r \in Seq(S) : r = s \o t
  BY <1>2, ConcatProperties
<1>4. PICK a \in Nat, b \in Nat : a = Len(s) /\ b = Len(t)
  BY <1>2
<1>5. /\ Len(r) = a + b
      /\ \A i \in 1..(a + b) : r[i] = IF i <= a THEN s[i] ELSE t[i - a]
  BY <1>2, <1>3, <1>4, ConcatProperties
<1>6. ASSUME NEW i \in 1..(a + b) PROVE CalmStep(r[i], cat)
  <2>1. CASE i <= a
    <3>1. i \in 1..a /\ i >= 1
      BY <1>4, <2>1
    <3> QED BY <1>4, <1>5, <2>1, <3>1 DEF CalmFrom
  <2>2. CASE ~(i <= a)
    <3>1. i - a \in 1..b /\ i - a >= 1
      BY <1>4, <2>2
    <3> QED BY <1>4, <1>5, <2>2, <3>1 DEF CalmFrom
  <2> QED BY <2>1, <2>2
<1>7. ASSUME SavesFrom(t, 1) PROVE SavesFrom(r, 1)
  <2>1. PICK j \in 1..b : t[j].step = "vectors"
    BY <1>4, <1>7 DEF SavesFrom
  <2>2. PICK i \in 1..(a + b) : i = a + j
    BY <1>4
  <2>3. ~(i <= a) /\ i - a = j /\ i >= 1
    BY <1>4, <2>2
  <2> QED BY <1>5, <2>1, <2>3 DEF SavesFrom
<1>8. r \in Seq(Range(r))
  <2>1. DOMAIN r = 1..(a + b)
    BY <1>5
  <2> QED BY SMTT(30), <1>4, <1>5, <2>1 DEF Range
<1> QED BY <1>3, <1>5, <1>6, <1>7, <1>8 DEF CalmFrom

\* The life steps of a set of names: nothing but life steps.
LEMMA LifeStepsAre ==
  ASSUME NEW names, IsFiniteSet(names), NEW state, NEW s, s = LifeSteps(names, state)
  PROVE  s \in Seq(Range(s)) /\ \A i \in 1..Len(s) : s[i].step = "life"
<1>1. PICK n \in Nat : n = Cardinality(names)
  BY FS_CardinalityType
<1>2. PICK order : order = SetToSeq(names)
  OBVIOUS
<1>3. order \in [1..n -> names]
  <2>1. ExistsBijection(1..n, names)
    BY <1>1, FS_CardinalityType
  <2>2. PICK f \in Bijection(1..n, names) : TRUE
    BY <2>1 DEF ExistsBijection
  <2>3. f \in [1..n -> names] /\ IsInjective(f)
    BY <2>2 DEF Bijection, Injection
  <2> QED BY <1>1, <1>2, <2>3 DEF SetToSeq
<1>4. s = [i \in 1..n |-> Life(order[i], state)]
  BY <1>2, <1>3 DEF LifeSteps
<1>5. \A i \in 1..n : s[i].step = "life"
  BY <1>4 DEF Life
<1>6. DOMAIN s = 1..n /\ Len(s) = n
  BY <1>4
<1>7. s \in Seq(Range(s))
  BY <1>4, <1>6 DEF Range
<1> QED BY <1>5, <1>6, <1>7

\* Which steps may be the next one, by what is left of the call.
LEMMA FirstStep ==
  ASSUME NEW op, op \in Seq(Range(op)), op # <<>>, NEW cat, NEW store, NEW vec, NEW cache
  PROVE  /\ Settled(op, cat, store, vec, cache) => CalmStep(op[1], cat)
         /\ Rebuilding(op, cat) => op[1].step \in {"life", "rebuildAll"}
         /\ Changing(op, cat, store, vec) => op[1].step = "catalog"
         /\ Installing(op, cat, store) => op[1].step = "catalog"
         /\ CreatingAt(1, op, cat, store, vec, cache) => op[1].step = "insert"
         /\ CreatingAt(2, op, cat, store, vec, cache) => op[1].step = "life"
         /\ Writing(op, cat, store, vec, cache) => op[1].step = "write"
<1>1. Len(op) \in Nat \ {0} /\ 1 \in 1..Len(op)
  BY TailOf
<1>2. Settled(op, cat, store, vec, cache) => CalmStep(op[1], cat)
  BY <1>1 DEF Settled, CalmFrom
<1>3. Rebuilding(op, cat) => op[1].step \in {"life", "rebuildAll"}
  <2>1. SUFFICES ASSUME Rebuilding(op, cat) PROVE op[1].step \in {"life", "rebuildAll"}
    OBVIOUS
  <2>2. PICK k \in 1..Len(op) : op[k].step = "rebuildAll" /\ \A i \in 1..Len(op) : i < k => op[i].step = "life"
    BY <2>1 DEF Rebuilding
  <2>3. k = 1 \/ 1 < k
    BY <1>1, <2>2
  <2> QED BY <1>1, <2>2, <2>3
<1>4. Changing(op, cat, store, vec) => op[1].step = "catalog"
  BY DEF Changing, NextCatalog
<1>5. Installing(op, cat, store) => op[1].step = "catalog"
  BY DEF Installing, NextCatalog
<1>6. CreatingAt(1, op, cat, store, vec, cache) => op[1].step = "insert"
  BY DEF CreatingAt
<1>7. CreatingAt(2, op, cat, store, vec, cache) => op[1].step = "life"
  BY <1>1 DEF CreatingAt
<1>8. Writing(op, cat, store, vec, cache) => op[1].step = "write"
  BY DEF Writing
<1> QED BY <1>2, <1>3, <1>4, <1>5, <1>6, <1>7, <1>8

\* The indexes stay right when a step that saves nothing is taken.
LEMMA SettledTail ==
  ASSUME NEW op, op \in Seq(Range(op)), op # <<>>, NEW cat, NEW store, NEW vec, NEW cache,
         Settled(op, cat, store, vec, cache), op[1].step # "vectors"
  PROVE  Settled(Tail(op), cat, store, vec, cache)
<1>1. CalmFrom(op, 1 + 1, cat)
  BY DEF Settled, CalmFrom
<1>2. PICK t : t = Tail(op)
  OBVIOUS
<1>3. /\ CalmFrom(op, 1 + 1, cat) => CalmFrom(t, 1, cat)
      /\ SavesFrom(op, 1) /\ op[1].step # "vectors" => SavesFrom(t, 1)
  BY <1>2, TailShifts
<1> QED BY <1>1, <1>2, <1>3 DEF Settled

\* A life step before the rebuild is taken.
LEMMA RebuildingTail ==
  ASSUME NEW op, op \in Seq(Range(op)), op # <<>>, NEW cat, Rebuilding(op, cat), op[1].step = "life"
  PROVE  Rebuilding(Tail(op), cat)
<1>1. PICK t : t = Tail(op)
  OBVIOUS
<1>2. /\ Len(op) \in Nat \ {0} /\ Len(t) = Len(op) - 1
      /\ \A i \in 1..Len(t) : i + 1 \in 1..Len(op) /\ t[i] = op[i + 1]
      /\ \A i \in 1..Len(op) : i > 1 => i - 1 \in 1..Len(t) /\ t[i - 1] = op[i]
  BY <1>1, TailOf
<1>3. PICK k \in 1..Len(op) :
        /\ op[k].step = "rebuildAll"
        /\ \A i \in 1..Len(op) : i < k => op[i].step = "life"
        /\ CalmFrom(op, k + 1, cat) /\ SavesFrom(op, k + 1)
  BY DEF Rebuilding
<1>4. k # 1
  BY <1>3
<1>5. PICK j \in 1..Len(t) : j = k - 1
  BY <1>2, <1>3, <1>4
<1>6. j \in Nat /\ j > 0 /\ j + 1 = k /\ k \in Nat /\ k > 1
  BY <1>2, <1>4, <1>5
<1>7. PICK m \in Nat : m = j + 1
  BY <1>6
<1>8. CalmFrom(op, m + 1, cat) /\ SavesFrom(op, m + 1) /\ m > 0
  BY <1>3, <1>6, <1>7
<1>9. CalmFrom(t, m, cat) /\ SavesFrom(t, m)
  BY <1>1, <1>8, TailShifts
<1>10. t[j].step = "rebuildAll"
  BY <1>2, <1>3, <1>5, <1>6
<1>11. ASSUME NEW i \in 1..Len(t), i < j PROVE t[i].step = "life"
  <2>1. i + 1 \in 1..Len(op) /\ i + 1 < k /\ t[i] = op[i + 1]
    BY <1>2, <1>6, <1>11
  <2> QED BY <1>3, <2>1
<1> QED BY <1>1, <1>5, <1>7, <1>9, <1>10, <1>11 DEF Rebuilding

\* The rebuild is taken: what is left is calm and saves.
LEMMA RebuildingDone ==
  ASSUME NEW op, op \in Seq(Range(op)), op # <<>>, NEW cat, Rebuilding(op, cat),
         op[1].step = "rebuildAll"
  PROVE  CalmFrom(Tail(op), 1, cat) /\ SavesFrom(Tail(op), 1)
<1>1. PICK t : t = Tail(op)
  OBVIOUS
<1>2. Len(op) \in Nat \ {0}
  BY <1>1, TailOf
<1>3. PICK k \in 1..Len(op) :
        /\ \A i \in 1..Len(op) : i < k => op[i].step = "life"
        /\ CalmFrom(op, k + 1, cat) /\ SavesFrom(op, k + 1)
  BY DEF Rebuilding
<1>4. ~(1 < k)
  BY <1>2, <1>3
<1>5. k = 1
  BY <1>2, <1>4
<1>6. CalmFrom(op, 1 + 1, cat) /\ SavesFrom(op, 1 + 1)
  BY <1>3, <1>5
<1>7. /\ CalmFrom(op, 1 + 1, cat) => CalmFrom(t, 1, cat)
      /\ 1 > 0 /\ SavesFrom(op, 1 + 1) => SavesFrom(t, 1)
  BY <1>1, TailShifts
<1> QED BY <1>1, <1>6, <1>7

\* A life step before the new index is taken.
LEMMA CreatingTail ==
  ASSUME NEW op, op \in Seq(Range(op)), op # <<>>, NEW cat, NEW store, NEW vec, NEW cache,
         CreatingAt(2, op, cat, store, vec, cache)
  PROVE  CreatingAt(1, Tail(op), cat, store, vec, cache)
<1>1. PICK t : t = Tail(op)
  OBVIOUS
<1>2. /\ Len(op) \in Nat \ {0} /\ Len(t) = Len(op) - 1
      /\ \A i \in 1..Len(t) : i + 1 \in 1..Len(op) /\ t[i] = op[i + 1]
  BY <1>1, TailOf
<1>3. Len(op) >= 4 /\ CalmFrom(op, 4, op[3].cat) /\ SavesFrom(op, 4)
  BY DEF CreatingAt
<1>4. Len(t) >= 3 /\ t[1] = op[2] /\ t[2] = op[3]
  BY <1>2, <1>3
<1>5. /\ CalmFrom(op, 3 + 1, op[3].cat) => CalmFrom(t, 3, op[3].cat)
      /\ 3 > 0 /\ SavesFrom(op, 3 + 1) => SavesFrom(t, 3)
  BY <1>1, TailShifts
<1>6. CalmFrom(t, 3, t[2].cat) /\ SavesFrom(t, 3)
  BY <1>3, <1>4, <1>5
<1>7. \A i \in 1..Len(t) : i < 1 => t[i].step = "life"
  BY <1>2
<1>8. /\ op[2].step = "insert" /\ op[3].step = "catalog" /\ op[3].cat.version = cat.version + 1
      /\ op[3].cat.indexes = cat.indexes \cup {op[2].def} /\ op[2].def \in IndexDefinition
      /\ op[2].def.kind = "unique" => UniqueHolds(store)
      /\ VecIs(vec, cat, store) /\ Synced(cache, cat)
  BY DEF CreatingAt
<1>9. CreatingAt(1, t, cat, store, vec, cache)
  BY <1>4, <1>6, <1>7, <1>8 DEF CreatingAt
<1> QED BY <1>1, <1>9

\* The names of the vector indexes of a catalog are finitely many.
LEMMA NamesFinite ==
  ASSUME NEW cat, cat.indexes \subseteq IndexDefinition
  PROVE  IsFiniteSet(NamesOf(VectorDefinitions(cat)))
<1>1. NamesOf(VectorDefinitions(cat)) \subseteq IndexName
  BY DEF NamesOf, VectorDefinitions, IndexDefinition
<1> QED BY <1>1, IcAssumption, FS_Subset

\* Life steps, the rebuild, the save and then calm steps.
LEMMA RebuildingIs ==
  ASSUME NEW a, a \in Seq(Range(a)), NEW c, c \in Seq(Range(c)), NEW cat,
         \A i \in 1..Len(a) : a[i].step = "life", CalmFrom(c, 1, cat)
  PROVE  /\ Rebuilding(a \o <<RebuildAll, SaveVectors>> \o c, cat)
         /\ a \o <<RebuildAll, SaveVectors>> \o c \in Seq(Range(a \o <<RebuildAll, SaveVectors>> \o c))
<1>1. PICK S : S = Range(a) \cup Range(c) \cup {RebuildAll, SaveVectors}
  OBVIOUS
<1>2. a \in Seq(S) /\ c \in Seq(S) /\ <<RebuildAll, SaveVectors>> \in Seq(S)
  BY <1>1
<1>3. PICK b \in Seq(S) : b = <<RebuildAll, SaveVectors>>
  BY <1>2
<1>4. Len(b) = 2 /\ b[1] = RebuildAll /\ b[2] = SaveVectors
  BY <1>3
<1>5. PICK p \in Nat, q \in Nat : p = Len(a) /\ q = Len(c)
  BY <1>2
<1>6. PICK u \in Seq(S) : u = a \o b
  BY <1>2, ConcatProperties
<1>7. Len(u) = p + 2 /\ \A i \in 1..(p + 2) : u[i] = IF i <= p THEN a[i] ELSE b[i - p]
  <2>1. PICK d \in Nat : d = Len(b)
    BY <1>3
  <2>2. Len(u) = p + d /\ \A i \in 1..(p + d) : u[i] = IF i <= p THEN a[i] ELSE b[i - p]
    BY <1>2, <1>5, <1>6, <2>1, ConcatProperties
  <2>3. d = 2
    BY <1>4, <2>1
  <2> QED BY <2>2, <2>3
<1>8. PICK r \in Seq(S) : r = u \o c
  BY <1>2, ConcatProperties
<1>9. Len(r) = p + 2 + q /\ \A i \in 1..(p + 2 + q) : r[i] = IF i <= p + 2 THEN u[i] ELSE c[i - (p + 2)]
  <2>1. PICK d \in Nat : d = Len(u)
    BY <1>6
  <2>2. Len(r) = d + q /\ \A i \in 1..(d + q) : r[i] = IF i <= d THEN u[i] ELSE c[i - d]
    BY <1>2, <1>5, <1>6, <1>8, <2>1, ConcatProperties
  <2>3. d = p + 2
    BY <1>7, <2>1
  <2> QED BY <2>2, <2>3
<1>10. \A i \in 1..(p + 2 + q) : i < p + 1 => r[i].step = "life"
  <2>1. TAKE i \in 1..(p + 2 + q)
  <2>2. HAVE i < p + 1
  <2>3. i <= p /\ i <= p + 2 /\ i \in 1..(p + 2) /\ i \in 1..p
    BY <1>5, <2>2
  <2> QED BY <1>5, <1>7, <1>9, <2>3
<1>11. p + 1 \in 1..(p + 2 + q) /\ p + 2 \in 1..(p + 2 + q) /\ p + 1 \in 1..(p + 2) /\ p + 2 \in 1..(p + 2)
  BY <1>5
<1>12. ~(p + 1 <= p) /\ ~(p + 2 <= p) /\ p + 1 <= p + 2 /\ p + 1 - p = 1 /\ p + 2 - p = 2 /\ p + 2 <= p + 2
  BY <1>5
<1>13. r[p + 1] = RebuildAll /\ r[p + 2] = SaveVectors
  BY <1>4, <1>7, <1>9, <1>11, <1>12
<1>14. ASSUME NEW i \in 1..(p + 2 + q), i >= p + 2 PROVE CalmStep(r[i], cat)
  <2>1. CASE i = p + 2
    BY <1>13, <2>1 DEF CalmStep, SaveVectors
  <2>2. CASE i # p + 2
    <3>1. ~(i <= p + 2) /\ i - (p + 2) \in 1..q /\ i - (p + 2) >= 1
      BY <1>5, <1>14, <2>2
    <3> QED BY <1>5, <1>9, <3>1 DEF CalmFrom
  <2> QED BY <2>1, <2>2
<1>15. CalmFrom(r, p + 1 + 1, cat)
  <2>1. p + 1 + 1 = p + 2
    BY <1>5
  <2> QED BY <1>9, <1>14, <2>1 DEF CalmFrom
<1>16. SavesFrom(r, p + 1 + 1)
  <2>1. p + 1 + 1 = p + 2 /\ p + 2 >= p + 2
    BY <1>5
  <2> QED BY <1>9, <1>11, <1>13, <2>1 DEF SavesFrom, SaveVectors
<1>17. Rebuilding(r, cat)
  BY <1>9, <1>10, <1>11, <1>13, <1>15, <1>16 DEF Rebuilding, RebuildAll
<1>18. r \in Seq(Range(r))
  BY SeqOfRange
<1> QED BY <1>3, <1>6, <1>8, <1>17, <1>18

\* What rebuild_vector_indexes and an open without a usable cache run.
LEMMA RebuildAllIs ==
  ASSUME NEW cat, cat.indexes \subseteq IndexDefinition, NEW s, s = RebuildAllSteps(cat)
  PROVE  /\ Rebuilding(s, cat) /\ s \in Seq(Range(s))
         /\ Rebuilding(s \o <<Resume>>, cat) /\ s \o <<Resume>> \in Seq(Range(s \o <<Resume>>))
<1>1. PICK names : names = NamesOf(VectorDefinitions(cat))
  OBVIOUS
<1>2. PICK a : a = LifeSteps(names, "rebuilding")
  OBVIOUS
<1>3. PICK c : c = LifeSteps(names, "ready")
  OBVIOUS
<1>4. IsFiniteSet(names)
  BY <1>1, NamesFinite
<1>5. a \in Seq(Range(a)) /\ \A i \in 1..Len(a) : a[i].step = "life"
  BY <1>2, <1>4, LifeStepsAre
<1>6. c \in Seq(Range(c)) /\ \A i \in 1..Len(c) : c[i].step = "life"
  BY <1>3, <1>4, LifeStepsAre
<1>7. CalmFrom(c, 1, cat)
  BY <1>6 DEF CalmFrom, CalmStep
<1>8. s = a \o <<RebuildAll, SaveVectors>> \o c
  BY <1>1, <1>2, <1>3 DEF RebuildAllSteps, NamesOf
<1>9. PICK w : w = <<Resume>>
  OBVIOUS
<1>10. w \in Seq(Range(w)) /\ CalmFrom(w, 1, cat)
  <2>1. w \in Seq({Resume}) /\ Len(w) = 1 /\ w[1] = Resume
    BY <1>9
  <2>2. w \in Seq(Range(w))
    BY <2>1, SeqOfRange
  <2> QED BY <2>1, <2>2 DEF CalmFrom, CalmStep, Resume
<1>11. PICK e : e = c \o w
  OBVIOUS
<1>12. CalmFrom(e, 1, cat) /\ e \in Seq(Range(e))
  BY <1>6, <1>7, <1>10, <1>11, ConcatCalm
<1>13. s \o w = a \o <<RebuildAll, SaveVectors>> \o e
  <2>1. PICK S : S = Range(a) \cup Range(c) \cup Range(w) \cup {RebuildAll, SaveVectors}
    OBVIOUS
  <2>2. a \in Seq(S) /\ c \in Seq(S) /\ w \in Seq(S) /\ <<RebuildAll, SaveVectors>> \in Seq(S)
    BY <1>5, <1>6, <1>10, <2>1
  <2>3. PICK u \in Seq(S) : u = a \o <<RebuildAll, SaveVectors>>
    BY <2>2, ConcatProperties
  <2>4. (u \o c) \o w = u \o (c \o w)
    <3>1. PICK x \in Seq(S), y \in Seq(S), z \in Seq(S) : x = u /\ y = c /\ z = w
      BY <2>2, <2>3
    <3>2. (x \o y) \o z = x \o (y \o z)
      BY ONLY <3>1, x \in Seq(S), y \in Seq(S), z \in Seq(S), ConcatAssociative
    <3> QED BY <3>1, <3>2
  <2> QED BY <1>8, <1>11, <2>3, <2>4
<1>14. Rebuilding(s, cat) /\ s \in Seq(Range(s))
  BY <1>5, <1>6, <1>7, <1>8, RebuildingIs
<1>15. Rebuilding(s \o w, cat) /\ s \o w \in Seq(Range(s \o w))
  BY <1>5, <1>12, <1>13, RebuildingIs
<1> QED BY <1>9, <1>14, <1>15

-----------------------------------------------------------------------------
(* The invariant, step by step.                                            *)

\* While a call runs, what its next step may be.
LEMMA RunningStep ==
  ASSUME CatalogInv, NEW step, At(step)
  PROVE  /\ icUp /\ icOp # <<>> /\ icOp \in Seq(Range(icOp)) /\ icOp[1].step = step
         /\ Head(icOp) = icOp[1] /\ Tail(icOp) \in Seq(Range(Tail(icOp)))
         /\ step # "write" => /\ CacheFor(icDiskVec, icCat, icStore)
                              /\ Underway(icOp, icCat, icStore, icVec, icDiskVec)
         /\ step = "write" => Writing(icOp, icCat, icStore, icVec, icDiskVec)
<1>1. icUp /\ icOp # <<>> /\ Head(icOp).step = step /\ icOp \in Seq(Range(icOp))
  BY DEF CatalogInv, At
<1>2. PICK op : op = icOp
  OBVIOUS
<1>3. Head(op) = op[1] /\ Tail(op) \in Seq(Range(Tail(op)))
  BY <1>1, <1>2, TailOf
<1>4. ASSUME Underway(icOp, icCat, icStore, icVec, icDiskVec) PROVE step # "write"
  BY <1>1, <1>2, <1>3, <1>4, FirstStep DEF Underway, CalmStep
<1>5. ASSUME Writing(icOp, icCat, icStore, icVec, icDiskVec) PROVE step = "write"
  BY <1>1, <1>2, <1>3, <1>5, FirstStep
<1> QED BY <1>1, <1>2, <1>3, <1>4, <1>5 DEF CatalogInv

\* Between calls the indexes are right and so is the cache.
LEMMA IdleSettled ==
  ASSUME CatalogInv, CatalogIdle
  PROVE  /\ icUp /\ icOp = <<>> /\ VecIs(icVec, icCat, icStore) /\ Synced(icDiskVec, icCat)
         /\ CacheFor(icDiskVec, icCat, icStore)
<1>1. icUp /\ icOp = <<>> /\ Len(icOp) = 0
  BY DEF CatalogIdle
<1>2. ~Writing(icOp, icCat, icStore, icVec, icDiskVec)
  BY <1>1 DEF Writing
<1>3. ~Rebuilding(icOp, icCat) /\ ~SavesFrom(icOp, 1)
  BY <1>1 DEF Rebuilding, SavesFrom
<1>4. ~Changing(icOp, icCat, icStore, icVec) /\ ~Installing(icOp, icCat, icStore)
  BY <1>1 DEF Changing, Installing
<1>5. ~CreatingAt(1, icOp, icCat, icStore, icVec, icDiskVec) /\ ~CreatingAt(2, icOp, icCat, icStore, icVec, icDiskVec)
  BY <1>1 DEF CreatingAt
<1>6. Settled(icOp, icCat, icStore, icVec, icDiskVec) /\ CacheFor(icDiskVec, icCat, icStore)
  BY <1>1, <1>2, <1>3, <1>4, <1>5 DEF CatalogInv, Underway
<1> QED BY <1>1, <1>3, <1>6 DEF Settled

\* The catalog and its indexes are right at the start.
LEMMA InitInv == CatalogInit => CatalogInv
<1>1. SUFFICES ASSUME CatalogInit PROVE CatalogInv
  OBVIOUS
<1>2. icStore \in [IcNode -> StoreValue]
  BY <1>1 DEF CatalogInit, StoreValue
<1>3. icCat = icDiskCat /\ icCat.version = 0 /\ icCat.indexes = {} /\ icUp = TRUE /\ icOp = <<>>
  BY <1>1 DEF CatalogInit
<1>4. VectorDefinitions(icCat) = {}
  BY <1>3 DEF VectorDefinitions
<1>5. ValidAgainst(icCat, icStore)
  BY <1>3, <1>4 DEF ValidAgainst
<1>6. icOp \in Seq(Range(icOp)) /\ Len(icOp) = 0
  BY <1>3
<1>7. icVec = EntriesOf({}, icStore)
  BY <1>1 DEF CatalogInit, EntriesOf, NamesOf
<1>8. ~icDiskVec.present
  BY <1>1 DEF CatalogInit, NoCache
<1>9. Settled(icOp, icCat, icStore, icVec, icDiskVec)
  BY <1>4, <1>6, <1>7, <1>8 DEF Settled, CalmFrom, VecIs, Synced
<1> QED BY <1>2, <1>3, <1>5, <1>6, <1>8, <1>9 DEF CatalogInv, Underway, CacheFor

\* save_index_lifecycle_state.
LEMMA LifeKeeps == ASSUME CatalogInv, StepLife PROVE CatalogInv'
<1>1. At("life") /\ icOp' = Tail(icOp)
  BY DEF StepLife, Done, Run
<1>2. UNCHANGED <<icStore, icCat, icDiskCat, icVec, icDiskVec, icUp>>
  BY DEF StepLife
<1>3. /\ icUp /\ icOp # <<>> /\ icOp \in Seq(Range(icOp)) /\ icOp[1].step = "life"
      /\ Tail(icOp) \in Seq(Range(Tail(icOp))) /\ CacheFor(icDiskVec, icCat, icStore)
      /\ Underway(icOp, icCat, icStore, icVec, icDiskVec)
  BY <1>1, RunningStep
<1>4. Underway(Tail(icOp), icCat, icStore, icVec, icDiskVec)
  <2>1. CASE Settled(icOp, icCat, icStore, icVec, icDiskVec)
    BY <1>3, <2>1, SettledTail DEF Underway
  <2>2. CASE Rebuilding(icOp, icCat)
    BY <1>3, <2>2, RebuildingTail DEF Underway
  <2>3. CASE CreatingAt(2, icOp, icCat, icStore, icVec, icDiskVec)
    BY <1>3, <2>3, CreatingTail DEF Underway
  <2>4. /\ ~Changing(icOp, icCat, icStore, icVec) /\ ~Installing(icOp, icCat, icStore)
        /\ ~CreatingAt(1, icOp, icCat, icStore, icVec, icDiskVec)
    BY <1>3, FirstStep
  <2> QED BY <1>3, <2>1, <2>2, <2>3, <2>4 DEF Underway
<1> QED BY <1>1, <1>2, <1>3, <1>4 DEF CatalogInv

\* Only calm steps are left: the next one is a rebuild, a save or a resume.
LEMMA CalmRunning ==
  ASSUME CatalogInv, NEW step \in {"rebuild", "vectors", "resume"}, At(step)
  PROVE  Settled(icOp, icCat, icStore, icVec, icDiskVec) /\ CalmStep(icOp[1], icCat)
<1>1. /\ icOp # <<>> /\ icOp \in Seq(Range(icOp)) /\ icOp[1].step = step
      /\ Underway(icOp, icCat, icStore, icVec, icDiskVec)
  BY RunningStep
<1>2. /\ ~Changing(icOp, icCat, icStore, icVec) /\ ~Installing(icOp, icCat, icStore)
      /\ ~CreatingAt(1, icOp, icCat, icStore, icVec, icDiskVec) /\ ~Rebuilding(icOp, icCat)
      /\ ~CreatingAt(2, icOp, icCat, icStore, icVec, icDiskVec)
  BY <1>1, FirstStep
<1> QED BY <1>1, <1>2, FirstStep DEF Underway

\* PersistentVectorIndexes::rebuild of one name.
LEMMA RebuildKeeps == ASSUME CatalogInv, StepRebuild PROVE CatalogInv'
<1>1. At("rebuild") /\ icOp' = Tail(icOp)
  BY DEF StepRebuild, Done, Run
<1>2. UNCHANGED <<icStore, icCat, icDiskCat, icDiskVec, icUp>>
  BY DEF StepRebuild
<1>3. /\ icUp /\ icOp # <<>> /\ icOp \in Seq(Range(icOp)) /\ icOp[1].step = "rebuild"
      /\ Tail(icOp) \in Seq(Range(Tail(icOp))) /\ CacheFor(icDiskVec, icCat, icStore)
      /\ Head(icOp) = icOp[1]
  BY <1>1, RunningStep
<1>4. Settled(icOp, icCat, icStore, icVec, icDiskVec) /\ CalmStep(icOp[1], icCat)
  BY <1>1, CalmRunning
<1>5. PICK name : name = icOp[1].name
  OBVIOUS
<1>6. name \in NamesOf(VectorDefinitions(icCat))
  BY <1>3, <1>4, <1>5 DEF CalmStep
<1>7. PICK names, e : names = NamesOf(VectorDefinitions(icCat)) /\ e = VectorEntries(icStore)
  OBVIOUS
<1>8. icVec = [n \in names |-> e]
  BY <1>4, <1>7 DEF Settled, VecIs, EntriesOf
<1>9. icVec' = [n \in DOMAIN icVec \cup {name} |-> IF n = name THEN e ELSE icVec[n]]
  BY <1>3, <1>5, <1>7 DEF StepRebuild
<1>10. icVec' = icVec
  BY <1>6, <1>7, <1>8, <1>9
<1>11. Settled(Tail(icOp), icCat, icStore, icVec, icDiskVec)
  BY <1>3, <1>4, SettledTail
<1> QED BY <1>1, <1>2, <1>3, <1>10, <1>11 DEF CatalogInv, Underway

\* PersistentVectorIndexes::build for the whole catalog.
LEMMA RebuildAllKeeps == ASSUME CatalogInv, StepRebuildAll PROVE CatalogInv'
<1>1. At("rebuildAll") /\ icOp' = Tail(icOp)
  BY DEF StepRebuildAll, Done, Run
<1>2. UNCHANGED <<icStore, icCat, icDiskCat, icDiskVec, icUp>>
  BY DEF StepRebuildAll
<1>3. /\ icUp /\ icOp # <<>> /\ icOp \in Seq(Range(icOp)) /\ icOp[1].step = "rebuildAll"
      /\ Tail(icOp) \in Seq(Range(Tail(icOp))) /\ CacheFor(icDiskVec, icCat, icStore)
      /\ Underway(icOp, icCat, icStore, icVec, icDiskVec)
  BY <1>1, RunningStep
<1>4. /\ ~Changing(icOp, icCat, icStore, icVec) /\ ~Installing(icOp, icCat, icStore)
      /\ ~CreatingAt(1, icOp, icCat, icStore, icVec, icDiskVec)
      /\ ~CreatingAt(2, icOp, icCat, icStore, icVec, icDiskVec)
      /\ ~Settled(icOp, icCat, icStore, icVec, icDiskVec)
  BY <1>3, FirstStep DEF CalmStep
<1>5. Rebuilding(icOp, icCat)
  BY <1>3, <1>4 DEF Underway
<1>6. CalmFrom(Tail(icOp), 1, icCat) /\ SavesFrom(Tail(icOp), 1)
  BY <1>3, <1>5, RebuildingDone
<1>7. VecIs(icVec', icCat, icStore)
  BY DEF StepRebuildAll, BuildVectorIndexes, VecIs, EntriesOf, NamesOf
<1>8. Settled(Tail(icOp), icCat, icStore, icVec', icDiskVec)
  BY <1>6, <1>7 DEF Settled
<1> QED BY <1>1, <1>2, <1>3, <1>8 DEF CatalogInv, Underway

\* The cache file of right indexes.
LEMMA CacheOfRight ==
  ASSUME NEW vec, NEW store, NEW cache, cache = CacheFile(vec), VecIs(vec, icCat, store),
         icCat.version \in Nat
  PROVE  CacheFor(cache, icCat, store) /\ Synced(cache, icCat)
<1>1. PICK names, e : names = NamesOf(VectorDefinitions(icCat)) /\ e = VectorEntries(store)
  OBVIOUS
<1>2. vec = [n \in names |-> e]
  BY <1>1 DEF VecIs, EntriesOf
<1>3. /\ cache.version = icCat.version /\ cache.defs = VectorDefinitions(icCat)
      /\ cache.entries = [n \in names |-> IF n \in DOMAIN vec THEN vec[n] ELSE <<>>]
  BY <1>1 DEF CacheFile, NamesOf
<1>4. cache.entries = [n \in names |-> e]
  BY <1>2, <1>3
<1>5. cache.entries = EntriesOf(cache.defs, store)
  BY <1>1, <1>3, <1>4 DEF EntriesOf
<1> QED BY <1>3, <1>5 DEF CacheFor, Synced

\* save_vector_index_cache.
LEMMA SaveVectorsKeeps == ASSUME CatalogInv, StepSaveVectors PROVE CatalogInv'
<1>1. At("vectors") /\ icOp' = Tail(icOp) /\ icDiskVec' = CacheFile(icVec)
  BY DEF StepSaveVectors, Done, Run
<1>2. UNCHANGED <<icStore, icCat, icDiskCat, icVec, icUp>>
  BY DEF StepSaveVectors
<1>3. /\ icUp /\ icOp # <<>> /\ icOp \in Seq(Range(icOp))
      /\ Tail(icOp) \in Seq(Range(Tail(icOp)))
  BY <1>1, RunningStep
<1>4. Settled(icOp, icCat, icStore, icVec, icDiskVec)
  BY <1>1, CalmRunning
<1>5. VecIs(icVec, icCat, icStore) /\ CalmFrom(icOp, 1 + 1, icCat)
  BY <1>4 DEF Settled, CalmFrom
<1>6. CacheFor(icDiskVec', icCat, icStore) /\ Synced(icDiskVec', icCat)
  BY <1>1, <1>5, CacheOfRight DEF CatalogInv
<1>7. PICK t : t = Tail(icOp)
  OBVIOUS
<1>8. CalmFrom(icOp, 1 + 1, icCat) => CalmFrom(t, 1, icCat)
  BY <1>3, <1>7, TailShifts
<1>9. Settled(Tail(icOp), icCat, icStore, icVec, icDiskVec')
  BY <1>5, <1>6, <1>7, <1>8 DEF Settled
<1> QED BY <1>1, <1>2, <1>3, <1>6, <1>9 DEF CatalogInv, Underway

\* resume_index_builds.
LEMMA ResumeKeeps == ASSUME CatalogInv, StepResume PROVE CatalogInv'
<1>1. At("resume") /\ UNCHANGED <<icStore, icCat, icDiskCat, icVec, icDiskVec, icUp>>
  BY DEF StepResume
<1>2. /\ icUp /\ icOp # <<>> /\ icOp \in Seq(Range(icOp)) /\ icOp[1].step = "resume"
      /\ Tail(icOp) \in Seq(Range(Tail(icOp))) /\ CacheFor(icDiskVec, icCat, icStore)
  BY <1>1, RunningStep
<1>3. Settled(icOp, icCat, icStore, icVec, icDiskVec)
  BY <1>1, CalmRunning
<1>4. CASE icOp' = Tail(icOp)
  <2>1. Settled(Tail(icOp), icCat, icStore, icVec, icDiskVec)
    BY <1>2, <1>3, SettledTail
  <2> QED BY <1>1, <1>2, <1>4, <2>1 DEF CatalogInv, Underway
<1>5. CASE \E d \in Unfinished : Run((IF d.kind \in VectorKind THEN RebuildSteps(d.name)
                                       ELSE <<Life(d.name, "ready")>>) \o icOp)
  <2>1. PICK d \in Unfinished : icOp' = (IF d.kind \in VectorKind THEN RebuildSteps(d.name)
                                         ELSE <<Life(d.name, "ready")>>) \o icOp
    BY <1>5 DEF Run
  <2>2. PICK s : s = IF d.kind \in VectorKind THEN RebuildSteps(d.name) ELSE <<Life(d.name, "ready")>>
    OBVIOUS
  <2>3. s \in Seq(Range(s)) /\ CalmFrom(s, 1, icCat)
    <3>1. CASE d.kind \in VectorKind
      <4>1. d \in VectorDefinitions(icCat)
        BY <3>1 DEF Unfinished, VectorDefinitions
      <4>2. d.name \in NamesOf(VectorDefinitions(icCat))
        BY <4>1 DEF NamesOf
      <4>3. PICK x1, x2, x3, x4 : /\ x1 = Life(d.name, "rebuilding") /\ x2 = Rebuild(d.name)
                                  /\ x3 = SaveVectors /\ x4 = Life(d.name, "ready")
        OBVIOUS
      <4>4. s = <<x1, x2, x3, x4>>
        BY <2>2, <3>1, <4>3 DEF RebuildSteps
      <4>5. CalmStep(x1, icCat) /\ CalmStep(x2, icCat) /\ CalmStep(x3, icCat) /\ CalmStep(x4, icCat)
        BY <4>2, <4>3 DEF CalmStep, Life, Rebuild, SaveVectors
      <4>6. s \in Seq({x1, x2, x3, x4}) /\ Len(s) = 4
        BY <4>4
      <4>7. \A i \in 1..Len(s) : CalmStep(s[i], icCat)
        <5>1. s[1] = x1 /\ s[2] = x2 /\ s[3] = x3 /\ s[4] = x4 /\ \A i \in 1..4 : i \in {1, 2, 3, 4}
          BY <4>4
        <5> QED BY <4>5, <4>6, <5>1
      <4>8. s \in Seq(Range(s))
        BY <4>6, SeqOfRange
      <4> QED BY <4>7, <4>8 DEF CalmFrom
    <3>2. CASE d.kind \notin VectorKind
      <4>1. PICK x : x = Life(d.name, "ready")
        OBVIOUS
      <4>2. s = <<x>> /\ CalmStep(x, icCat)
        BY <2>2, <3>2, <4>1 DEF CalmStep, Life
      <4>3. s \in Seq({x}) /\ Len(s) = 1 /\ s[1] = x
        BY <4>2
      <4>4. s \in Seq(Range(s))
        BY <4>3, SeqOfRange
      <4> QED BY <4>2, <4>3, <4>4 DEF CalmFrom
    <3> QED BY <3>1, <3>2
  <2>4. CalmFrom(icOp, 1, icCat) /\ VecIs(icVec, icCat, icStore)
        /\ (Synced(icDiskVec, icCat) \/ SavesFrom(icOp, 1))
    BY <1>3 DEF Settled
  <2>5. PICK r : r = s \o icOp
    OBVIOUS
  <2>6. CalmFrom(r, 1, icCat) /\ (SavesFrom(icOp, 1) => SavesFrom(r, 1)) /\ r \in Seq(Range(r))
    BY <1>2, <2>3, <2>4, <2>5, ConcatCalm
  <2>7. Settled(r, icCat, icStore, icVec, icDiskVec)
    BY <2>4, <2>6 DEF Settled
  <2>8. icOp' = r
    BY <2>1, <2>2, <2>5
  <2> QED BY <1>1, <1>2, <2>6, <2>7, <2>8 DEF CatalogInv, Underway
<1> QED BY <1>4, <1>5 DEF StepResume, Done, Run

\* Filling the new index, or refusing it.
LEMMA InsertKeeps == ASSUME CatalogInv, StepInsert PROVE CatalogInv'
<1>1. At("insert") /\ UNCHANGED <<icStore, icCat, icDiskCat, icDiskVec, icUp>>
  BY DEF StepInsert
<1>2. /\ icUp /\ icOp # <<>> /\ icOp \in Seq(Range(icOp)) /\ icOp[1].step = "insert"
      /\ Tail(icOp) \in Seq(Range(Tail(icOp))) /\ CacheFor(icDiskVec, icCat, icStore)
      /\ Underway(icOp, icCat, icStore, icVec, icDiskVec) /\ Head(icOp) = icOp[1]
  BY <1>1, RunningStep
<1>3. /\ ~Changing(icOp, icCat, icStore, icVec) /\ ~Installing(icOp, icCat, icStore)
      /\ ~Rebuilding(icOp, icCat)
      /\ ~CreatingAt(2, icOp, icCat, icStore, icVec, icDiskVec)
      /\ ~Settled(icOp, icCat, icStore, icVec, icDiskVec)
  BY <1>2, FirstStep DEF CalmStep
<1>4. CreatingAt(1, icOp, icCat, icStore, icVec, icDiskVec)
  BY <1>2, <1>3 DEF Underway
<1>5. PICK d : d = icOp[1].def
  OBVIOUS
<1>6. PICK c : c = icOp[2].cat
  OBVIOUS
<1>7. /\ Len(icOp) >= 3 /\ icOp[2].step = "catalog" /\ c.version = icCat.version + 1
      /\ c.indexes = icCat.indexes \cup {d} /\ d \in IndexDefinition
      /\ d.kind = "unique" => UniqueHolds(icStore)
      /\ CalmFrom(icOp, 3, c) /\ SavesFrom(icOp, 3)
      /\ VecIs(icVec, icCat, icStore) /\ Synced(icDiskVec, icCat)
  BY <1>4, <1>5, <1>6 DEF CreatingAt
<1>8. PICK t : t = Tail(icOp)
  OBVIOUS
<1>9. PICK names, e : names = NamesOf(VectorDefinitions(icCat)) /\ e = VectorEntries(icStore)
  OBVIOUS
<1>10. icVec = [n \in names |-> e]
  BY <1>7, <1>9 DEF VecIs, EntriesOf
<1>11. \/ /\ d.kind \in VectorKind => VectorValuesHold(icStore)
          /\ icVec' = IF d.kind \in VectorKind
                      THEN [n \in DOMAIN icVec \cup {d.name} |-> IF n = d.name THEN e ELSE icVec[n]]
                      ELSE icVec
          /\ icOp' = t
       \/ icOp' = <<>> /\ icVec' = icVec
  BY <1>2, <1>5, <1>8, <1>9 DEF StepInsert, Done, Run
<1>12. CASE icOp' = <<>> /\ icVec' = icVec
  <2>1. icOp' \in Seq(Range(icOp')) /\ Len(icOp') = 0
    BY <1>12
  <2>2. Settled(icOp', icCat, icStore, icVec, icDiskVec)
    BY <1>7, <2>1 DEF Settled, CalmFrom
  <2> QED BY <1>1, <1>2, <1>12, <2>1, <2>2 DEF CatalogInv, Underway
<1>13. CASE /\ d.kind \in VectorKind => VectorValuesHold(icStore)
            /\ icVec' = IF d.kind \in VectorKind
                        THEN [n \in DOMAIN icVec \cup {d.name} |-> IF n = d.name THEN e ELSE icVec[n]]
                        ELSE icVec
            /\ icOp' = t
  <2>1. ASSUME NEW n \in NamesOf(VectorDefinitions(c)) PROVE n \in DOMAIN icVec' /\ icVec'[n] = e
    <3>1. PICK x \in c.indexes : x.kind \in VectorKind /\ x.name = n
      BY <2>1 DEF NamesOf, VectorDefinitions
    <3>2. CASE x = d
      BY <1>13, <3>1, <3>2
    <3>3. CASE x \in icCat.indexes
      <4>1. n \in names
        BY <1>9, <3>1, <3>3 DEF NamesOf, VectorDefinitions
      <4> QED BY <1>10, <1>13, <4>1
    <3> QED BY <1>7, <3>1, <3>2, <3>3
  <2>2. ValidAgainst(icCat, icStore) /\ icCat.indexes \subseteq IndexDefinition /\ icCat.version \in Nat
    BY DEF CatalogInv
  <2>3. ValidAgainst(c, icStore)
    <3>1. (\E x \in c.indexes : x.kind = "unique") => UniqueHolds(icStore)
      BY <1>7, <2>2 DEF ValidAgainst
    <3>2. VectorDefinitions(c) # {} => VectorValuesHold(icStore)
      BY <1>7, <1>13, <2>2 DEF ValidAgainst, VectorDefinitions
    <3> QED BY <3>1, <3>2 DEF ValidAgainst
  <2>4. c.version \in Nat /\ c.version >= icCat.version /\ c.indexes \subseteq IndexDefinition
    BY <1>7, <2>2
  <2>5. /\ Len(icOp) \in Nat \ {0} /\ Len(t) = Len(icOp) - 1
        /\ \A i \in 1..Len(t) : i + 1 \in 1..Len(icOp) /\ t[i] = icOp[i + 1]
    BY <1>2, <1>8, TailOf
  <2>6. Len(t) >= 2 /\ t[1] = icOp[2] /\ t # <<>>
    BY <1>7, <2>5
  <2>7. /\ CalmFrom(icOp, 2 + 1, c) => CalmFrom(t, 2, c)
        /\ 2 > 0 /\ SavesFrom(icOp, 2 + 1) => SavesFrom(t, 2)
    BY <1>2, <1>8, TailShifts
  <2>8. NextCatalog(t[1], icCat, icStore) /\ t[1].cat = c
    BY <1>6, <1>7, <2>3, <2>4, <2>6 DEF NextCatalog
  <2>9. CalmFrom(t, 2, c) /\ SavesFrom(t, 2)
    BY <1>7, <2>7
  <2>10. Changing(t, icCat, icStore, icVec')
    BY <1>9, <2>1, <2>6, <2>8, <2>9 DEF Changing
  <2> QED BY <1>1, <1>2, <1>8, <1>13, <2>10 DEF CatalogInv, Underway
<1> QED BY <1>11, <1>12, <1>13

\* save_index_catalog, by a schema change or by an install.
LEMMA CatalogKeeps == ASSUME CatalogInv, StepCatalog PROVE CatalogInv'
<1>1. /\ At("catalog") /\ UNCHANGED <<icStore, icDiskVec, icUp>>
      /\ icOp' = Tail(icOp) /\ icCat' = Head(icOp).cat /\ icDiskCat' = icCat'
  BY DEF StepCatalog, Done, Run
<1>2. /\ icUp /\ icOp # <<>> /\ icOp \in Seq(Range(icOp)) /\ icOp[1].step = "catalog"
      /\ Tail(icOp) \in Seq(Range(Tail(icOp))) /\ CacheFor(icDiskVec, icCat, icStore)
      /\ Underway(icOp, icCat, icStore, icVec, icDiskVec) /\ Head(icOp) = icOp[1]
  BY <1>1, RunningStep
<1>3. /\ ~Rebuilding(icOp, icCat)
      /\ ~CreatingAt(1, icOp, icCat, icStore, icVec, icDiskVec)
      /\ ~CreatingAt(2, icOp, icCat, icStore, icVec, icDiskVec)
      /\ ~Settled(icOp, icCat, icStore, icVec, icDiskVec)
  BY <1>2, FirstStep DEF CalmStep
<1>4. Changing(icOp, icCat, icStore, icVec) \/ Installing(icOp, icCat, icStore)
  BY <1>2, <1>3 DEF Underway
<1>5. PICK c : c = icOp[1].cat
  OBVIOUS
<1>6. PICK t : t = Tail(icOp)
  OBVIOUS
<1>7. NextCatalog(icOp[1], icCat, icStore)
  BY <1>4 DEF Changing, Installing
<1>8. /\ c.version \in Nat /\ c.version >= icCat.version /\ c.indexes \subseteq IndexDefinition
      /\ ValidAgainst(c, icStore)
  BY <1>5, <1>7 DEF NextCatalog
<1>9. icCat' = c
  BY <1>1, <1>2, <1>5
<1>10. CacheFor(icDiskVec, c, icStore)
  <2>1. icCat.version \in Nat
    BY DEF CatalogInv
  <2>2. SUFFICES ASSUME icDiskVec.present
                 PROVE  /\ icDiskVec.version \in Nat /\ icDiskVec.version <= c.version
                        /\ icDiskVec.entries = EntriesOf(icDiskVec.defs, icStore) \/ icDiskVec.version # c.version
    BY DEF CacheFor
  <2>3. PICK v \in Nat, w \in Nat, z \in Nat : v = icDiskVec.version /\ w = icCat.version /\ z = c.version
    BY <1>2, <1>8, <2>1, <2>2 DEF CacheFor
  <2>4. v <= w /\ w <= z /\ (v = w => icDiskVec.entries = EntriesOf(icDiskVec.defs, icStore))
    BY <1>2, <1>8, <2>2, <2>3 DEF CacheFor
  <2>5. v <= z /\ (v = z => v = w)
    BY <2>4
  <2> QED BY <2>3, <2>4, <2>5
<1>11. /\ Len(icOp) \in Nat \ {0} /\ Len(t) = Len(icOp) - 1
       /\ \A i \in 1..Len(t) : i + 1 \in 1..Len(icOp) /\ t[i] = icOp[i + 1]
  BY <1>2, <1>6, TailOf
<1>12. CASE Changing(icOp, icCat, icStore, icVec)
  <2>1. PICK names, e : names = NamesOf(VectorDefinitions(c)) /\ e = VectorEntries(icStore)
    OBVIOUS
  <2>2. CalmFrom(icOp, 1 + 1, c) /\ SavesFrom(icOp, 1 + 1)
    BY <1>5, <1>12 DEF Changing
  <2>3. \A n \in names : n \in DOMAIN icVec /\ icVec[n] = e
    BY <1>5, <1>12, <2>1 DEF Changing
  <2>4. icVec' = [n \in DOMAIN icVec \cap names |-> icVec[n]]
    BY <1>9, <2>1 DEF StepCatalog, NamesOf
  <2>5. DOMAIN icVec \cap names = names
    BY <2>3
  <2>6. icVec' = [n \in names |-> e]
    BY <2>3, <2>4, <2>5
  <2>7. VecIs(icVec', c, icStore)
    BY <2>1, <2>6 DEF VecIs, EntriesOf
  <2>8. /\ CalmFrom(icOp, 1 + 1, c) => CalmFrom(t, 1, c)
        /\ 1 > 0 /\ SavesFrom(icOp, 1 + 1) => SavesFrom(t, 1)
    BY <1>2, <1>6, TailShifts
  <2>9. Settled(t, c, icStore, icVec', icDiskVec)
    BY <2>2, <2>7, <2>8 DEF Settled
  <2> QED BY <1>1, <1>2, <1>6, <1>8, <1>9, <1>10, <2>9 DEF CatalogInv, Underway
<1>13. CASE Installing(icOp, icCat, icStore)
  <2>1. Len(icOp) >= 3 /\ icOp[2].step = "rebuildAll" /\ CalmFrom(icOp, 2 + 1, c) /\ SavesFrom(icOp, 2 + 1)
    BY <1>5, <1>13 DEF Installing
  <2>2. /\ CalmFrom(icOp, 2 + 1, c) => CalmFrom(t, 2, c)
        /\ 2 > 0 /\ SavesFrom(icOp, 2 + 1) => SavesFrom(t, 2)
    BY <1>2, <1>6, TailShifts
  <2>3. 1 \in 1..Len(t) /\ t[1] = icOp[2] /\ \A i \in 1..Len(t) : ~(i < 1)
    BY <1>11, <2>1
  <2>4. CalmFrom(t, 1 + 1, c) /\ SavesFrom(t, 1 + 1)
    BY <2>1, <2>2
  <2>5. Rebuilding(t, c)
    BY <2>1, <2>3, <2>4 DEF Rebuilding
  <2> QED BY <1>1, <1>2, <1>6, <1>8, <1>9, <1>10, <2>5 DEF CatalogInv, Underway
<1> QED BY <1>4, <1>12, <1>13

\* Updating one node brings the entries of the old store to the new store.
LEMMA UpdateBringsUp ==
  ASSUME icStore \in [IcNode -> StoreValue], NEW n \in IcNode, NEW x, NEW before,
         before = [icStore EXCEPT ![n] = x]
  PROVE  UpdateIndexedNode(VectorEntries(before), n) = VectorEntries(icStore)
<1>1. PICK old, now : /\ old = {m \in IcNode : before[m] \in VectorValue}
                      /\ now = {m \in IcNode : icStore[m] \in VectorValue}
  OBVIOUS
<1>2. PICK index : index = VectorEntries(before)
  OBVIOUS
<1>3. index = [m \in old |-> before[m]] /\ VectorEntries(icStore) = [m \in now |-> icStore[m]]
  BY <1>1, <1>2 DEF VectorEntries
<1>4. \A m \in IcNode : m # n => before[m] = icStore[m]
  OBVIOUS
<1>5. PICK members : members = IF icStore[n] \in VectorValue THEN ((DOMAIN index) \ {n}) \cup {n}
                               ELSE (DOMAIN index) \ {n}
  OBVIOUS
<1>6. UpdateIndexedNode(index, n) = [m \in members |-> IF m = n THEN icStore[n] ELSE index[m]]
  BY <1>5 DEF UpdateIndexedNode
<1>7. members = now
  BY <1>1, <1>3, <1>4, <1>5
<1>8. \A m \in members : (IF m = n THEN icStore[n] ELSE index[m]) = icStore[m]
  BY <1>1, <1>3, <1>4, <1>5
<1> QED BY ZenonT(60), <1>2, <1>3, <1>6, <1>7, <1>8

\* update_vector_indexes_for_command and the save of the cache.
LEMMA WriteVectorsKeeps == ASSUME CatalogInv, StepWriteVectors PROVE CatalogInv'
<1>1. /\ At("write") /\ UNCHANGED <<icStore, icCat, icDiskCat, icUp>> /\ icOp' = Tail(icOp)
      /\ icDiskVec' = IF DOMAIN icVec = {} THEN icDiskVec ELSE CacheFile(icVec')
  BY DEF StepWriteVectors, Done, Run
<1>2. /\ icUp /\ icOp # <<>> /\ icOp \in Seq(Range(icOp)) /\ Head(icOp) = icOp[1]
      /\ Tail(icOp) \in Seq(Range(Tail(icOp)))
      /\ Writing(icOp, icCat, icStore, icVec, icDiskVec)
  BY <1>1, RunningStep
<1>3. PICK n \in IcNode : n = icOp[1].node
  BY <1>2 DEF Writing
<1>4. PICK before : \E x \in StoreValue :
        /\ before = [icStore EXCEPT ![n] = x]
        /\ VecIs(icVec, icCat, before) /\ CacheFor(icDiskVec, icCat, before)
  BY <1>2, <1>3 DEF Writing
<1>5. Len(icOp) = 1 /\ Synced(icDiskVec, icCat)
  BY <1>2 DEF Writing
<1>6. icStore \in [IcNode -> StoreValue] /\ icCat.version \in Nat
  BY DEF CatalogInv
<1>7. UpdateIndexedNode(VectorEntries(before), n) = VectorEntries(icStore)
  BY <1>4, <1>6, UpdateBringsUp
<1>8. PICK names, e, f : /\ names = NamesOf(VectorDefinitions(icCat)) /\ e = VectorEntries(before)
                         /\ f = VectorEntries(icStore)
  OBVIOUS
<1>9. icVec = [m \in names |-> e]
  BY <1>4, <1>8 DEF VecIs, EntriesOf
<1>10. icVec' = [name \in DOMAIN icVec |-> UpdateIndexedNode(icVec[name], n)]
  BY <1>2, <1>3 DEF StepWriteVectors
<1>11. icVec' = [m \in names |-> f]
  BY <1>7, <1>8, <1>9, <1>10
<1>12. VecIs(icVec', icCat, icStore)
  BY <1>8, <1>11 DEF VecIs, EntriesOf
<1>13. CacheFor(icDiskVec', icCat, icStore) /\ Synced(icDiskVec', icCat)
  <2>1. CASE DOMAIN icVec # {}
    BY <1>1, <1>6, <1>12, <2>1, CacheOfRight
  <2>2. CASE DOMAIN icVec = {}
    <3>1. names = {} /\ icDiskVec' = icDiskVec
      BY <1>1, <1>9, <2>2
    <3>2. EntriesOf(VectorDefinitions(icCat), before) = EntriesOf(VectorDefinitions(icCat), icStore)
      BY <1>8, <3>1 DEF EntriesOf
    <3> QED BY <1>4, <1>5, <3>1, <3>2 DEF CacheFor, Synced
  <2> QED BY <2>1, <2>2
<1>14. PICK t : t = Tail(icOp)
  OBVIOUS
<1>15. Len(icOp) \in Nat \ {0} /\ Len(t) = Len(icOp) - 1
  BY <1>2, <1>14, TailOf
<1>16. CalmFrom(t, 1, icCat)
  BY <1>5, <1>15 DEF CalmFrom
<1>17. Settled(t, icCat, icStore, icVec', icDiskVec')
  BY <1>12, <1>13, <1>16 DEF Settled
<1> QED BY <1>1, <1>2, <1>13, <1>14, <1>17 DEF CatalogInv, Underway

-----------------------------------------------------------------------------
(* The calls.                                                              *)

\* add_index_definition.
LEMMA CreateKeeps == ASSUME CatalogInv, NEW d \in IndexDefinition, CreateIndex(d) PROVE CatalogInv'
<1>1. /\ CatalogIdle /\ Addable(d)
      /\ UNCHANGED <<icStore, icCat, icDiskCat, icVec, icDiskVec, icUp>>
  BY DEF CreateIndex
<1>2. /\ icUp /\ VecIs(icVec, icCat, icStore) /\ Synced(icDiskVec, icCat)
      /\ CacheFor(icDiskVec, icCat, icStore)
  BY <1>1, IdleSettled
<1>3. PICK c : c = NextVersion(icCat.indexes \cup {d})
  OBVIOUS
<1>4. c.version = icCat.version + 1 /\ c.indexes = icCat.indexes \cup {d}
  BY <1>3 DEF NextVersion
<1>5. PICK x1, x2, x3, x4, x5 :
        /\ x1 = Life(d.name, "building") /\ x2 = Insert(d) /\ x3 = SaveCatalog(c)
        /\ x4 = SaveVectors /\ x5 = Life(d.name, "ready")
  OBVIOUS
<1>6. /\ x1.step = "life" /\ x2.step = "insert" /\ x2.def = d /\ x3.step = "catalog" /\ x3.cat = c
      /\ x4.step = "vectors" /\ x5.step = "life"
  BY <1>5 DEF Life, Insert, SaveCatalog, SaveVectors
<1>7. PICK r : r = <<x1, x2, x3, x4, x5>>
  OBVIOUS
<1>8. icOp' = r
  BY <1>3, <1>5, <1>7 DEF CreateIndex, Run
<1>9. /\ r \in Seq({x1, x2, x3, x4, x5}) /\ Len(r) = 5
      /\ r[1] = x1 /\ r[2] = x2 /\ r[3] = x3 /\ r[4] = x4 /\ r[5] = x5
  BY <1>7
<1>10. r \in Seq(Range(r))
  BY <1>9, SeqOfRange
<1>11. \A i \in 1..Len(r) : i < 2 => r[i].step = "life"
  <2>1. \A i \in 1..5 : i < 2 => i = 1
    OBVIOUS
  <2> QED BY <1>6, <1>9, <2>1
<1>12. CalmFrom(r, 4, c)
  <2>1. \A i \in 1..5 : i >= 4 => i \in {4, 5}
    OBVIOUS
  <2> QED BY <1>6, <1>9, <2>1 DEF CalmFrom, CalmStep
<1>13. SavesFrom(r, 4)
  BY <1>6, <1>9 DEF SavesFrom
<1>14. d.kind = "unique" => UniqueHolds(icStore)
  BY <1>1 DEF Addable
<1>15. CreatingAt(2, r, icCat, icStore, icVec, icDiskVec)
  BY <1>2, <1>4, <1>6, <1>9, <1>11, <1>12, <1>13, <1>14 DEF CreatingAt
<1> QED BY <1>1, <1>2, <1>8, <1>10, <1>15 DEF CatalogInv, Underway

\* drop_index.
LEMMA DropKeeps == ASSUME CatalogInv, NEW name, DropIndex(name) PROVE CatalogInv'
<1>1. CatalogIdle /\ UNCHANGED <<icStore, icCat, icDiskCat, icVec, icDiskVec, icUp>>
  BY DEF DropIndex
<1>2. /\ icUp /\ VecIs(icVec, icCat, icStore) /\ Synced(icDiskVec, icCat)
      /\ CacheFor(icDiskVec, icCat, icStore)
  BY <1>1, IdleSettled
<1>3. PICK c : c = NextVersion({d \in icCat.indexes : d.name # name})
  OBVIOUS
<1>4. c.version = icCat.version + 1 /\ c.indexes = {d \in icCat.indexes : d.name # name}
  BY <1>3 DEF NextVersion
<1>5. PICK x1, x2 : x1 = SaveCatalog(c) /\ x2 = SaveVectors
  OBVIOUS
<1>6. x1.step = "catalog" /\ x1.cat = c /\ x2.step = "vectors"
  BY <1>5 DEF SaveCatalog, SaveVectors
<1>7. PICK r : r = <<x1, x2>>
  OBVIOUS
<1>8. icOp' = r
  BY <1>3, <1>5, <1>7 DEF DropIndex, Run
<1>9. r \in Seq({x1, x2}) /\ Len(r) = 2 /\ r[1] = x1 /\ r[2] = x2
  BY <1>7
<1>10. r \in Seq(Range(r)) /\ r # <<>>
  <2>1. r \in Seq(Range(r))
    BY <1>9, SeqOfRange
  <2>2. Len(<<>>) = 0
    OBVIOUS
  <2> QED BY SMTT(30), <1>9, <2>1, <2>2
<1>11. CalmFrom(r, 2, c)
  <2>1. \A i \in 1..2 : i >= 2 => i = 2
    OBVIOUS
  <2> QED BY <1>6, <1>9, <2>1 DEF CalmFrom, CalmStep
<1>12. SavesFrom(r, 2)
  BY <1>6, <1>9 DEF SavesFrom
<1>13. VectorDefinitions(c) \subseteq VectorDefinitions(icCat)
  BY <1>4 DEF VectorDefinitions
<1>14. /\ ValidAgainst(icCat, icStore) /\ icCat.version \in Nat /\ icCat.indexes \subseteq IndexDefinition
  BY DEF CatalogInv
<1>15. ValidAgainst(c, icStore)
  BY <1>4, <1>13, <1>14 DEF ValidAgainst
<1>16. NextCatalog(x1, icCat, icStore)
  <2>1. c.version \in Nat /\ c.version >= icCat.version
    BY <1>4, <1>14
  <2>2. c.indexes \subseteq IndexDefinition
    BY <1>4, <1>14
  <2> QED BY <1>6, <1>15, <2>1, <2>2 DEF NextCatalog
<1>17. ASSUME NEW n \in NamesOf(VectorDefinitions(c))
       PROVE  n \in DOMAIN icVec /\ icVec[n] = VectorEntries(icStore)
  <2>1. n \in NamesOf(VectorDefinitions(icCat))
    BY <1>13, <1>17 DEF NamesOf
  <2> QED BY <1>2, <2>1 DEF VecIs, EntriesOf
<1>18. Changing(r, icCat, icStore, icVec)
  BY <1>6, <1>9, <1>10, <1>11, <1>12, <1>16, <1>17 DEF Changing
<1> QED BY <1>1, <1>2, <1>8, <1>10, <1>18 DEF CatalogInv, Underway

\* rebuild_vector_index.
LEMMA RebuildOneKeeps == ASSUME CatalogInv, NEW name, RebuildVectorIndex(name) PROVE CatalogInv'
<1>1. /\ CatalogIdle /\ UNCHANGED <<icStore, icCat, icDiskCat, icVec, icDiskVec, icUp>>
      /\ icOp' = RebuildSteps(name)
  BY DEF RebuildVectorIndex, Run
<1>2. /\ icUp /\ VecIs(icVec, icCat, icStore) /\ Synced(icDiskVec, icCat)
      /\ CacheFor(icDiskVec, icCat, icStore)
  BY <1>1, IdleSettled
<1>3. name \in NamesOf(VectorDefinitions(icCat))
  BY DEF RebuildVectorIndex, NamesOf
<1>4. PICK x1, x2, x3, x4 : /\ x1 = Life(name, "rebuilding") /\ x2 = Rebuild(name)
                            /\ x3 = SaveVectors /\ x4 = Life(name, "ready")
  OBVIOUS
<1>5. PICK r : r = <<x1, x2, x3, x4>>
  OBVIOUS
<1>6. CalmStep(x1, icCat) /\ CalmStep(x2, icCat) /\ CalmStep(x3, icCat) /\ CalmStep(x4, icCat)
  BY <1>3, <1>4 DEF CalmStep, Life, Rebuild, SaveVectors
<1>7. /\ r \in Seq({x1, x2, x3, x4}) /\ Len(r) = 4
      /\ r[1] = x1 /\ r[2] = x2 /\ r[3] = x3 /\ r[4] = x4
  BY <1>5
<1>8. r \in Seq(Range(r))
  BY <1>7, SeqOfRange
<1>9. CalmFrom(r, 1, icCat)
  <2>1. \A i \in 1..4 : i \in {1, 2, 3, 4}
    OBVIOUS
  <2> QED BY <1>6, <1>7, <2>1 DEF CalmFrom
<1>10. Settled(r, icCat, icStore, icVec, icDiskVec)
  BY <1>2, <1>9 DEF Settled
<1>11. icOp' = r
  BY <1>1, <1>4, <1>5 DEF RebuildSteps
<1> QED BY <1>1, <1>2, <1>8, <1>10, <1>11 DEF CatalogInv, Underway

\* rebuild_vector_indexes.
LEMMA RebuildEveryKeeps == ASSUME CatalogInv, RebuildVectorIndexes PROVE CatalogInv'
<1>1. /\ CatalogIdle /\ UNCHANGED <<icStore, icCat, icDiskCat, icVec, icDiskVec, icUp>>
      /\ icOp' = RebuildAllSteps(icCat)
  BY DEF RebuildVectorIndexes, Run
<1>2. icUp /\ CacheFor(icDiskVec, icCat, icStore)
  BY <1>1, IdleSettled
<1>3. PICK s : s = RebuildAllSteps(icCat)
  OBVIOUS
<1>4. Rebuilding(s, icCat) /\ s \in Seq(Range(s))
  BY <1>3, RebuildAllIs DEF CatalogInv
<1> QED BY <1>1, <1>2, <1>3, <1>4 DEF CatalogInv, Underway

\* install_index_catalog.
LEMMA InstallKeeps ==
  ASSUME CatalogInv, NEW v \in 1..MaxVersion, NEW S \in SUBSET IndexDefinition,
         InstallIndexCatalog([version |-> v, indexes |-> S])
  PROVE  CatalogInv'
<1>1. PICK c : c = [version |-> v, indexes |-> S]
  OBVIOUS
<1>2. /\ CatalogIdle /\ Installable(c) /\ icOp' = <<SaveCatalog(c), RebuildAll, SaveVectors>>
      /\ UNCHANGED <<icStore, icCat, icDiskCat, icVec, icDiskVec, icUp>>
  BY <1>1 DEF InstallIndexCatalog, Run
<1>3. icUp /\ CacheFor(icDiskVec, icCat, icStore)
  BY <1>2, IdleSettled
<1>4. PICK x1, x2, x3 : x1 = SaveCatalog(c) /\ x2 = RebuildAll /\ x3 = SaveVectors
  OBVIOUS
<1>5. x1.step = "catalog" /\ x1.cat = c /\ x2.step = "rebuildAll" /\ x3.step = "vectors"
  BY <1>4 DEF SaveCatalog, RebuildAll, SaveVectors
<1>6. PICK r : r = <<x1, x2, x3>>
  OBVIOUS
<1>7. r \in Seq({x1, x2, x3}) /\ Len(r) = 3 /\ r[1] = x1 /\ r[2] = x2 /\ r[3] = x3
  BY <1>6
<1>8. r \in Seq(Range(r))
  BY <1>7, SeqOfRange
<1>9. CalmFrom(r, 3, c)
  <2>1. \A i \in 1..3 : i >= 3 => i = 3
    OBVIOUS
  <2> QED BY <1>5, <1>7, <2>1 DEF CalmFrom, CalmStep
<1>10. SavesFrom(r, 3)
  BY <1>5, <1>7 DEF SavesFrom
<1>11. c.version \in Nat /\ c.indexes \subseteq IndexDefinition
  BY <1>1, IcAssumption
<1>12. c.version >= icCat.version /\ ValidAgainst(c, icStore)
  BY <1>2 DEF Installable
<1>13. NextCatalog(x1, icCat, icStore)
  BY <1>5, <1>11, <1>12 DEF NextCatalog
<1>14. Installing(r, icCat, icStore)
  BY <1>5, <1>7, <1>9, <1>10, <1>13 DEF Installing
<1>15. icOp' = r
  BY <1>2, <1>4, <1>6
<1> QED BY <1>2, <1>3, <1>8, <1>14, <1>15 DEF CatalogInv, Underway

\* A validated write reaches the store.
LEMMA WriteKeeps ==
  ASSUME CatalogInv, NEW n \in IcNode, NEW v \in StoreValue, Write(n, v)
  PROVE  CatalogInv'
<1>1. /\ CatalogIdle /\ ValidAgainst(icCat, icStore') /\ icStore' = [icStore EXCEPT ![n] = v]
      /\ UNCHANGED <<icCat, icDiskCat, icVec, icDiskVec, icUp>> /\ icOp' = <<WriteVectors(n)>>
  BY DEF Write, Accepted, Run
<1>2. /\ icUp /\ VecIs(icVec, icCat, icStore) /\ Synced(icDiskVec, icCat)
      /\ CacheFor(icDiskVec, icCat, icStore)
  BY <1>1, IdleSettled
<1>3. icStore \in [IcNode -> StoreValue]
  BY DEF CatalogInv
<1>4. icStore' \in [IcNode -> StoreValue]
  BY <1>1, <1>3
<1>5. icStore = [icStore' EXCEPT ![n] = icStore[n]] /\ icStore[n] \in StoreValue
  BY <1>1, <1>3
<1>6. PICK x : x = WriteVectors(n)
  OBVIOUS
<1>7. x.step = "write" /\ x.node = n
  BY <1>6 DEF WriteVectors
<1>8. PICK r : r = <<x>>
  OBVIOUS
<1>9. r \in Seq({x}) /\ Len(r) = 1 /\ r[1] = x
  BY <1>8
<1>10. r \in Seq(Range(r))
  BY <1>9, SeqOfRange
<1>11. PICK y \in StoreValue : y = icStore[n]
  BY <1>5
<1>12. PICK before : before = [icStore' EXCEPT ![r[1].node] = y]
  OBVIOUS
<1>13. before = icStore
  BY <1>5, <1>7, <1>9, <1>11, <1>12
<1>14. VecIs(icVec, icCat, before) /\ CacheFor(icDiskVec, icCat, before)
  BY <1>2, <1>13
<1>15. Writing(r, icCat, icStore', icVec, icDiskVec)
  BY <1>2, <1>7, <1>9, <1>12, <1>14 DEF Writing
<1>16. icOp' = r
  BY <1>1, <1>6, <1>8
<1> QED BY <1>1, <1>2, <1>4, <1>10, <1>15, <1>16 DEF CatalogInv

\* A kill between two durable steps of any call but a write.
LEMMA KillKeeps == ASSUME CatalogInv, ~KillInWrite, KillCatalog PROVE CatalogInv'
<1>1. /\ icUp /\ ~At("write") /\ icUp' = FALSE /\ icOp' = <<>>
      /\ UNCHANGED <<icStore, icCat, icDiskCat, icVec, icDiskVec>>
  BY DEF KillCatalog, Run
<1>2. ~Writing(icOp, icCat, icStore, icVec, icDiskVec)
  <2>1. SUFFICES ASSUME Writing(icOp, icCat, icStore, icVec, icDiskVec) PROVE FALSE
    OBVIOUS
  <2>2. Len(icOp) = 1 /\ icOp[1].step = "write" /\ icOp \in Seq(Range(icOp))
    BY <2>1 DEF Writing, CatalogInv
  <2>3. icOp # <<>>
    <3>1. PICK k : k = Len(<<>>)
      OBVIOUS
    <3>2. k = 0 /\ Len(icOp) # 0
      BY <2>2, <3>1
    <3> QED BY <3>1, <3>2
  <2>4. PICK op, t : op = icOp /\ t = Tail(op)
    OBVIOUS
  <2>5. Head(op) = op[1]
    BY <2>2, <2>3, <2>4, TailOf
  <2> QED BY <1>1, <2>2, <2>3, <2>4, <2>5 DEF At
<1>3. icOp' \in Seq(Range(icOp'))
  BY <1>1
<1> QED BY <1>1, <1>2, <1>3 DEF CatalogInv

\* The next open, with a usable cache file or without one.
LEMMA OpenKeeps == ASSUME CatalogInv, OpenCatalog PROVE CatalogInv'
<1>1. /\ ~icUp /\ icUp' = TRUE /\ icCat' = icDiskCat
      /\ UNCHANGED <<icStore, icDiskCat, icDiskVec>>
  BY DEF OpenCatalog
<1>2. icCat' = icCat /\ icDiskCat = icCat /\ CacheFor(icDiskVec, icCat, icStore)
      /\ icCat.indexes \subseteq IndexDefinition
  BY <1>1 DEF CatalogInv
<1>3. CASE CacheMatches
  <2>1. icVec' = icDiskVec.entries /\ icOp' = <<Resume>>
    BY <1>3 DEF OpenCatalog, Run
  <2>2. /\ icDiskVec.present /\ icDiskVec.version = icCat.version
        /\ icDiskVec.defs = VectorDefinitions(icCat)
    BY <1>2, <1>3 DEF CacheMatches
  <2>3. VecIs(icVec', icCat, icStore) /\ Synced(icDiskVec, icCat)
    BY <1>2, <2>1, <2>2 DEF CacheFor, VecIs, Synced
  <2>4. PICK r : r = <<Resume>>
    OBVIOUS
  <2>5. r \in Seq({Resume}) /\ Len(r) = 1 /\ r[1] = Resume
    BY <2>4
  <2>6. r \in Seq(Range(r))
    BY <2>5, SeqOfRange
  <2>7. CalmFrom(r, 1, icCat)
    BY <2>5 DEF CalmFrom, CalmStep, Resume
  <2>8. Settled(r, icCat, icStore, icVec', icDiskVec)
    BY <2>3, <2>7 DEF Settled
  <2> QED BY <1>1, <1>2, <2>1, <2>4, <2>6, <2>8 DEF CatalogInv, Underway
<1>4. CASE ~CacheMatches
  <2>1. PICK s : s = RebuildAllSteps(icCat)
    OBVIOUS
  <2>2. icOp' = s \o <<Resume>>
    BY <1>2, <1>4, <2>1 DEF OpenCatalog, Run
  <2>3. Rebuilding(s \o <<Resume>>, icCat) /\ s \o <<Resume>> \in Seq(Range(s \o <<Resume>>))
    BY <1>2, <2>1, RebuildAllIs
  <2> QED BY <1>1, <1>2, <2>2, <2>3 DEF CatalogInv, Underway
<1> QED BY <1>3, <1>4

-----------------------------------------------------------------------------
(* Every step keeps the invariant.                                         *)
LEMMA StepKeeps == ASSUME CatalogInv, ~KillInWrite, [CatalogNext]_icVars PROVE CatalogInv'
<1>1. CASE CatalogStep
  BY <1>1, LifeKeeps, InsertKeeps, CatalogKeeps, RebuildKeeps, RebuildAllKeeps,
     SaveVectorsKeeps, WriteVectorsKeeps, ResumeKeeps DEF CatalogStep
<1>2. CASE \E d \in IndexDefinition : CreateIndex(d)
  BY <1>2, CreateKeeps
<1>3. CASE \E n \in IndexName : DropIndex(n) \/ RebuildVectorIndex(n)
  BY <1>3, DropKeeps, RebuildOneKeeps
<1>4. CASE RebuildVectorIndexes
  BY <1>4, RebuildEveryKeeps
<1>5. CASE \E v \in 1..MaxVersion, S \in SUBSET IndexDefinition :
             InstallIndexCatalog([version |-> v, indexes |-> S])
  BY <1>5, InstallKeeps
<1>6. CASE \E n \in IcNode, v \in StoreValue : Write(n, v)
  BY <1>6, WriteKeeps
<1>7. CASE KillCatalog
  BY <1>7, KillKeeps
<1>8. CASE OpenCatalog
  BY <1>8, OpenKeeps
<1>9. CASE UNCHANGED icVars
  BY <1>9 DEF icVars, CatalogInv
<1> QED BY <1>1, <1>2, <1>3, <1>4, <1>5, <1>6, <1>7, <1>8, <1>9 DEF CatalogNext, StoreValue

(* Between calls each vector index holds exactly the vectors of the store, *)
(* and every stored value fits the catalog in memory and on disk, however  *)
(* schema changes, installs, rebuilds, writes, kills and re-opens follow   *)
(* each other, as long as no kill falls between a write's apply and the    *)
(* save of its cache (a kill there leaves a stale cache the next open      *)
(* accepts).                                                               *)
THEOREM CatalogStaysCurrent ==
  ASSUME ~KillInWrite
  PROVE  CatalogSpec => []CatalogCurrent
<1>1. CatalogInv /\ [CatalogNext]_icVars => CatalogInv'
  BY StepKeeps
<1>2. CatalogInv => CatalogCurrent
  <2>1. SUFFICES ASSUME CatalogInv PROVE CatalogCurrent
    OBVIOUS
  <2>2. CatalogFitsStore
    BY <2>1 DEF CatalogInv, CatalogFitsStore
  <2>3. ASSUME CatalogIdle PROVE icVec = BuildVectorIndexes(icCat)
    BY <2>1, <2>3, IdleSettled DEF VecIs, EntriesOf, NamesOf, BuildVectorIndexes
  <2> QED BY <2>2, <2>3 DEF CatalogCurrent, VectorIndexesCurrent
<1> QED BY <1>1, <1>2, InitInv, PTL DEF CatalogSpec
=============================================================================
