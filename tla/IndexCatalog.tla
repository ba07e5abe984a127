---------------------------- MODULE IndexCatalog ----------------------------
(***************************************************************************)
(* The schema catalog of one server: property indexes, uniqueness          *)
(* constraints and vector indexes, the files that keep them across a       *)
(* restart (indexes/catalog.bin, indexes/vector-cache.bin and              *)
(* indexes/lifecycle.txt), the vector indexes in memory and the writes     *)
(* that are validated against the catalog and maintain the vector indexes. *)
(*                                                                         *)
(* One label and one property are indexed; a node is its value of that     *)
(* property.  A call holds the database mutex from its first to its last   *)
(* step, so calls do not interleave; a kill may fall between any two       *)
(* durable steps of a call, and the next open picks up from the files.     *)
(***************************************************************************)
EXTENDS Naturals, Sequences, FiniteSets, SequencesExt

CONSTANTS
    IndexName,      \* names of indexes and constraints
    IcNode,         \* node ids
    IcValue,        \* values of the indexed property
    VectorValue,    \* the values that are vectors of the indexed dimension
    MaxVersion,     \* bound on the catalog version
    IcKills,        \* bound on the number of kills
    KillInWrite     \* may a kill fall between a write's apply and its cache save?

ASSUME IcAssumption ==
    /\ IsFiniteSet(IndexName)
    /\ MaxVersion \in Nat /\ IcKills \in Nat
    /\ KillInWrite \in BOOLEAN

VARIABLES
    icStore,        \* the materialized store: node -> value, NoIndexValue or NoNode
    icCat,          \* the catalog in memory
    icDiskCat,      \* indexes/catalog.bin
    icVec,          \* PersistentVectorIndexes: name -> (node -> vector)
    icDiskVec,      \* indexes/vector-cache.bin
    icLife,         \* indexes/lifecycle.txt: name -> reported state
    icOp,           \* the steps the running call has left
    icUp,           \* the process runs
    icKilled        \* kills so far

icVars == <<icStore, icCat, icDiskCat, icVec, icDiskVec, icLife, icOp, icUp, icKilled>>

NoNode == "no node"
NoIndexValue == "no value"
VectorKind == {"cosine", "l2"}
IndexDefinition == [name : IndexName, kind : VectorKind \cup {"unique", "property"}]

(* index_lifecycle_status reports "ready" for a name the file lacks. *)
LifecycleState == {"ready", "building", "rebuilding"}

NoCache == [version |-> 0, defs |-> {}, entries |-> <<>>, present |-> FALSE]

VectorDefinitions(cat) == {d \in cat.indexes : d.kind \in VectorKind}

(* The entries insert_definition collects: nodes whose value has the       *)
(* dimension of the index.                                                 *)
VectorEntries(store) ==
    LET members == {n \in IcNode : store[n] \in VectorValue}
    IN  [n \in members |-> store[n]]

BuildVectorIndexes(cat) ==
    [name \in {d.name : d \in VectorDefinitions(cat)} |-> VectorEntries(icStore)]

-----------------------------------------------------------------------------
(* Validation *)

NodesWithValue(store) == {n \in IcNode : store[n] \in IcValue}

UniqueHolds(store) ==
    \A m, n \in NodesWithValue(store) : store[m] = store[n] => m = n

VectorValuesHold(store) == \A n \in NodesWithValue(store) : store[n] \in VectorValue

ValidAgainst(cat, store) ==
    /\ (\E d \in cat.indexes : d.kind = "unique") => UniqueHolds(store)
    /\ VectorDefinitions(cat) # {} => VectorValuesHold(store)

(* validate_index_catalog: no duplicate name, no duplicate constraint. *)
WellFormed(cat) ==
    \A d, e \in cat.indexes :
       (d.name = e.name \/ (d.kind = "unique" /\ e.kind = "unique")) => d = e

(* What add_index_definition refuses before it touches a file. *)
Addable(d) ==
    /\ \A e \in icCat.indexes : e.name # d.name /\ (e.kind = d.kind => d.kind = "property")
    /\ d.kind = "unique" => UniqueHolds(icStore)

-----------------------------------------------------------------------------
(* The durable steps calls are made of *)

Life(name, state) == [step |-> "life", name |-> name, state |-> state]
Insert(d) == [step |-> "insert", def |-> d]
Rebuild(name) == [step |-> "rebuild", name |-> name]
RebuildAll == [step |-> "rebuildAll"]
SaveCatalog(cat) == [step |-> "catalog", cat |-> cat]
SaveVectors == [step |-> "vectors"]
WriteVectors(n) == [step |-> "write", node |-> n]
Resume == [step |-> "resume"]

Run(steps) == icOp' = steps
CatalogIdle == icUp /\ icOp = <<>>
Done == Run(Tail(icOp))
At(step) == icUp /\ icOp # <<>> /\ Head(icOp).step = step

LifeSteps(names, state) ==
    LET order == SetToSeq(names)
    IN  [i \in DOMAIN order |-> Life(order[i], state)]

RebuildSteps(name) ==
    <<Life(name, "rebuilding"), Rebuild(name), SaveVectors, Life(name, "ready")>>

StepLife ==
    /\ At("life")
    /\ icLife' = [icLife EXCEPT ![Head(icOp).name] = Head(icOp).state]
    /\ Done
    /\ UNCHANGED <<icStore, icCat, icDiskCat, icVec, icDiskVec, icUp, icKilled>>

(* validate_existing_vector_index_values may still refuse the index, after *)
(* the state "building" was saved; the call then ends with its error.      *)
StepInsert ==
    /\ At("insert")
    /\ LET d == Head(icOp).def
       IN  \/ /\ d.kind \in VectorKind => VectorValuesHold(icStore)
              /\ icVec' = IF d.kind \in VectorKind
                          THEN [n \in DOMAIN icVec \cup {d.name} |->
                                  IF n = d.name THEN VectorEntries(icStore) ELSE icVec[n]]
                          ELSE icVec
              /\ Done
           \/ /\ d.kind \in VectorKind /\ ~VectorValuesHold(icStore)
              /\ Run(<<>>)
              /\ UNCHANGED icVec
    /\ UNCHANGED <<icStore, icCat, icDiskCat, icDiskVec, icLife, icUp, icKilled>>

StepCatalog ==
    /\ At("catalog")
    /\ icCat' = Head(icOp).cat
    /\ icDiskCat' = Head(icOp).cat
    /\ icVec' = [n \in DOMAIN icVec \cap {d.name : d \in VectorDefinitions(icCat')} |-> icVec[n]]
    /\ Done
    /\ UNCHANGED <<icStore, icDiskVec, icLife, icUp, icKilled>>

StepRebuild ==
    /\ At("rebuild")
    /\ icVec' = [n \in DOMAIN icVec \cup {Head(icOp).name} |->
                   IF n = Head(icOp).name THEN VectorEntries(icStore) ELSE icVec[n]]
    /\ Done
    /\ UNCHANGED <<icStore, icCat, icDiskCat, icDiskVec, icLife, icUp, icKilled>>

StepRebuildAll ==
    /\ At("rebuildAll")
    /\ icVec' = BuildVectorIndexes(icCat)
    /\ Done
    /\ UNCHANGED <<icStore, icCat, icDiskCat, icDiskVec, icLife, icUp, icKilled>>

(* save_vector_index_cache: written whole, synced and renamed; a definition *)
(* with no index in memory is written with no entries.                      *)
CacheFile(vec) ==
    [version |-> icCat.version,
     defs |-> VectorDefinitions(icCat),
     entries |-> [n \in {d.name : d \in VectorDefinitions(icCat)} |->
                    IF n \in DOMAIN vec THEN vec[n] ELSE <<>>],
     present |-> TRUE]

StepSaveVectors ==
    /\ At("vectors")
    /\ icDiskVec' = CacheFile(icVec)
    /\ Done
    /\ UNCHANGED <<icStore, icCat, icDiskCat, icVec, icLife, icUp, icKilled>>

(* update_vector_indexes_for_command after the store has the write. *)
UpdateIndexedNode(index, n) ==
    LET kept == (DOMAIN index) \ {n}
        members == IF icStore[n] \in VectorValue THEN kept \cup {n} ELSE kept
    IN  [m \in members |-> IF m = n THEN icStore[n] ELSE index[m]]

StepWriteVectors ==
    /\ At("write")
    /\ icVec' = [name \in DOMAIN icVec |-> UpdateIndexedNode(icVec[name], Head(icOp).node)]
    /\ icDiskVec' = IF DOMAIN icVec = {} THEN icDiskVec ELSE CacheFile(icVec')
    /\ Done
    /\ UNCHANGED <<icStore, icCat, icDiskCat, icLife, icUp, icKilled>>

(* resume_index_builds: the first name the lifecycle file leaves unfinished *)
(* and the catalog still has; the loop goes on until none is left.          *)
Unfinished == {d \in icCat.indexes : icLife[d.name] \in {"building", "rebuilding"}}

StepResume ==
    /\ At("resume")
    /\ \/ /\ Unfinished = {}
          /\ Done
       \/ \E d \in Unfinished :
             Run((IF d.kind \in VectorKind THEN RebuildSteps(d.name)
                  ELSE <<Life(d.name, "ready")>>) \o icOp)
    /\ UNCHANGED <<icStore, icCat, icDiskCat, icVec, icDiskVec, icLife, icUp, icKilled>>

-----------------------------------------------------------------------------
(* Calls *)

NextVersion(indexes) == [version |-> icCat.version + 1, indexes |-> indexes]

CreateIndex(d) ==
    /\ CatalogIdle /\ icCat.version < MaxVersion
    /\ Addable(d)
    /\ Run(<<Life(d.name, "building"), Insert(d),
             SaveCatalog(NextVersion(icCat.indexes \cup {d})),
             SaveVectors, Life(d.name, "ready")>>)
    /\ UNCHANGED <<icStore, icCat, icDiskCat, icVec, icDiskVec, icLife, icUp, icKilled>>

DropIndex(name) ==
    /\ CatalogIdle /\ icCat.version < MaxVersion
    /\ \E d \in icCat.indexes : d.name = name
    /\ Run(<<SaveCatalog(NextVersion({d \in icCat.indexes : d.name # name})), SaveVectors>>)
    /\ UNCHANGED <<icStore, icCat, icDiskCat, icVec, icDiskVec, icLife, icUp, icKilled>>

RebuildVectorIndex(name) ==
    /\ CatalogIdle
    /\ \E d \in VectorDefinitions(icCat) : d.name = name
    /\ VectorValuesHold(icStore)
    /\ Run(RebuildSteps(name))
    /\ UNCHANGED <<icStore, icCat, icDiskCat, icVec, icDiskVec, icLife, icUp, icKilled>>

RebuildAllSteps(cat) ==
    LET names == {d.name : d \in VectorDefinitions(cat)}
    IN  LifeSteps(names, "rebuilding") \o <<RebuildAll, SaveVectors>> \o LifeSteps(names, "ready")

RebuildVectorIndexes ==
    /\ CatalogIdle
    /\ VectorDefinitions(icCat) # {}
    /\ Run(RebuildAllSteps(icCat))
    /\ UNCHANGED <<icStore, icCat, icDiskCat, icVec, icDiskVec, icLife, icUp, icKilled>>

(* install_index_catalog, with a catalog a peer sends. *)
Installable(cat) ==
    /\ WellFormed(cat)
    /\ cat.version >= icCat.version
    /\ cat # icCat
    /\ ValidAgainst(cat, icStore)

InstallIndexCatalog(cat) ==
    /\ CatalogIdle
    /\ Installable(cat)
    /\ Run(<<SaveCatalog(cat), RebuildAll, SaveVectors>>)
    /\ UNCHANGED <<icStore, icCat, icDiskCat, icVec, icDiskVec, icLife, icUp, icKilled>>

(* append_local_command validates against the catalog and the store, then   *)
(* the entry is logged, committed and applied; a kill before the apply is   *)
(* repaired by the replay of the next open, so the apply is the first step. *)
Accepted(n, v) ==
    ValidAgainst(icCat, [icStore EXCEPT ![n] = v])

Write(n, v) ==
    /\ CatalogIdle
    /\ icStore[n] # v /\ (icStore[n] = NoNode => v \in IcValue)
    /\ Accepted(n, v)
    /\ icStore' = [icStore EXCEPT ![n] = v]
    /\ Run(<<WriteVectors(n)>>)
    /\ UNCHANGED <<icCat, icDiskCat, icVec, icDiskVec, icLife, icUp, icKilled>>

KillCatalog ==
    /\ icUp /\ icKilled < IcKills
    /\ At("write") => KillInWrite
    /\ icUp' = FALSE
    /\ Run(<<>>)
    /\ icKilled' = icKilled + 1
    /\ UNCHANGED <<icStore, icCat, icDiskCat, icVec, icDiskVec, icLife>>

(* Mutant of CacheMatches: any readable cache file is accepted. *)
CacheMatchesMutant == icDiskVec.present

(* load_vector_index_cache accepts the file only for the catalog's version  *)
(* and exactly its vector definitions.                                      *)
CacheMatches ==
    /\ icDiskVec.present
    /\ icDiskVec.version = icDiskCat.version
    /\ icDiskVec.defs = VectorDefinitions(icDiskCat)

OpenCatalog ==
    /\ ~icUp
    /\ icUp' = TRUE
    /\ icCat' = icDiskCat
    /\ IF CacheMatches
       THEN icVec' = icDiskVec.entries /\ Run(<<Resume>>)
       ELSE icVec' = <<>> /\ Run(RebuildAllSteps(icDiskCat) \o <<Resume>>)
    /\ UNCHANGED <<icStore, icDiskCat, icDiskVec, icLife, icKilled>>

CatalogInit ==
    /\ icStore = [n \in IcNode |-> NoNode]
    /\ icCat = [version |-> 0, indexes |-> {}]
    /\ icDiskCat = icCat
    /\ icVec = <<>>
    /\ icDiskVec = NoCache
    /\ icLife = [n \in IndexName |-> "ready"]
    /\ icOp = <<>>
    /\ icUp = TRUE
    /\ icKilled = 0

CatalogStep ==
    \/ StepLife \/ StepInsert \/ StepCatalog \/ StepRebuild \/ StepRebuildAll
    \/ StepSaveVectors \/ StepWriteVectors \/ StepResume

CatalogNext ==
    \/ CatalogStep
    \/ \E d \in IndexDefinition : CreateIndex(d)
    \/ \E n \in IndexName : DropIndex(n) \/ RebuildVectorIndex(n)
    \/ RebuildVectorIndexes
    \/ \E v \in 1..MaxVersion, S \in SUBSET IndexDefinition :
          InstallIndexCatalog([version |-> v, indexes |-> S])
    \/ \E n \in IcNode, v \in IcValue \cup {NoIndexValue, NoNode} : Write(n, v)
    \/ KillCatalog
    \/ OpenCatalog

CatalogSpec == CatalogInit /\ [][CatalogNext]_icVars

-----------------------------------------------------------------------------
(* Between calls the vector indexes in memory are exactly those the catalog *)
(* names, and each holds exactly the nodes whose stored value is a vector   *)
(* of its dimension: a search neither misses a node nor returns a stale or  *)
(* deleted one, however creations, drops, catalog installs, writes, kills   *)
(* and re-opens follow each other.                                          *)
VectorIndexesCurrent ==
    CatalogIdle => icVec = BuildVectorIndexes(icCat)

(* Every index of the catalog accepts every stored value, in memory and on  *)
(* disk: a uniqueness constraint has no duplicate and a vector index no     *)
(* value of another kind, so resume_index_builds, which validates again,    *)
(* can never make an open fail.                                             *)
CatalogFitsStore ==
    ValidAgainst(icCat, icStore) /\ ValidAgainst(icDiskCat, icStore)

\* Both together, at every moment of writes, schema changes and restarts.
CatalogCurrent == VectorIndexesCurrent /\ CatalogFitsStore

=============================================================================
