--------------------------- MODULE ServicesProofs ---------------------------
(***************************************************************************)
(* Services around the shards, for every value of the constants.           *)
(*                                                                         *)
(* Static primary replication over TCP and RDMA: when at most one of the   *)
(* two hazards is present (several proposers, or lost requests and answers *)
(* with attempts to spare), an entry reported as replicated is in the      *)
(* replica's log.                                                          *)
(*                                                                         *)
(* Gossip and the query peers: queries go to the newest address heard.     *)
(*                                                                         *)
(* Replication peers: the node ids they register with never form a loop.   *)
(***************************************************************************)
EXTENDS Channels, PeerStores, FiniteSetTheorems, SequenceTheorems, WellFoundedInduction, TLAPS

-----------------------------------------------------------------------------
\* What the guarantee needs of an instance: no connection fails, or one
\* thread proposes and tries more often than connections fail.
EnoughAttempts(c) ==
    \/ c.faults = 0
    \/ \E t \in ChThread : c.threads = {t} /\ c.attempts > c.faults

ChEntry == [index : Nat, term : Nat, cmd : Nat]
ChPrimaryState == [term : Nat, next : Nat, commit : Nat]
ChReplicaState == [term : Nat, next : Nat, commit : Nat, log : Seq(Nat)]

\* The part of the state that the proof reads has its type.
ChannelTypeOK ==
    /\ {"rdma", "threads", "pieces", "attempts", "faults", "ops", "used"} \subseteq DOMAIN chConf
    /\ chConf.threads \subseteq ChThread
    /\ chConf.attempts \in Nat \ {0}
    /\ chConf.faults \in Nat
    /\ chPrimary \in ChPrimaryState
    /\ chReplica \in ChReplicaState
    /\ chThread \in [ChThread -> [entry : ChEntry, left : Nat]]
    /\ chAcked \subseteq ChEntry

Sending(t) == chThread[t] # NoJob

\* Requests can reach the replica over the endpoint agreed on.
Connects == chEndpoint.kind = "tcp" \/ (chEndpoint.kind = "rdma" /\ RdmaConnects(chConf.rdma))

\* Primary and replica stay in term 1; the replica has the log of a run of
\* indexes without a gap, not beyond the primary's.
TermsOne ==
    /\ chPrimary.term = 1 /\ chReplica.term = 1
    /\ \A t \in ChThread : Sending(t) => chThread[t].entry.term = 1

ReplicaDense == chReplica.next = Len(chReplica.log) + 1 /\ chReplica.next <= chPrimary.next

\* Proposals under way have indexes the primary has given out, each its own.
JobsAllocated ==
    /\ \A t \in ChThread : Sending(t) =>
          /\ t \in chConf.threads
          /\ chThread[t].entry.index > 0 /\ chThread[t].entry.index < chPrimary.next
    /\ \A t, u \in ChThread : Sending(t) /\ Sending(u) /\ t # u =>
          chThread[t].entry.index # chThread[u].entry.index

AckedHeld == \A e \in chAcked : e.index \in 1..Len(chReplica.log) /\ chReplica.log[e.index] = e.cmd

\* Nothing fails: what is under way is beyond what the replica has.
Calm ==
    /\ chConf.faults = 0
    /\ \A t \in ChThread : Sending(t) => chThread[t].entry.index >= chReplica.next

\* One thread: its entry is the primary's last one, it has more attempts left
\* than faults to come, and the replica is at that entry, before or after it.
Alone ==
    \E t \in ChThread :
        /\ chConf.threads = {t}
        /\ chConf.attempts > chConf.faults
        /\ ~Sending(t) => chReplica.next = chPrimary.next
        /\ Sending(t) =>
              /\ chPrimary.next = chThread[t].entry.index + 1
              /\ chThread[t].left > chConf.faults
              /\ chReplica.next \in {chThread[t].entry.index, chThread[t].entry.index + 1}
              /\ chReplica.next = chThread[t].entry.index + 1
                    => chReplica.log[chThread[t].entry.index] = chThread[t].entry.cmd

ConnectedInv == TermsOne /\ ReplicaDense /\ JobsAllocated /\ AckedHeld /\ (Calm \/ Alone)

\* The inductive invariant.
ChannelInv ==
    /\ ChannelTypeOK
    /\ chEndpoint.kind = "rdma" /\ ~RdmaConnects(chConf.rdma) => chAcked = {}
    /\ Connects => ConnectedInv

-----------------------------------------------------------------------------
(* What the operators do to the state of the primary and of the replica.   *)

\* The marker of an idle thread has its type.
LEMMA NoJobType == NoJob \in [entry : ChEntry, left : Nat]
BY DEF NoJob, ChEntry

\* AppendEntry keeps the type of the replica.
LEMMA AppendEntryType ==
    ASSUME NEW r \in ChReplicaState, NEW e \in ChEntry
    PROVE  AppendEntry(r, e) \in ChReplicaState
<1>1. Append(r.log, e.cmd) \in Seq(Nat)
  BY DEF ChReplicaState, ChEntry
<1>2. PICK l \in Seq(Nat) : l = Append(r.log, e.cmd)
  BY <1>1
<1>3. PICK a : a = [r EXCEPT !.term = MaxOf(@, e.term), !.commit = MaxOf(@, e.index)]
  OBVIOUS
<1>4. a \in ChReplicaState
  BY <1>3 DEF MaxOf, ChReplicaState, ChEntry
<1>5. [a EXCEPT !.next = e.index + 1, !.log = Append(@, e.cmd)] \in ChReplicaState
  <2>1. a.log = r.log
    BY <1>3 DEF ChReplicaState
  <2>2. [a EXCEPT !.next = e.index + 1, !.log = l] \in ChReplicaState
    <3>1. PICK n \in Nat : n = e.index + 1
      BY DEF ChEntry
    <3>2. l \in Seq(Nat)
      BY <1>2
    <3>3. [a EXCEPT !.next = n, !.log = l] \in ChReplicaState
      BY <1>4, <3>2 DEF ChReplicaState
    <3> QED BY <3>1, <3>3
  <2>3. [a EXCEPT !.next = e.index + 1, !.log = Append(@, e.cmd)]
            = [a EXCEPT !.next = e.index + 1, !.log = l]
    BY <1>2, <2>1
  <2> QED BY <2>2, <2>3
<1> QED BY <1>3, <1>4, <1>5 DEF AppendEntry

\* AppendEntry within term 1: a gap changes nothing, an index below the next
\* one counts as a repetition, and the next index is appended.
LEMMA AppendEntryDoes ==
    ASSUME NEW r \in ChReplicaState, NEW e \in ChEntry, r.term = 1, e.term = 1,
           NEW q, q = AppendEntry(r, e)
    PROVE  /\ q.term = 1
           /\ AppendAccepted(r, e) <=> e.index <= r.next
           /\ e.index # r.next => q.next = r.next /\ q.log = r.log
           /\ e.index = r.next => q.next = e.index + 1 /\ q.log = Append(r.log, e.cmd)
BY DEF AppendEntry, AppendAccepted, MaxOf, ChReplicaState, ChEntry

\* MarkCommitted within term 1 of an index that was given out.
LEMMA MarkCommittedDoes ==
    ASSUME NEW p \in ChPrimaryState, NEW e \in ChEntry
    PROVE  /\ MarkCommitted(p, e) \in ChPrimaryState
           /\ p.term = 1 /\ e.term = 1 => MarkCommitted(p, e).term = 1
           /\ e.index < p.next => MarkCommitted(p, e).next = p.next
BY DEF MarkCommitted, MaxOf, ChPrimaryState, ChEntry

\* RollbackProposal gives back the last index or nothing.
LEMMA RollbackDoes ==
    ASSUME NEW p \in ChPrimaryState, NEW e \in ChEntry
    PROVE  /\ RollbackProposal(p, e) \in ChPrimaryState
           /\ RollbackProposal(p, e).term = p.term
           /\ \/ RollbackProposal(p, e).next = p.next
              \/ p.next = e.index + 1 /\ RollbackProposal(p, e).next = e.index
BY DEF RollbackProposal, ChPrimaryState, ChEntry

\* An append to a log: its length, its last element and those before it.
LEMMA AppendIs ==
    ASSUME NEW l \in Seq(Nat), NEW c \in Nat
    PROVE  /\ Append(l, c) \in Seq(Nat)
           /\ Len(Append(l, c)) = Len(l) + 1
           /\ Append(l, c)[Len(l) + 1] = c
           /\ \A i \in 1..Len(l) : Append(l, c)[i] = l[i]
OBVIOUS

-----------------------------------------------------------------------------
(* The invariant holds at first.                                           *)

\* A fresh channel, whatever was negotiated.
LEMMA ChannelInitInv ==
    ASSUME ChannelInit, \A c \in ChConf : EnoughAttempts(c)
    PROVE  ChannelInv
<1>1. /\ ChannelTypeOK /\ chAcked = {} /\ TermsOne /\ ReplicaDense /\ JobsAllocated /\ AckedHeld
  <2>1. \A t \in ChThread : ~Sending(t)
    BY DEF ChannelInit, Sending
  <2>2. ChannelTypeOK /\ chAcked = {}
    BY ChConfAssumption, NoJobType DEF ChannelInit, ChannelTypeOK, ChPrimaryState, ChReplicaState, FreshState
  <2>3. TermsOne /\ ReplicaDense /\ JobsAllocated /\ AckedHeld
    BY <2>1 DEF ChannelInit, TermsOne, ReplicaDense, JobsAllocated, AckedHeld, FreshState
  <2> QED BY <2>2, <2>3
<1>2. Calm \/ Alone
  <2>1. EnoughAttempts(chConf)
    BY DEF ChannelInit
  <2>2. \A t \in ChThread : ~Sending(t)
    BY DEF ChannelInit, Sending
  <2>3. chReplica.next = chPrimary.next
    BY DEF ChannelInit, FreshState
  <2> QED BY <2>1, <2>2, <2>3 DEF EnoughAttempts, Calm, Alone
<1> QED BY <1>1, <1>2 DEF ChannelInv, ConnectedInv

-----------------------------------------------------------------------------
(* The steps.                                                              *)

\* A proposal takes the primary's next index.
LEMMA ProposeInv ==
    ASSUME ChannelInv, NEW t \in ChThread, NEW cmd \in 1..MaxPropose, MaxPropose \in Nat, Propose(t, cmd)
    PROVE  ChannelInv'
<1> DEFINE e == [index |-> chPrimary.next, term |-> chPrimary.term, cmd |-> cmd]
<1> DEFINE job == [entry |-> e, left |-> chConf.attempts]
<1>1. /\ chPrimary' = [chPrimary EXCEPT !.next = @ + 1]
      /\ chThread' = [chThread EXCEPT ![t] = job]
      /\ t \in chConf.threads /\ ~Sending(t)
      /\ chConf' = [chConf EXCEPT !.used = @ \cup {cmd}]
      /\ UNCHANGED <<chEndpoint, chReplica, chAcked>>
  BY DEF Propose, AllocateEntry, Sending
<1>2. /\ chConf'.faults = chConf.faults /\ chConf'.threads = chConf.threads
      /\ chConf'.attempts = chConf.attempts /\ chConf'.rdma = chConf.rdma
      /\ DOMAIN chConf' = DOMAIN chConf
  BY <1>1 DEF ChannelInv, ChannelTypeOK
<1>3. job \in [entry : ChEntry, left : Nat] /\ e \in ChEntry /\ job.entry = e /\ job.left = chConf.attempts
  BY DEF ChannelInv, ChannelTypeOK, ChEntry, ChPrimaryState
<1>4. /\ chPrimary' \in ChPrimaryState
      /\ chPrimary'.next = chPrimary.next + 1
      /\ chPrimary'.term = chPrimary.term
  BY <1>1 DEF ChannelInv, ChannelTypeOK, ChPrimaryState
<1>5. /\ chThread' \in [ChThread -> [entry : ChEntry, left : Nat]]
      /\ chThread'[t] = job /\ \A u \in ChThread \ {t} : chThread'[u] = chThread[u]
  BY <1>1, <1>3 DEF ChannelInv, ChannelTypeOK
<1>6. ChannelTypeOK'
  BY <1>1, <1>2, <1>4, <1>5 DEF ChannelInv, ChannelTypeOK
<1>7. ASSUME Connects' PROVE ConnectedInv'
  <2>1. ConnectedInv
    BY <1>1, <1>2, <1>7 DEF Connects, ChannelInv
  <2>2. \A u \in ChThread \ {t} : Sending(u)' <=> Sending(u)
    BY <1>5 DEF Sending
  <2>3. e.index = chPrimary.next /\ e.term = chPrimary.term
    OBVIOUS
  <2>4. chPrimary.next \in Nat /\ chReplica.next \in Nat /\ chReplica.next <= chPrimary.next
    BY <2>1 DEF ChannelInv, ChannelTypeOK, ConnectedInv, ReplicaDense, ChPrimaryState, ChReplicaState
  <2>5. \A u \in ChThread : chThread[u].entry.index \in Nat /\ chThread[u].left \in Nat
    BY DEF ChannelInv, ChannelTypeOK, ChEntry
  <2>11. chPrimary.next > 0
    BY <2>1, <2>4 DEF ConnectedInv, ReplicaDense, ChannelInv, ChannelTypeOK, ChReplicaState
  <2> HIDE DEF e, job
  <2>6. TermsOne'
    BY <1>1, <1>3, <1>4, <1>5, <2>1, <2>2, <2>3 DEF ConnectedInv, TermsOne
  <2>7. ReplicaDense' /\ AckedHeld'
    BY <1>1, <1>4, <2>1, <2>4 DEF ConnectedInv, ReplicaDense, AckedHeld
  <2>8. JobsAllocated'
    <3>1. \A u \in ChThread : Sending(u) => /\ u \in chConf.threads
                                            /\ chThread[u].entry.index > 0
                                            /\ chThread[u].entry.index < chPrimary.next
      BY <2>1 DEF ConnectedInv, JobsAllocated
    <3>2. \A u \in ChThread : Sending(u)' => /\ u \in chConf'.threads
                                             /\ chThread'[u].entry.index > 0
                                             /\ chThread'[u].entry.index < chPrimary'.next
      BY <1>1, <1>2, <1>3, <1>4, <1>5, <2>2, <2>3, <2>4, <2>5, <2>11, <3>1
    <3>3. ASSUME NEW u \in ChThread, NEW v \in ChThread, Sending(u)', Sending(v)', u # v
          PROVE  chThread'[u].entry.index # chThread'[v].entry.index
      BY <1>3, <1>5, <2>1, <2>2, <2>3, <2>4, <2>5, <3>1, <3>3 DEF ConnectedInv, JobsAllocated
    <3> QED BY <3>2, <3>3 DEF JobsAllocated
  <2>9. ASSUME Calm PROVE Calm'
    BY <1>1, <1>2, <1>3, <1>5, <2>2, <2>3, <2>4, <2>9 DEF Calm
  <2>10. ASSUME Alone PROVE Alone'
    <3>1. PICK u \in ChThread : /\ chConf.threads = {u} /\ chConf.attempts > chConf.faults
                                /\ ~Sending(u) => chReplica.next = chPrimary.next
      BY <2>10 DEF Alone
    <3>2. u = t /\ chReplica.next = chPrimary.next
      BY <1>1, <3>1
    <3>3. Sending(t)'
      BY <1>3, <1>5, <2>3, <2>4, <2>11 DEF Sending, NoJob
    <3>4. chThread'[t].entry.index = chPrimary.next /\ chThread'[t].left = chConf.attempts
      BY <1>3, <1>5, <2>3
    <3>5. chReplica' = chReplica /\ chPrimary'.next = chPrimary.next + 1
      BY <1>1, <1>4
    <3> QED BY <1>2, <2>4, <3>1, <3>2, <3>3, <3>4, <3>5 DEF Alone
  <2> QED BY <2>1, <2>6, <2>7, <2>8, <2>9, <2>10 DEF ConnectedInv
<1> QED BY <1>1, <1>2, <1>6, <1>7 DEF ChannelInv

\* What a request that may have arrived does to the replica: its log grows by
\* at most the entry, and only when the entry is the next one.
LEMMA ReplicaGrows ==
    ASSUME ChannelTypeOK, TermsOne, ReplicaDense, NEW t \in ChThread, Sending(t),
           chThread[t].entry.index < chPrimary.next,
           chReplica' \in {chReplica, AppendEntry(chReplica, chThread[t].entry)}
    PROVE  /\ chReplica' \in ChReplicaState
           /\ chReplica'.term = 1
           /\ chReplica'.next = Len(chReplica'.log) + 1 /\ chReplica'.next <= chPrimary.next
           /\ \A i \in 1..Len(chReplica.log) : i \in 1..Len(chReplica'.log)
                                            /\ chReplica'.log[i] = chReplica.log[i]
           /\ \/ chReplica'.next = chReplica.next /\ chReplica'.log = chReplica.log
              \/ /\ chReplica.next = chThread[t].entry.index
                 /\ chReplica'.next = chThread[t].entry.index + 1
                 /\ chReplica'.log[chThread[t].entry.index] = chThread[t].entry.cmd
<1>1. PICK e \in ChEntry : e = chThread[t].entry
  BY DEF ChannelTypeOK
<1>2. PICK r \in ChReplicaState : r = chReplica
  BY DEF ChannelTypeOK
<1>3. e.term = 1 /\ r.term = 1 /\ r.next = Len(r.log) + 1 /\ r.next <= chPrimary.next
  BY <1>1, <1>2 DEF TermsOne, ReplicaDense
<1>4. PICK n \in Nat : n = chPrimary.next
  BY DEF ChannelTypeOK, ChPrimaryState
<1>5. e.index \in Nat /\ e.cmd \in Nat /\ r.log \in Seq(Nat) /\ Len(r.log) \in Nat /\ r.next \in Nat
  BY DEF ChEntry, ChReplicaState
<1>6. CASE chReplica' = r
  BY <1>1, <1>2, <1>3, <1>5, <1>6
<1>7. CASE chReplica' = AppendEntry(r, e)
  <2>1. PICK q : q = AppendEntry(r, e)
    OBVIOUS
  <2>2. q \in ChReplicaState
    BY <2>1, AppendEntryType
  <2>3. /\ q.term = 1
        /\ e.index # r.next => q.next = r.next /\ q.log = r.log
        /\ e.index = r.next => q.next = e.index + 1 /\ q.log = Append(r.log, e.cmd)
    BY <1>3, <2>1, AppendEntryDoes
  <2>4. CASE e.index # r.next
    BY <1>1, <1>2, <1>3, <1>5, <1>7, <2>1, <2>2, <2>3, <2>4
  <2>5. CASE e.index = r.next
    <3>1. q.next = e.index + 1 /\ q.log = Append(r.log, e.cmd)
      BY <2>3, <2>5
    <3>2. /\ Len(q.log) = Len(r.log) + 1 /\ q.log[Len(r.log) + 1] = e.cmd
          /\ \A i \in 1..Len(r.log) : q.log[i] = r.log[i]
      BY <1>5, <3>1, AppendIs
    <3>3. e.index = Len(r.log) + 1 /\ e.index + 1 <= n
      BY <1>1, <1>3, <1>4, <1>5, <2>5
    <3> QED BY <1>1, <1>2, <1>3, <1>4, <1>5, <1>7, <2>1, <2>2, <2>3, <2>5, <3>1, <3>2, <3>3
  <2> QED BY <2>4, <2>5
<1> QED BY <1>1, <1>2, <1>6, <1>7

\* What an exchange leaves of the instance.
LEMMA ExchangeConf ==
    ASSUME ChannelTypeOK, NEW t \in ChThread, NEW arrives \in BOOLEAN, NEW answered \in BOOLEAN,
           Exchange(t, arrives, answered)
    PROVE  /\ DOMAIN chConf' = DOMAIN chConf
           /\ chConf'.threads = chConf.threads /\ chConf'.attempts = chConf.attempts
           /\ chConf'.rdma = chConf.rdma
           /\ chConf'.faults \in Nat
           /\ answered => chConf'.faults = chConf.faults
           /\ ~answered => chConf.faults > 0 /\ chConf'.faults = chConf.faults - 1
BY DEF Exchange, ChannelTypeOK

\* The threads other than t keep their jobs.
OthersKeep(t) == \A u \in ChThread \ {t} : chThread'[u] = chThread[u]

\* How a proposal goes on: it ends, or one attempt is used up.
LEMMA JobSteps ==
    ASSUME ChannelTypeOK, NEW t \in ChThread, Sending(t)
    PROVE  /\ Committed(t) =>
                /\ chThread' \in [ChThread -> [entry : ChEntry, left : Nat]]
                /\ ~Sending(t)' /\ OthersKeep(t)
           /\ RetryOrFail(t) /\ chThread[t].left > 1 =>
                /\ chThread' \in [ChThread -> [entry : ChEntry, left : Nat]]
                /\ chThread'[t].entry = chThread[t].entry /\ chThread'[t].left = chThread[t].left - 1
                /\ OthersKeep(t) /\ chPrimary' = chPrimary /\ chAcked' = chAcked
           /\ RetryOrFail(t) /\ ~(chThread[t].left > 1) =>
                /\ chThread' \in [ChThread -> [entry : ChEntry, left : Nat]]
                /\ ~Sending(t)' /\ OthersKeep(t) /\ chAcked' = chAcked
                /\ chPrimary' = RollbackProposal(chPrimary, chThread[t].entry)
<1>1. ASSUME chThread' = [chThread EXCEPT ![t] = NoJob]
      PROVE  chThread' \in [ChThread -> [entry : ChEntry, left : Nat]] /\ ~Sending(t)' /\ OthersKeep(t)
  BY <1>1, NoJobType DEF ChannelTypeOK, Sending, OthersKeep
<1>2. ASSUME RetryOrFail(t), chThread[t].left > 1
      PROVE  /\ chThread' \in [ChThread -> [entry : ChEntry, left : Nat]]
             /\ chThread'[t].entry = chThread[t].entry /\ chThread'[t].left = chThread[t].left - 1
             /\ OthersKeep(t) /\ chPrimary' = chPrimary /\ chAcked' = chAcked
  <2>1. PICK j \in [entry : ChEntry, left : Nat] : j = chThread[t]
    BY DEF ChannelTypeOK
  <2>2. chThread' = [chThread EXCEPT ![t] = [j EXCEPT !.left = @ - 1]] /\ chPrimary' = chPrimary /\ chAcked' = chAcked
    BY <1>2, <2>1 DEF RetryOrFail, ChannelTypeOK
  <2>3. PICK k : k = [j EXCEPT !.left = @ - 1]
    OBVIOUS
  <2>4. k \in [entry : ChEntry, left : Nat] /\ k.entry = j.entry /\ k.left = j.left - 1
    BY <1>2, <2>1, <2>3
  <2> QED BY <2>1, <2>2, <2>3, <2>4 DEF ChannelTypeOK, OthersKeep
<1>3. RetryOrFail(t) /\ ~(chThread[t].left > 1) => Failed(t)
  BY DEF RetryOrFail
<1> QED BY <1>1, <1>2, <1>3 DEF Committed, Failed

\* The common part of every outcome of an exchange: the proposal goes on or
\* ends, and its index is kept or, when the replica does not have it, given
\* back.
LEMMA OutcomeKeeps ==
    ASSUME ChannelTypeOK, ChannelTypeOK', ConnectedInv, NEW t \in ChThread, Sending(t), OthersKeep(t),
           chConf'.threads = chConf.threads,
           chReplica' \in {chReplica, AppendEntry(chReplica, chThread[t].entry)},
           chPrimary'.term = 1,
           ~Sending(t)' \/ chThread'[t].entry = chThread[t].entry,
           \/ chAcked' = chAcked
           \/ /\ chAcked' = chAcked \cup {chThread[t].entry}
              /\ chThread[t].entry.index \in 1..Len(chReplica'.log)
              /\ chReplica'.log[chThread[t].entry.index] = chThread[t].entry.cmd,
           \/ chPrimary'.next = chPrimary.next
           \/ /\ chPrimary.next = chThread[t].entry.index + 1
              /\ chPrimary'.next = chThread[t].entry.index
              /\ ~Sending(t)' /\ chReplica'.next <= chThread[t].entry.index
    PROVE  TermsOne' /\ ReplicaDense' /\ JobsAllocated' /\ AckedHeld'
<1>1. TermsOne /\ ReplicaDense /\ JobsAllocated /\ AckedHeld
  BY DEF ConnectedInv
<1>2. /\ chThread[t].entry.index > 0 /\ chThread[t].entry.index < chPrimary.next
      /\ t \in chConf.threads
  BY <1>1 DEF JobsAllocated
<1>3. /\ chReplica'.term = 1
      /\ chReplica'.next = Len(chReplica'.log) + 1 /\ chReplica'.next <= chPrimary.next
      /\ \A i \in 1..Len(chReplica.log) : i \in 1..Len(chReplica'.log)
                                       /\ chReplica'.log[i] = chReplica.log[i]
  BY <1>1, <1>2, ReplicaGrows
<1>4. \A u \in ChThread : chThread[u].entry.index \in Nat
  BY DEF ChannelTypeOK, ChEntry
<1>5. \A u \in ChThread \ {t} : chThread'[u] = chThread[u] /\ (Sending(u)' <=> Sending(u))
  BY DEF OthersKeep, Sending
<1>6. TermsOne'
  BY <1>1, <1>3, <1>5 DEF TermsOne
<1>7. ReplicaDense'
  BY <1>3 DEF ReplicaDense
<1>8. AckedHeld'
  BY <1>1, <1>3 DEF AckedHeld
<1>9. JobsAllocated'
  <2>1. PICK n \in Nat : n = chPrimary.next
    BY DEF ChannelTypeOK, ChPrimaryState
  <2>2. PICK i \in Nat : i = chThread[t].entry.index
    BY <1>4
  <2>3. \A u \in ChThread \ {t} : Sending(u) => /\ u \in chConf.threads
                                                /\ chThread[u].entry.index > 0
                                                /\ chThread[u].entry.index < n
                                                /\ chThread[u].entry.index # i
    BY <1>1, <2>1, <2>2 DEF JobsAllocated
  <2>4. \A u \in ChThread : Sending(u)' => /\ u \in chConf'.threads
                                           /\ chThread'[u].entry.index > 0
                                           /\ chThread'[u].entry.index < chPrimary'.next
    BY <1>2, <1>4, <1>5, <2>1, <2>2, <2>3
  <2>5. ASSUME NEW u \in ChThread, NEW v \in ChThread, Sending(u)', Sending(v)', u # v
        PROVE  chThread'[u].entry.index # chThread'[v].entry.index
    BY <1>1, <1>5, <2>2, <2>3, <2>5 DEF JobsAllocated
  <2> QED BY <2>4, <2>5 DEF JobsAllocated
<1> QED BY <1>6, <1>7, <1>8, <1>9

\* An exchange in which no connection fails and several threads may propose.
LEMMA CalmExchange ==
    ASSUME ChannelTypeOK, ConnectedInv, Calm, NEW t \in ChThread, NEW arrives \in BOOLEAN,
           NEW answered \in BOOLEAN, Exchange(t, arrives, answered)
    PROVE  ChannelTypeOK' /\ ConnectedInv'
<1>1. /\ answered /\ arrives /\ Sending(t) /\ chConf'.faults = 0
      /\ chReplica' = AppendEntry(chReplica, chThread[t].entry)
  BY ExchangeConf DEF Exchange, Sending, Calm
<1>2. PICK e \in ChEntry : e = chThread[t].entry
  BY DEF ChannelTypeOK
<1>3. /\ e.index < chPrimary.next /\ chReplica.next <= e.index /\ e.term = 1 /\ chReplica.term = 1
      /\ chPrimary.term = 1 /\ TermsOne /\ ReplicaDense
  BY <1>1, <1>2 DEF ConnectedInv, JobsAllocated, Calm, TermsOne
<1>4. /\ chReplica' \in ChReplicaState
      /\ chReplica'.term = 1
      /\ chReplica'.next = Len(chReplica'.log) + 1
      /\ \/ chReplica'.next = chReplica.next /\ chReplica'.log = chReplica.log
         \/ /\ chReplica.next = e.index
            /\ chReplica'.next = e.index + 1
            /\ chReplica'.log[e.index] = e.cmd
  BY <1>1, <1>2, <1>3, ReplicaGrows
<1>5. /\ chPrimary \in ChPrimaryState /\ chReplica \in ChReplicaState
      /\ e.index \in Nat /\ chReplica.next \in Nat /\ chPrimary.next \in Nat /\ chReplica'.next \in Nat
      /\ Len(chReplica'.log) \in Nat
  BY <1>4 DEF ChannelTypeOK, ChPrimaryState, ChReplicaState, ChEntry
<1>6. /\ DOMAIN chConf' = DOMAIN chConf /\ chConf'.threads = chConf.threads
      /\ chConf'.attempts = chConf.attempts /\ chConf'.faults \in Nat
  BY ExchangeConf
<1>7. \A u \in ChThread \ {t} : Sending(u) => chThread[u].entry.index >= chReplica'.next
  <2>1. \A u \in ChThread \ {t} : Sending(u) =>
            chThread[u].entry.index >= chReplica.next /\ chThread[u].entry.index # e.index
    BY <1>1, <1>2 DEF Calm, ConnectedInv, JobsAllocated
  <2>2. \A u \in ChThread : chThread[u].entry.index \in Nat
    BY DEF ChannelTypeOK, ChEntry
  <2> QED BY <1>4, <1>5, <2>1, <2>2
<1>8. CASE AppendAccepted(chReplica, e)
  <2>1. Committed(t)
    BY <1>1, <1>2, <1>8 DEF Exchange
  <2>2. /\ chThread' \in [ChThread -> [entry : ChEntry, left : Nat]]
        /\ ~Sending(t)' /\ OthersKeep(t)
    BY <1>1, <2>1, JobSteps
  <2>3. chPrimary' = MarkCommitted(chPrimary, e) /\ chAcked' = chAcked \cup {e}
    BY <1>2, <2>1 DEF Committed
  <2>4. chPrimary' \in ChPrimaryState /\ chPrimary'.term = 1 /\ chPrimary'.next = chPrimary.next
    BY <1>3, <1>5, <2>3, MarkCommittedDoes
  <2>5. ChannelTypeOK'
    BY <1>4, <1>6, <2>2, <2>3, <2>4 DEF ChannelTypeOK
  <2>6. e.index = chReplica.next
    <3>1. AppendAccepted(chReplica, e) <=> e.index <= chReplica.next
      BY <1>3, <1>5, AppendEntryDoes
    <3> QED BY <1>3, <1>5, <1>8, <3>1
  <2>7. e.index \in 1..Len(chReplica'.log) /\ chReplica'.log[e.index] = e.cmd
    <3>1. chReplica'.next = e.index + 1 /\ chReplica'.log = Append(chReplica.log, e.cmd)
      BY <1>1, <1>2, <1>3, <1>5, <2>6, AppendEntryDoes
    <3>2. chReplica.next > 0
      BY <1>3, <1>5 DEF ReplicaDense, ChReplicaState
    <3> QED BY <1>4, <1>5, <2>6, <3>1, <3>2
  <2>8. TermsOne' /\ ReplicaDense' /\ JobsAllocated' /\ AckedHeld'
    BY <1>1, <1>2, <1>6, <2>2, <2>3, <2>4, <2>5, <2>7, OutcomeKeeps
  <2>9. Calm'
    BY <1>1, <1>7, <2>2 DEF Calm, OthersKeep, Sending
  <2> QED BY <2>5, <2>8, <2>9 DEF ConnectedInv
<1>9. CASE ~AppendAccepted(chReplica, e)
  <2>1. RetryOrFail(t)
    BY <1>1, <1>2, <1>9 DEF Exchange
  <2>2. chReplica' = chReplica
    BY <1>1, <1>2, <1>9 DEF AppendEntry
  <2>3. CASE chThread[t].left > 1
    <3>1. /\ chThread' \in [ChThread -> [entry : ChEntry, left : Nat]]
          /\ chThread'[t].entry = chThread[t].entry
          /\ OthersKeep(t) /\ chPrimary' = chPrimary /\ chAcked' = chAcked
      BY <1>1, <2>1, <2>3, JobSteps
    <3>2. ChannelTypeOK'
      BY <1>4, <1>6, <3>1 DEF ChannelTypeOK
    <3>3. TermsOne' /\ ReplicaDense' /\ JobsAllocated' /\ AckedHeld'
      BY <1>1, <1>3, <1>6, <2>2, <3>1, <3>2, OutcomeKeeps
    <3>4. Calm'
      BY <1>1, <1>2, <1>3, <1>7, <2>2, <3>1 DEF Calm, OthersKeep, Sending
    <3> QED BY <3>2, <3>3, <3>4 DEF ConnectedInv
  <2>4. CASE ~(chThread[t].left > 1)
    <3>1. /\ chThread' \in [ChThread -> [entry : ChEntry, left : Nat]]
          /\ ~Sending(t)' /\ OthersKeep(t) /\ chAcked' = chAcked
          /\ chPrimary' = RollbackProposal(chPrimary, e)
      BY <1>1, <1>2, <2>1, <2>4, JobSteps
    <3>2. /\ chPrimary' \in ChPrimaryState /\ chPrimary'.term = 1
          /\ \/ chPrimary'.next = chPrimary.next
             \/ chPrimary.next = e.index + 1 /\ chPrimary'.next = e.index
      BY <1>3, <1>5, <3>1, RollbackDoes
    <3>3. ChannelTypeOK'
      BY <1>4, <1>6, <3>1, <3>2 DEF ChannelTypeOK
    <3>4. TermsOne' /\ ReplicaDense' /\ JobsAllocated' /\ AckedHeld'
      <4>1. chReplica'.next <= e.index
        BY <1>3, <2>2
      <4>2. \/ chPrimary'.next = chPrimary.next
            \/ /\ chPrimary.next = chThread[t].entry.index + 1
               /\ chPrimary'.next = chThread[t].entry.index
               /\ ~Sending(t)' /\ chReplica'.next <= chThread[t].entry.index
        BY <1>2, <3>1, <3>2, <4>1
      <4> QED BY <1>1, <1>6, <3>1, <3>2, <3>3, <4>2, OutcomeKeeps
    <3>5. Calm'
      BY <1>1, <1>7, <3>1 DEF Calm, OthersKeep, Sending
    <3> QED BY <3>3, <3>4, <3>5 DEF ConnectedInv
  <2> QED BY <2>3, <2>4
<1> QED BY <1>8, <1>9

\* An exchange of the only thread: a lost request or answer uses up a fault
\* and an attempt, so the proposal never runs out of attempts, and the answer
\* that comes finds its own entry at its index.
LEMMA AloneExchange ==
    ASSUME ChannelTypeOK, ConnectedInv, Alone, NEW t \in ChThread, NEW arrives \in BOOLEAN,
           NEW answered \in BOOLEAN, Exchange(t, arrives, answered)
    PROVE  ChannelTypeOK' /\ ConnectedInv'
<1>1. /\ Sending(t)
      /\ chReplica' \in {chReplica, AppendEntry(chReplica, chThread[t].entry)}
      /\ answered => chReplica' = AppendEntry(chReplica, chThread[t].entry)
  BY DEF Exchange, Sending
<1>2. PICK e \in ChEntry : e = chThread[t].entry
  BY DEF ChannelTypeOK
<1>3. /\ e.index > 0 /\ e.index < chPrimary.next
      /\ e.term = 1 /\ chReplica.term = 1 /\ t \in chConf.threads
      /\ chPrimary.term = 1 /\ TermsOne /\ ReplicaDense
  BY <1>1, <1>2 DEF ConnectedInv, JobsAllocated, TermsOne
<1>4. /\ chConf.threads = {t} /\ chConf.attempts > chConf.faults
      /\ chPrimary.next = e.index + 1
      /\ chThread[t].left > chConf.faults
      /\ chReplica.next \in {e.index, e.index + 1}
      /\ chReplica.next = e.index + 1 => chReplica.log[e.index] = e.cmd
  <2>1. PICK u \in ChThread :
           /\ chConf.threads = {u} /\ chConf.attempts > chConf.faults
           /\ Sending(u) =>
                 /\ chPrimary.next = chThread[u].entry.index + 1
                 /\ chThread[u].left > chConf.faults
                 /\ chReplica.next \in {chThread[u].entry.index, chThread[u].entry.index + 1}
                 /\ chReplica.next = chThread[u].entry.index + 1
                       => chReplica.log[chThread[u].entry.index] = chThread[u].entry.cmd
    BY DEF Alone
  <2>2. u = t
    BY <1>3, <2>1
  <2> QED BY <1>1, <1>2, <2>1, <2>2
<1>5. /\ chReplica' \in ChReplicaState
      /\ chReplica'.next = Len(chReplica'.log) + 1
      /\ \/ chReplica'.next = chReplica.next /\ chReplica'.log = chReplica.log
         \/ /\ chReplica.next = e.index
            /\ chReplica'.next = e.index + 1
            /\ chReplica'.log[e.index] = e.cmd
  BY <1>1, <1>2, <1>3, ReplicaGrows
<1>6. /\ chPrimary \in ChPrimaryState /\ chReplica \in ChReplicaState
      /\ e.index \in Nat /\ chReplica.next \in Nat /\ chPrimary.next \in Nat /\ chReplica'.next \in Nat
      /\ Len(chReplica'.log) \in Nat
      /\ chConf.faults \in Nat /\ chConf.attempts \in Nat /\ chThread[t].left \in Nat
  <2>1. /\ chPrimary \in ChPrimaryState /\ chReplica \in ChReplicaState
        /\ chConf.faults \in Nat /\ chConf.attempts \in Nat /\ chThread[t].left \in Nat
    BY DEF ChannelTypeOK
  <2> QED BY <1>5, <2>1 DEF ChPrimaryState, ChReplicaState, ChEntry
<1>7. /\ DOMAIN chConf' = DOMAIN chConf /\ chConf'.threads = chConf.threads
      /\ chConf'.attempts = chConf.attempts /\ chConf'.faults \in Nat
      /\ answered => chConf'.faults = chConf.faults
      /\ ~answered => chConf.faults > 0 /\ chConf'.faults = chConf.faults - 1
  BY ExchangeConf
<1>8. CASE answered
  <2>1. AppendAccepted(chReplica, e)
    <3>1. AppendAccepted(chReplica, e) <=> e.index <= chReplica.next
      BY <1>3, <1>6, AppendEntryDoes
    <3> QED BY <1>4, <1>6, <3>1
  <2>2. Committed(t)
    BY <1>2, <1>8, <2>1 DEF Exchange
  <2>3. /\ chThread' \in [ChThread -> [entry : ChEntry, left : Nat]]
        /\ ~Sending(t)' /\ OthersKeep(t)
    BY <1>1, <2>2, JobSteps
  <2>4. chPrimary' = MarkCommitted(chPrimary, e) /\ chAcked' = chAcked \cup {e}
    BY <1>2, <2>2 DEF Committed
  <2>5. chPrimary' \in ChPrimaryState /\ chPrimary'.term = 1 /\ chPrimary'.next = chPrimary.next
    BY <1>3, <1>6, <2>4, MarkCommittedDoes
  <2>6. ChannelTypeOK'
    BY <1>5, <1>7, <2>3, <2>4, <2>5 DEF ChannelTypeOK
  <2>7. chReplica'.next = e.index + 1 /\ chReplica'.log[e.index] = e.cmd
    <3>1. chReplica.next = e.index => chReplica'.next = e.index + 1
      BY <1>1, <1>2, <1>3, <1>6, <1>8, AppendEntryDoes
    <3> QED BY <1>4, <1>5, <1>6, <3>1
  <2>8. e.index \in 1..Len(chReplica'.log)
    BY <1>3, <1>5, <1>6, <2>7
  <2>9. TermsOne' /\ ReplicaDense' /\ JobsAllocated' /\ AckedHeld'
    BY <1>1, <1>2, <1>7, <2>3, <2>4, <2>5, <2>6, <2>7, <2>8, OutcomeKeeps
  <2>10. Alone'
    BY <1>4, <1>7, <1>8, <2>3, <2>5, <2>7 DEF Alone
  <2> QED BY <2>6, <2>9, <2>10 DEF ConnectedInv
<1>9. CASE ~answered
  <2>1. RetryOrFail(t) /\ chThread[t].left > 1
    BY <1>4, <1>6, <1>7, <1>9 DEF Exchange
  <2>2. /\ chThread' \in [ChThread -> [entry : ChEntry, left : Nat]]
        /\ chThread'[t].entry = chThread[t].entry /\ chThread'[t].left = chThread[t].left - 1
        /\ OthersKeep(t) /\ chPrimary' = chPrimary /\ chAcked' = chAcked
    BY <1>1, <2>1, JobSteps
  <2>3. ChannelTypeOK'
    BY <1>5, <1>7, <2>2 DEF ChannelTypeOK
  <2>4. TermsOne' /\ ReplicaDense' /\ JobsAllocated' /\ AckedHeld'
    BY <1>1, <1>3, <1>7, <2>2, <2>3, OutcomeKeeps
  <2>5. Sending(t)'
    <3>1. chThread'[t].left > 0
      BY <1>6, <2>1, <2>2
    <3> QED BY <3>1 DEF Sending, NoJob
  <2>6. Alone'
    <3>1. chThread'[t].left > chConf'.faults /\ chConf'.attempts > chConf'.faults
      BY <1>4, <1>6, <1>7, <1>9, <2>2
    <3>2. /\ chPrimary'.next = chThread'[t].entry.index + 1
          /\ chReplica'.next \in {chThread'[t].entry.index, chThread'[t].entry.index + 1}
          /\ chReplica'.next = chThread'[t].entry.index + 1
                => chReplica'.log[chThread'[t].entry.index] = chThread'[t].entry.cmd
      BY <1>2, <1>4, <1>5, <1>6, <2>2
    <3> QED BY <1>4, <1>7, <2>5, <3>1, <3>2 DEF Alone
  <2> QED BY <2>3, <2>4, <2>6 DEF ConnectedInv
<1> QED BY <1>8, <1>9

\* Any exchange over a connection.
LEMMA ExchangeInv ==
    ASSUME ChannelInv, Connects, NEW t \in ChThread, NEW arrives \in BOOLEAN,
           NEW answered \in BOOLEAN, Exchange(t, arrives, answered)
    PROVE  ChannelInv'
<1>1. ChannelTypeOK /\ ConnectedInv
  BY DEF ChannelInv
<1>2. ChannelTypeOK' /\ ConnectedInv'
  BY <1>1, CalmExchange, AloneExchange DEF ConnectedInv
<1>3. chEndpoint' = chEndpoint /\ chConf'.rdma = chConf.rdma
  BY <1>1, ExchangeConf DEF Exchange
<1> QED BY <1>2, <1>3 DEF ChannelInv, Connects

\* A step that ends or goes on with a proposal that no replica can be reached
\* for keeps what is left of the invariant.
LEMMA UnconnectedInv ==
    ASSUME ChannelInv, ~Connects, NEW t \in ChThread, Sending(t), UNCHANGED <<chConf, chEndpoint, chReplica>>,
           RetryOrFail(t) \/ Failed(t) \/ (chEndpoint.kind = "udp" /\ Committed(t))
    PROVE  ChannelInv'
<1>1. chThread[t].entry \in ChEntry /\ chPrimary \in ChPrimaryState /\ chAcked \subseteq ChEntry
  BY DEF ChannelInv, ChannelTypeOK
<1>2. /\ chThread' \in [ChThread -> [entry : ChEntry, left : Nat]]
      /\ chPrimary' \in ChPrimaryState
      /\ chAcked' \subseteq ChEntry
      /\ chEndpoint.kind # "udp" => chAcked' = chAcked
  <2>1. CASE RetryOrFail(t)
    <3>1. CASE chThread[t].left > 1
      BY <1>1, <2>1, <3>1, JobSteps DEF ChannelInv
    <3>2. CASE ~(chThread[t].left > 1)
      BY <1>1, <2>1, <3>2, JobSteps, RollbackDoes DEF ChannelInv
    <3> QED BY <3>1, <3>2
  <2>2. CASE Failed(t)
    BY <1>1, <2>2, NoJobType, RollbackDoes DEF Failed, ChannelInv, ChannelTypeOK
  <2>3. CASE chEndpoint.kind = "udp" /\ Committed(t)
    BY <1>1, <2>3, NoJobType, MarkCommittedDoes DEF Committed, ChannelInv, ChannelTypeOK
  <2> QED BY <2>1, <2>2, <2>3
<1>3. ChannelTypeOK'
  BY <1>2 DEF ChannelInv, ChannelTypeOK
<1> QED BY <1>2, <1>3 DEF ChannelInv, Connects

\* The steps of the UDP receiver, of control requests and of heartbeats touch
\* nothing the invariant reads.
LEMMA UntouchedInv ==
    ASSUME ChannelInv, UNCHANGED <<chConf, chEndpoint, chPrimary, chReplica, chThread, chAcked>>
    PROVE  ChannelInv'
<1>1. ChannelTypeOK'
  BY DEF ChannelInv, ChannelTypeOK
<1>2. ConnectedInv => ConnectedInv'
  BY DEF ConnectedInv, TermsOne, ReplicaDense, JobsAllocated, AckedHeld, Calm, Alone, Sending
<1> QED BY <1>1, <1>2 DEF ChannelInv, Connects

-----------------------------------------------------------------------------
\* Static primary replication (replication.rs, propose and the channels'
\* send): over TCP or RDMA, an entry that its proposer was told is replicated
\* is in the replica's log under its index with its command, for any number
\* of threads when no connection fails, and for one proposing thread under
\* any pattern of lost requests and answers that leaves it an attempt.
THEOREM AckedReplicated ==
    ASSUME MaxPropose \in Nat, \A c \in ChConf : EnoughAttempts(c)
    PROVE  ChannelSpec => []AckedIsReplicated
<1>1. ChannelInit => ChannelInv
  BY ChannelInitInv
<1>2. ChannelInv /\ [ChannelNext]_chVars => ChannelInv'
  <2> SUFFICES ASSUME ChannelInv, [ChannelNext]_chVars PROVE ChannelInv'
    OBVIOUS
  <2>1. ASSUME NEW t \in ChThread, NEW cmd \in 1..MaxPropose, Propose(t, cmd) PROVE ChannelInv'
    BY <2>1, ProposeInv
  <2>2. ASSUME NEW t \in ChThread, NEW arrives \in BOOLEAN, NEW answered \in BOOLEAN,
               SendOverTcp(t, arrives, answered) \/ SendOverRdma(t, arrives, answered)
        PROVE  ChannelInv'
    <3>1. Connects /\ Exchange(t, arrives, answered)
      BY <2>2 DEF SendOverTcp, SendOverRdma, Connects
    <3> QED BY <3>1, ExchangeInv
  <2>3. ASSUME NEW t \in ChThread, RdmaCannotConnect(t) PROVE ChannelInv'
    BY <2>3, UnconnectedInv DEF RdmaCannotConnect, Connects, Sending
  <2>4. ASSUME NEW t \in ChThread, SendOverUdp(t) PROVE ChannelInv'
    BY <2>4, UnconnectedInv DEF SendOverUdp, Connects, Sending
  <2>5. ASSUME NEW t \in ChThread, SendOverUnsupported(t) PROVE ChannelInv'
    BY <2>5, UnconnectedInv DEF SendOverUnsupported, Connects, Sending
  <2>6. ASSUME NEW w \in chUdp.net, ReceiveFrame(w) PROVE ChannelInv'
    BY <2>6, UntouchedInv DEF ReceiveFrame
  <2>7. ASSUME NEW kind \in {"append", "vote", "preVote", "snapshot"}, SendControlOverUdp(kind) PROVE ChannelInv'
    BY <2>7, UntouchedInv DEF SendControlOverUdp
  <2>8. ASSUME SendRaftHeartbeats PROVE ChannelInv'
    BY <2>8, UntouchedInv DEF SendRaftHeartbeats
  <2>9. ASSUME UNCHANGED chVars PROVE ChannelInv'
    BY <2>9, UntouchedInv DEF chVars
  <2> QED BY <2>1, <2>2, <2>3, <2>4, <2>5, <2>6, <2>7, <2>8, <2>9 DEF ChannelNext
<1>3. ChannelInv => AckedIsReplicated
  <2> SUFFICES ASSUME ChannelInv, Reliable(chEndpoint.kind), NEW e \in chAcked
               PROVE  e.index \in DOMAIN chReplica.log /\ chReplica.log[e.index] = e.cmd
    BY DEF AckedIsReplicated
  <2>1. Connects
    BY DEF ChannelInv, Connects, Reliable
  <2>2. e.index \in 1..Len(chReplica.log) /\ chReplica.log[e.index] = e.cmd
    BY <2>1 DEF ChannelInv, ConnectedInv, AckedHeld
  <2>3. chReplica.log \in Seq(Nat)
    BY DEF ChannelInv, ChannelTypeOK, ChReplicaState
  <2> QED BY <2>2, <2>3
<1> QED BY <1>1, <1>2, <1>3, PTL DEF ChannelSpec

-----------------------------------------------------------------------------
\* What the guarantee needs of an instance: one request at a time edits the
\* tables, no process dies between the gossip table and the query peers, and
\* no administrator sets an address by hand.
OneAtATime == \A c \in PsConf : c.workers = 1 /\ c.kills = 0 /\ "query" \notin c.ops

HomeAddr == CHOOSE a \in PsAddr : TRUE

Heard(s, r) == [server |-> s, inc |-> r.inc, addr |-> r.addr]
IsUpsert(st) == st.do = "upsert"
IsQueryPut(st) == st.do = "put" /\ st.file = "query"

\* The announcements of a request that are yet to be processed.
PendingOf(todo) == {Heard(todo[i].server, todo[i].value) : i \in {j \in 1..Len(todo) : IsUpsert(todo[j])}}

\* Where an announcement comes from: a refresh from a membership that may
\* have changed since, another server, or this one.
FromMembership(x, member) ==
    x.inc <= member.version /\ (x.inc = member.version => x.addr = member.addr[x.server])
FromNetwork(x, net) ==
    /\ x.inc > MaxMembership /\ x.server # PsLocal
    /\ \E m \in net : m.server = x.server /\ m.inc = x.inc /\ m.addr = x.addr
FromHome(x) == x.inc > MaxMembership /\ x.server = PsLocal /\ x.addr = HomeAddr
HasOrigin(x, member, net) ==
    /\ x.server \in PsServer /\ x.inc \in Nat \ {0}
    /\ FromMembership(x, member) \/ FromNetwork(x, net) \/ FromHome(x)

\* Two announcements of a server with one number give one address.
SameAddress(x, y) == x.server = y.server /\ x.inc = y.inc => x.addr = y.addr

\* A step of a request, by what it does.
StepOK(st) ==
    /\ st.server \in PsServer
    /\ \/ IsUpsert(st)
       \/ st.do = "put" /\ st.file \in {"query", "repl", "ident"}
       \/ st.do \in {"endpoint", "hello"}

\* Only the first step may go to the query peers, with what the gossip table has.
TodoOK(todo, gossip) ==
    /\ todo \in Seq(Range(todo))
    /\ \A i \in 1..Len(todo) :
         /\ StepOK(todo[i])
         /\ IsQueryPut(todo[i]) => i = 1 /\ gossip[todo[i].server] # NoNode
                                   /\ todo[i].value = gossip[todo[i].server].addr

\* The address of a server is on its way to the query peers.
OnItsWay(s, todo) == Len(todo) > 0 /\ IsQueryPut(todo[1]) /\ todo[1].server = s

\* The gossip table has the newest announcement, the query peers its address.
Current(s, gossip, query, heard, todo) ==
    IF gossip[s] = NoNode THEN \A x \in heard : x.server # s
    ELSE /\ gossip[s].inc \in Nat /\ Heard(s, gossip[s]) \in heard
         /\ \A x \in heard : x.server = s => x.inc <= gossip[s].inc
         /\ query[s] = gossip[s].addr \/ OnItsWay(s, todo)

MemOK(mem) ==
    /\ mem = [f \in {"query", "gossip", "repl", "ident", "endpoint"} |-> mem[f]]
    /\ mem.query = [s \in PsServer |-> mem.query[s]]
    /\ mem.gossip = [s \in PsServer |-> mem.gossip[s]]

\* The shape of the workers; only one of them has work.
WorkOK(work) ==
    /\ work = [w \in PsWorker |-> [todo |-> work[w].todo, file |-> work[w].file, copy |-> work[w].copy]]
    /\ \A w \in PsWorker : w # 1 => work[w] = NoWork

MemberOK(member) ==
    /\ member.version \in 1..MaxMembership
    /\ member.addr = [s \in PsServer |-> member.addr[s]]

NetOK(net) ==
    /\ \A m \in net : m.inc \in Nat /\ m.inc > MaxMembership /\ m.server \in PsServer /\ m.server # PsLocal
    /\ \A m, n \in net : m.server = n.server /\ m.inc = n.inc => m.addr = n.addr

Known == psHeard \cup PendingOf(psWork[1].todo)

PeerInv ==
    /\ psConf \in PsConf /\ MemOK(psMem) /\ WorkOK(psWork) /\ MemberOK(psMember) /\ NetOK(psNet)
    /\ psClock \in Nat /\ psClock > MaxMembership
    /\ TodoOK(psWork[1].todo, psMem.gossip)
    /\ \A x \in Known : HasOrigin(x, psMember, psNet)
    /\ \A x, y \in Known : SameAddress(x, y)
    /\ \A s \in PsServer : Current(s, psMem.gossip, psMem.query, psHeard, psWork[1].todo)

-----------------------------------------------------------------------------
(* Facts about what is left of a request.                                  *)

\* The first step is taken.
LEMMA RestOf ==
  ASSUME NEW s, s \in Seq(Range(s)), s # <<>>, NEW t, t = Tail(s)
  PROVE  /\ Len(s) \in Nat /\ Len(s) > 0 /\ Head(s) = s[1] /\ Len(t) \in Nat
         /\ \A i \in 1..Len(t) : i + 1 \in 1..Len(s) /\ t[i] = s[i + 1] /\ i + 1 # 1
         /\ t \in Seq(Range(t))
<1>1. PICK S : s \in Seq(S)
  OBVIOUS
<1>2. PICK n \in Nat : n = Len(s)
  BY <1>1
<1>3. n # 0
  BY <1>1, <1>2
<1>4. t \in Seq(S) /\ Len(t) = n - 1 /\ Head(s) = s[1] /\ \A i \in 1..Len(t) : t[i] = s[i + 1]
  BY <1>1, <1>2, <1>3, HeadTailProperties
<1>5. t \in Seq(Range(t))
  BY <1>4, SeqOfRange
<1>6. \A i \in 1..Len(t) : i + 1 \in 1..n /\ i + 1 # 1
  BY <1>2, <1>4
<1> QED BY <1>2, <1>3, <1>4, <1>5, <1>6

Joined(a, t, r) == r = a \o t

\* Steps put before others.
LEMMA Before ==
  ASSUME NEW a, a \in Seq(Range(a)), NEW t, t \in Seq(Range(t)), NEW r, Joined(a, t, r)
  PROVE  /\ r \in Seq(Range(r)) /\ Len(r) \in Nat
         /\ \A i \in 1..Len(r) : \/ i \in 1..Len(a) /\ r[i] = a[i]
                                 \/ i > Len(a) /\ \E j \in 1..Len(t) : r[i] = t[j]
         /\ Len(a) > 0 => Len(r) > 0 /\ r[1] = a[1]
<1>1. PICK S : S = Range(a) \cup Range(t)
  OBVIOUS
<1>2. a \in Seq(S) /\ t \in Seq(S)
  BY <1>1
<1>3. r \in Seq(S)
  BY <1>2, ConcatProperties DEF Joined
<1>4. PICK p \in Nat, q \in Nat : p = Len(a) /\ q = Len(t)
  BY <1>2
<1>5. Len(r) = p + q /\ \A i \in 1..(p + q) : r[i] = IF i <= p THEN a[i] ELSE t[i - p]
  BY <1>2, <1>4, ConcatProperties DEF Joined
<1>6. ASSUME NEW i \in 1..(p + q)
      PROVE  (i \in 1..p /\ r[i] = a[i]) \/ (i > p /\ \E j \in 1..q : r[i] = t[j])
  <2>1. CASE i <= p
    BY <1>4, <1>5, <2>1
  <2>2. CASE ~(i <= p)
    <3>1. i > p /\ i - p \in 1..q
      BY <1>4, <2>2
    <3> QED BY <1>5, <2>2, <3>1
  <2> QED BY <2>1, <2>2
<1>7. ASSUME p > 0 PROVE p + q > 0 /\ r[1] = a[1]
  <2>1. 1 \in 1..(p + q) /\ 1 <= p /\ p + q > 0
    BY <1>4, <1>7
  <2> QED BY <1>5, <2>1
<1>8. r \in Seq(Range(r))
  BY <1>3, SeqOfRange
<1> QED BY <1>4, <1>5, <1>6, <1>7, <1>8

\* What is left has fewer announcements.
LEMMA PendingShrinks ==
  ASSUME NEW s, NEW t, \A i \in 1..Len(t) : \E j \in 1..Len(s) : t[i] = s[j]
  PROVE  PendingOf(t) \subseteq PendingOf(s)
<1>1. SUFFICES ASSUME NEW x \in PendingOf(t) PROVE x \in PendingOf(s)
  OBVIOUS
<1>2. PICK i \in 1..Len(t) : IsUpsert(t[i]) /\ x = Heard(t[i].server, t[i].value)
  BY <1>1 DEF PendingOf
<1>3. PICK j \in 1..Len(s) : t[i] = s[j]
  OBVIOUS
<1> QED BY <1>2, <1>3 DEF PendingOf

\* An announcement of the newest number of its kind has one address.
LEMMA NewestAgrees ==
  ASSUME NEW member, MemberOK(member), NEW net, NetOK(net), NEW x, NEW y,
         HasOrigin(x, member, net), HasOrigin(y, member, net), x.inc >= member.version
  PROVE  SameAddress(x, y) /\ SameAddress(y, x)
<1>1. SUFFICES ASSUME x.server = y.server, x.inc = y.inc PROVE x.addr = y.addr
  BY DEF SameAddress
<1>2. PICK i \in Nat, v \in Nat : i = x.inc /\ v = member.version
  BY DEF HasOrigin, MemberOK
<1>3. i >= v /\ v <= MaxMembership /\ i = y.inc /\ MaxMembership \in Nat
  BY <1>1, <1>2, PsAssumption DEF MemberOK
<1>4. CASE FromMembership(x, member)
  <2>1. i <= v /\ i = v
    BY <1>2, <1>3, <1>4 DEF FromMembership
  <2>2. ~(i > MaxMembership)
    BY <1>3, <2>1
  <2>3. FromMembership(y, member)
    BY <1>3, <2>2 DEF HasOrigin, FromNetwork, FromHome
  <2> QED BY <1>1, <1>2, <1>4, <2>1, <2>3 DEF FromMembership
<1>5. CASE FromNetwork(x, net)
  <2>1. i > MaxMembership /\ x.server # PsLocal
    BY <1>2, <1>5 DEF FromNetwork
  <2>2. ~(i <= v)
    BY <1>3, <2>1
  <2>3. FromNetwork(y, net)
    BY <1>1, <1>2, <1>3, <2>1, <2>2 DEF HasOrigin, FromMembership, FromHome
  <2> QED BY <1>1, <1>5, <2>3 DEF FromNetwork, NetOK
<1>6. CASE FromHome(x)
  <2>1. i > MaxMembership /\ x.server = PsLocal
    BY <1>2, <1>6 DEF FromHome
  <2>2. ~(i <= v)
    BY <1>3, <2>1
  <2>3. FromHome(y)
    BY <1>1, <1>2, <1>3, <2>1, <2>2 DEF HasOrigin, FromMembership, FromNetwork
  <2> QED BY <1>6, <2>3 DEF FromHome
<1> QED BY <1>4, <1>5, <1>6 DEF HasOrigin

-----------------------------------------------------------------------------
(* The invariant, action by action.                                        *)

\* The one worker, and what the instance rules out.
LEMMA TheWorker ==
  ASSUME OneAtATime, psConf \in PsConf
  PROVE  /\ 1 \in PsWorker /\ (\A w \in 1..psConf.workers : w = 1)
         /\ psConf.kills = 0 /\ "query" \notin psConf.ops /\ psConf.peers \subseteq PsServer
<1>1. psConf.workers = 1 /\ psConf.kills = 0 /\ "query" \notin psConf.ops
  BY DEF OneAtATime
<1>2. 1..1 \subseteq PsWorker
  BY <1>1, PsAssumption
<1>3. psConf.peers \subseteq PsServer
  BY PsAssumption
<1> QED BY <1>1, <1>2, <1>3

\* The tables and the workers at the start.
LEMMA PeerInitInv == ASSUME OneAtATime, PeerInit PROVE PeerInv
<1>1. psConf \in PsConf /\ psNet = {} /\ psHeard = {} /\ psClock = MaxMembership + 1
  BY DEF PeerInit
<1>2. 1 \in PsWorker
  BY <1>1, TheWorker
<1>3. psWork = [w \in PsWorker |-> [todo |-> <<>>, file |-> None, copy |-> 0]]
  BY DEF PeerInit, NoWork
<1>4. \A w \in PsWorker : psWork[w].todo = <<>> /\ psWork[w].file = None /\ psWork[w].copy = 0
  BY <1>3
<1>5. WorkOK(psWork)
  BY <1>3, <1>4 DEF WorkOK, NoWork
<1>6. psWork[1].todo = <<>>
  BY <1>2, <1>4
<1>7. PICK todo : todo = psWork[1].todo
  OBVIOUS
<1>8. todo = <<>> /\ Len(todo) = 0 /\ todo \in Seq(Range(todo))
  BY <1>6, <1>7
<1>9. PendingOf(todo) = {} /\ TodoOK(todo, psMem.gossip)
  BY <1>8 DEF PendingOf, TodoOK
<1>10. MemberOK(psMember)
  <2>1. psMember.version = 1 /\ psMember.addr = [s \in PsServer |-> HomeAddr]
    BY DEF PeerInit, HomeAddr
  <2> QED BY <2>1, PsAssumption DEF MemberOK
<1>11. PICK q, g, r, i, e :
         /\ q = LoadPeerStore({}) /\ g = LoadGossipNodes({}) /\ r = LoadPeerStore({}) /\ i = LoadIdentities({})
         /\ psMem = [query |-> q, gossip |-> g, repl |-> r, ident |-> i, endpoint |-> e]
  BY DEF PeerInit, OpenPeerStores, EmptyFiles
<1>12. g = [s \in PsServer |-> NoNode] /\ q = [s \in PsServer |-> None]
  BY <1>11 DEF LoadGossipNodes, LoadPeerStore
<1>13. psMem.gossip = g /\ psMem.query = q /\ psMem = [f \in {"query", "gossip", "repl", "ident", "endpoint"} |-> psMem[f]]
  BY <1>11
<1>14. MemOK(psMem)
  BY <1>12, <1>13 DEF MemOK
<1>15. NetOK(psNet)
  BY <1>1 DEF NetOK
<1>16. \A s \in PsServer : Current(s, psMem.gossip, psMem.query, psHeard, psWork[1].todo)
  BY <1>1, <1>12, <1>13 DEF Current
<1>17. psClock \in Nat /\ psClock > MaxMembership
  BY <1>1, PsAssumption
<1> QED BY <1>1, <1>5, <1>7, <1>9, <1>10, <1>14, <1>15, <1>16, <1>17 DEF PeerInv, Known

\* A remote server announces itself: its number is new.
LEMMA AnnounceKeeps ==
  ASSUME PeerInv, OneAtATime, NEW s \in psConf.peers, NEW a \in PsAddr, NEW t, Announce(s, a, t)
  PROVE  PeerInv'
<1>1. UNCHANGED <<psConf, psMem, psWork, psMember, psClock, psHeard>> /\ s # PsLocal
  BY DEF Announce
<1>2. PICK v \in Nat, c \in Nat : v = psMember.version /\ c = psClock /\ v <= MaxMembership /\ c > MaxMembership
  BY PsAssumption DEF PeerInv, MemberOK
<1>3. ~(v > c)
  BY <1>2, PsAssumption
<1>4. PICK m : m = [server |-> s, addr |-> a, inc |-> c, token |-> t]
  OBVIOUS
<1>5. m.server = s /\ m.addr = a /\ m.inc = c
  BY <1>4
<1>6. psNet' = psNet \cup {m} /\ \A n \in psNet : n.server = s => n.inc < c
  BY <1>2, <1>3, <1>4 DEF Announce
<1>7. NetOK(psNet) /\ s \in PsServer
  BY TheWorker DEF PeerInv
<1>8. \A n \in psNet : n.inc \in Nat
  BY <1>7 DEF NetOK
<1>9. \A n \in psNet : n.server = s => n.inc # c
  BY <1>2, <1>6, <1>8
<1>10. NetOK(psNet')
  BY <1>1, <1>2, <1>5, <1>6, <1>7, <1>9 DEF NetOK
<1>11. ASSUME NEW x, HasOrigin(x, psMember, psNet) PROVE HasOrigin(x, psMember, psNet')
  BY <1>6, <1>11 DEF HasOrigin, FromNetwork
<1> QED BY <1>1, <1>10, <1>11 DEF PeerInv, Known

\* The membership changes: what was refreshed before has a smaller version.
LEMMA MembershipKeeps ==
  ASSUME PeerInv, OneAtATime, NEW s \in psConf.peers, NEW a, NEW st, ChangeMembership(s, a, st)
  PROVE  PeerInv'
<1>1. UNCHANGED <<psConf, psMem, psWork, psNet, psClock, psHeard>>
  BY DEF ChangeMembership
<1>2. PICK v \in Nat : v = psMember.version /\ v >= 1 /\ v < MaxMembership
  BY PsAssumption DEF PeerInv, MemberOK, ChangeMembership
<1>3. psMember'.version = v + 1 /\ psMember'.addr = [psMember.addr EXCEPT ![s] = a]
  BY <1>2 DEF ChangeMembership
<1>4. psMember.addr = [q \in PsServer |-> psMember.addr[q]]
  BY DEF PeerInv, MemberOK
<1>5. PICK addr : addr = psMember'.addr
  OBVIOUS
<1>6. addr = [q \in PsServer |-> addr[q]]
  BY <1>3, <1>4, <1>5
<1>7. v + 1 \in 1..MaxMembership
  BY <1>2, PsAssumption
<1>8. MemberOK(psMember')
  BY <1>3, <1>5, <1>6, <1>7 DEF MemberOK
<1>9. ASSUME NEW x, HasOrigin(x, psMember, psNet) PROVE HasOrigin(x, psMember', psNet)
  <2>1. CASE FromMembership(x, psMember)
    <3>1. PICK i \in Nat : i = x.inc /\ i <= v
      BY <1>2, <1>9, <2>1 DEF HasOrigin, FromMembership
    <3>2. i <= v + 1 /\ i # v + 1
      BY <1>2, <3>1
    <3> QED BY <1>3, <1>9, <3>1, <3>2 DEF HasOrigin, FromMembership
  <2>2. CASE ~FromMembership(x, psMember)
    BY <1>9, <2>2 DEF HasOrigin
  <2> QED BY <2>1, <2>2
<1> QED BY <1>1, <1>8, <1>9 DEF PeerInv, Known

\* Time passes.
LEMMA TickKeeps == ASSUME PeerInv, Tick PROVE PeerInv'
<1>1. UNCHANGED <<psConf, psMem, psWork, psNet, psMember, psHeard>> /\ psClock' = psClock + 1
  BY DEF Tick
<1>2. psClock' \in Nat /\ psClock' > MaxMembership
  BY <1>1, PsAssumption DEF PeerInv
<1> QED BY <1>1, <1>2 DEF PeerInv, Known

IsWork(p) == p = [todo |-> p.todo, file |-> p.file, copy |-> p.copy]
GivenWork(work, p, next) == next = [work EXCEPT ![1] = p]

\* The one worker's state is replaced.
LEMMA NewWork ==
  ASSUME NEW work, WorkOK(work), 1 \in PsWorker, NEW p, IsWork(p), NEW next, GivenWork(work, p, next)
  PROVE  WorkOK(next) /\ next[1] = p
<1>1. work = [w \in PsWorker |-> work[w]]
  BY DEF WorkOK
<1>2. next = [w \in PsWorker |-> next[w]] /\ next[1] = p /\ \A w \in PsWorker : w # 1 => next[w] = work[w]
  BY <1>1 DEF GivenWork
<1>3. \A w \in PsWorker : next[w] = [todo |-> next[w].todo, file |-> next[w].file, copy |-> next[w].copy]
  <2>1. TAKE w \in PsWorker
  <2>2. work[w] = [todo |-> work[w].todo, file |-> work[w].file, copy |-> work[w].copy]
    BY DEF WorkOK
  <2>3. CASE w = 1
    BY <1>2, <2>3 DEF IsWork
  <2>4. CASE w # 1
    BY <1>2, <2>2, <2>4
  <2> QED BY <2>3, <2>4
<1> QED BY <1>2, <1>3 DEF WorkOK

\* The three ways in which it is.
LEMMA WorkChanges ==
  ASSUME WorkOK(psWork), 1 \in PsWorker, NEW todo, NEW file, NEW copy
  PROVE  /\ psWork' = [psWork EXCEPT ![1].todo = todo]
              => /\ WorkOK(psWork') /\ psWork'[1].todo = todo
                 /\ psWork'[1].file = psWork[1].file /\ psWork'[1].copy = psWork[1].copy
         /\ psWork' = [psWork EXCEPT ![1] = [todo |-> todo, file |-> file, copy |-> copy]]
              => WorkOK(psWork') /\ psWork'[1].todo = todo /\ psWork'[1].file = file /\ psWork'[1].copy = copy
         /\ psWork' = [psWork EXCEPT ![1].file = None, ![1].copy = 0]
              => WorkOK(psWork') /\ psWork'[1].todo = psWork[1].todo /\ psWork'[1].file = None
<1>1. PICK q : q = psWork[1]
  OBVIOUS
<1>2. q = [todo |-> q.todo, file |-> q.file, copy |-> q.copy] /\ psWork = [w \in PsWorker |-> psWork[w]]
  BY <1>1 DEF WorkOK
<1>3. ASSUME psWork' = [psWork EXCEPT ![1].todo = todo]
      PROVE  /\ WorkOK(psWork') /\ psWork'[1].todo = todo
             /\ psWork'[1].file = psWork[1].file /\ psWork'[1].copy = psWork[1].copy
  <2>1. PICK p : p = [q EXCEPT !.todo = todo]
    OBVIOUS
  <2>2. /\ p.todo = todo /\ p.file = q.file /\ p.copy = q.copy
        /\ IsWork(p)
    BY <1>2, <2>1 DEF IsWork
  <2>3. GivenWork(psWork, p, psWork')
    BY <1>1, <1>2, <1>3, <2>1 DEF GivenWork
  <2>4. WorkOK(psWork') /\ psWork'[1] = p
    BY <2>2, <2>3, NewWork
  <2> QED BY <1>1, <2>2, <2>4
<1>4. ASSUME psWork' = [psWork EXCEPT ![1] = [todo |-> todo, file |-> file, copy |-> copy]]
      PROVE  WorkOK(psWork') /\ psWork'[1].todo = todo /\ psWork'[1].file = file /\ psWork'[1].copy = copy
  <2>1. PICK p : p = [todo |-> todo, file |-> file, copy |-> copy]
    OBVIOUS
  <2>2. /\ p.todo = todo /\ p.file = file /\ p.copy = copy
        /\ IsWork(p)
    BY <2>1 DEF IsWork
  <2>3. GivenWork(psWork, p, psWork')
    BY <1>4, <2>1 DEF GivenWork
  <2>4. WorkOK(psWork') /\ psWork'[1] = p
    BY <2>2, <2>3, NewWork
  <2> QED BY <2>2, <2>4
<1>5. ASSUME psWork' = [psWork EXCEPT ![1].file = None, ![1].copy = 0]
      PROVE  WorkOK(psWork') /\ psWork'[1].todo = psWork[1].todo /\ psWork'[1].file = None
  <2>1. PICK p : p = [q EXCEPT !.file = None, !.copy = 0]
    OBVIOUS
  <2>2. p.todo = q.todo /\ p.file = None /\ IsWork(p)
    BY <1>2, <2>1 DEF IsWork
  <2>3. GivenWork(psWork, p, psWork')
    BY <1>1, <1>2, <1>5, <2>1 DEF GivenWork
  <2>4. WorkOK(psWork') /\ psWork'[1] = p
    BY <2>2, <2>3, NewWork
  <2> QED BY <1>1, <2>2, <2>4
<1> QED BY <1>3, <1>4, <1>5

\* A request starts: nothing of it goes to the query peers yet, and its
\* announcements agree with what was heard.
LEMMA RequestKeeps ==
  ASSUME PeerInv, OneAtATime, NEW steps, PeerRequest(1, steps),
         UNCHANGED <<psConf, psMem, psNet, psMember, psClock, psHeard>>,
         steps \in Seq(Range(steps)),
         \A i \in 1..Len(steps) : StepOK(steps[i]) /\ ~IsQueryPut(steps[i]),
         \A x \in PendingOf(steps) : HasOrigin(x, psMember, psNet) /\ x.inc >= psMember.version
  PROVE  PeerInv'
<1>1. 1 \in PsWorker /\ WorkOK(psWork) /\ MemberOK(psMember) /\ NetOK(psNet)
  BY TheWorker DEF PeerInv
<1>2. psWork[1] = [todo |-> <<>>, file |-> None, copy |-> 0] /\ psWork' = [psWork EXCEPT ![1].todo = steps]
  BY DEF PeerRequest, Idle, NoWork
<1>3. PICK old : old = psWork[1].todo
  OBVIOUS
<1>4. old = <<>> /\ Len(old) = 0
  BY <1>2, <1>3
<1>5. WorkOK(psWork') /\ psWork'[1].todo = steps
  BY <1>1, <1>2, WorkChanges
<1>6. TodoOK(steps, psMem.gossip)
  BY DEF TodoOK
<1>7. \A x \in psHeard : HasOrigin(x, psMember, psNet)
  BY DEF PeerInv, Known
<1>8. \A x, y \in psHeard : SameAddress(x, y)
  BY DEF PeerInv, Known
<1>9. \A x \in PendingOf(steps) : \A y \in psHeard \cup PendingOf(steps) : SameAddress(x, y) /\ SameAddress(y, x)
  BY <1>1, <1>7, NewestAgrees
<1>10. \A x, y \in psHeard \cup PendingOf(steps) : SameAddress(x, y)
  BY <1>8, <1>9
<1>11. ASSUME NEW s \in PsServer PROVE Current(s, psMem.gossip, psMem.query, psHeard, steps)
  <2>1. Current(s, psMem.gossip, psMem.query, psHeard, old)
    BY <1>3 DEF PeerInv
  <2>2. ~OnItsWay(s, old)
    BY <1>4 DEF OnItsWay
  <2> QED BY <2>1, <2>2 DEF Current
<1> QED BY <1>5, <1>6, <1>7, <1>10, <1>11 DEF PeerInv, Known

\* A request of one announcement.
LEMMA OneUpsertKeeps ==
  ASSUME PeerInv, OneAtATime, NEW s \in PsServer, NEW r, PeerRequest(1, <<Upsert(s, r)>>),
         UNCHANGED <<psConf, psMem, psNet, psMember, psClock, psHeard>>,
         HasOrigin(Heard(s, r), psMember, psNet), r.inc >= psMember.version
  PROVE  PeerInv'
<1>1. PICK st, x : st = Upsert(s, r) /\ x = Heard(s, r)
  OBVIOUS
<1>2. st.do = "upsert" /\ st.server = s /\ st.value = r /\ x.inc = r.inc
  BY <1>1 DEF Upsert, Heard
<1>3. PICK steps : steps = <<st>>
  OBVIOUS
<1>4. steps \in Seq({st}) /\ Len(steps) = 1 /\ steps[1] = st
  BY <1>3
<1>5. steps \in Seq(Range(steps))
  BY <1>4, SeqOfRange
<1>6. \A i \in 1..Len(steps) : StepOK(steps[i]) /\ ~IsQueryPut(steps[i])
  BY <1>2, <1>4 DEF StepOK, IsUpsert, IsQueryPut
<1>7. PendingOf(steps) = {x}
  BY <1>1, <1>2, <1>4 DEF PendingOf, IsUpsert
<1>8. PeerRequest(1, steps)
  BY <1>1, <1>3
<1> QED BY <1>1, <1>2, <1>5, <1>6, <1>7, <1>8, RequestKeeps

\* apply_gossip_node.
LEMMA ApplyKeeps ==
  ASSUME PeerInv, OneAtATime, NEW m \in psNet, ApplyGossipNode(1, m) PROVE PeerInv'
<1>1. PICK r : r = [addr |-> m.addr, inc |-> m.inc, ttl |-> psConf.ttl, seen |-> psClock]
  OBVIOUS
<1>2. r.addr = m.addr /\ r.inc = m.inc
  BY <1>1
<1>3. PeerRequest(1, <<Upsert(m.server, r)>>) /\ UNCHANGED <<psConf, psMem, psNet, psMember, psClock, psHeard>>
  BY <1>1 DEF ApplyGossipNode
<1>4. m.inc \in Nat /\ m.inc > MaxMembership /\ m.server \in PsServer /\ m.server # PsLocal
  BY DEF PeerInv, NetOK
<1>5. psMember.version \in Nat /\ psMember.version <= MaxMembership
  BY PsAssumption DEF PeerInv, MemberOK
<1>6. PICK x : x = Heard(m.server, r)
  OBVIOUS
<1>7. x.server = m.server /\ x.inc = m.inc /\ x.addr = m.addr
  BY <1>2, <1>6 DEF Heard
<1>8. m.inc # 0 /\ m.inc >= psMember.version
  BY <1>4, <1>5, PsAssumption
<1>9. HasOrigin(x, psMember, psNet)
  BY <1>4, <1>7, <1>8 DEF HasOrigin, FromNetwork
<1> QED BY <1>2, <1>3, <1>4, <1>6, <1>8, <1>9, OneUpsertKeeps

\* fanout_gossip_once.
LEMMA FanoutKeeps == ASSUME PeerInv, OneAtATime, FanoutGossipOnce(1, HomeAddr) PROVE PeerInv'
<1>1. PICK r : r = [addr |-> HomeAddr, inc |-> psClock, ttl |-> psConf.ttl, seen |-> psClock]
  OBVIOUS
<1>2. r.addr = HomeAddr /\ r.inc = psClock
  BY <1>1
<1>3. PeerRequest(1, <<Upsert(PsLocal, r)>>) /\ UNCHANGED <<psConf, psMem, psNet, psMember, psClock, psHeard>>
  BY <1>1 DEF FanoutGossipOnce
<1>4. psClock \in Nat /\ psClock > MaxMembership /\ psMember.version \in Nat /\ psMember.version <= MaxMembership
  BY PsAssumption DEF PeerInv, MemberOK
<1>5. psClock # 0 /\ psClock >= psMember.version /\ PsLocal \in PsServer
  BY <1>4, PsAssumption
<1>6. PICK x : x = Heard(PsLocal, r)
  OBVIOUS
<1>7. x.server = PsLocal /\ x.inc = psClock /\ x.addr = HomeAddr
  BY <1>2, <1>6 DEF Heard
<1>8. HasOrigin(x, psMember, psNet)
  BY <1>4, <1>5, <1>7 DEF HasOrigin, FromHome
<1> QED BY <1>2, <1>3, <1>5, <1>6, <1>8, OneUpsertKeeps

\* The ids a table is walked in.
LEMMA InOrderIs ==
  ASSUME NEW ids, IsFiniteSet(ids), NEW nodes \in InOrder(ids)
  PROVE  Len(nodes) \in Nat /\ DOMAIN nodes = 1..Len(nodes) /\ \A i \in 1..Len(nodes) : nodes[i] \in ids
<1>1. PICK n \in Nat : n = Cardinality(ids)
  BY FS_CardinalityType
<1>2. nodes \in [1..n -> ids]
  BY <1>1 DEF InOrder
<1> QED BY <1>2

\* refresh_gossip_from_membership.
LEMMA RefreshKeeps == ASSUME PeerInv, OneAtATime, RefreshGossipFromMembership(1) PROVE PeerInv'
<1>1. PICK ids : ids = {s \in PsServer : psMember.state[s] \in GossipedStates}
  OBVIOUS
<1>2. PICK nodes \in InOrder(ids) :
        PeerRequest(1, [i \in DOMAIN nodes |->
            Upsert(nodes[i], [addr |-> psMember.addr[nodes[i]], inc |-> psMember.version,
                              ttl |-> 1, seen |-> psClock])])
  BY <1>1 DEF RefreshGossipFromMembership
<1>3. UNCHANGED <<psConf, psMem, psNet, psMember, psClock, psHeard>>
  BY DEF RefreshGossipFromMembership
<1>4. IsFiniteSet(ids)
  BY <1>1, PsAssumption, FS_Subset
<1>5. PICK n \in Nat : n = Len(nodes) /\ DOMAIN nodes = 1..n /\ \A i \in 1..n : nodes[i] \in PsServer
  BY <1>1, <1>2, <1>4, InOrderIs
<1>6. PICK steps : steps = [i \in 1..n |->
            Upsert(nodes[i], [addr |-> psMember.addr[nodes[i]], inc |-> psMember.version,
                              ttl |-> 1, seen |-> psClock])]
  OBVIOUS
<1>7. PeerRequest(1, steps)
  BY <1>2, <1>5, <1>6
<1>8. DOMAIN steps = 1..n /\ Len(steps) = n
  BY <1>6
<1>9. ASSUME NEW i \in 1..n
      PROVE  /\ steps[i].do = "upsert" /\ steps[i].server = nodes[i]
             /\ steps[i].value.inc = psMember.version /\ steps[i].value.addr = psMember.addr[nodes[i]]
  BY <1>6 DEF Upsert
<1>10. steps \in Seq(Range(steps))
  BY <1>6, <1>8 DEF Range
<1>11. \A i \in 1..Len(steps) : StepOK(steps[i]) /\ ~IsQueryPut(steps[i])
  BY <1>5, <1>8, <1>9 DEF StepOK, IsUpsert, IsQueryPut
<1>12. PICK v \in Nat \ {0} : v = psMember.version
  BY PsAssumption DEF PeerInv, MemberOK
<1>13. ASSUME NEW x \in PendingOf(steps) PROVE HasOrigin(x, psMember, psNet) /\ x.inc >= psMember.version
  <2>1. PICK i \in 1..n : x = Heard(steps[i].server, steps[i].value)
    BY <1>8, <1>13 DEF PendingOf
  <2>2. x.server = nodes[i] /\ x.inc = v /\ x.addr = psMember.addr[nodes[i]]
    BY <1>9, <1>12, <2>1 DEF Heard
  <2>3. FromMembership(x, psMember)
    BY <1>12, <2>2 DEF FromMembership
  <2> QED BY <1>5, <1>12, <2>2, <2>3 DEF HasOrigin
<1> QED BY <1>3, <1>7, <1>10, <1>11, <1>13, RequestKeeps

\* A request without announcements.
LEMMA PlainKeeps ==
  ASSUME PeerInv, OneAtATime, NEW steps, PeerRequest(1, steps),
         UNCHANGED <<psConf, psMem, psNet, psMember, psClock, psHeard>>,
         steps \in Seq(Range(steps)),
         \A i \in 1..Len(steps) : StepOK(steps[i]) /\ ~IsQueryPut(steps[i]) /\ ~IsUpsert(steps[i])
  PROVE  PeerInv'
<1>1. PendingOf(steps) = {}
  BY DEF PendingOf
<1> QED BY <1>1, RequestKeeps

\* negotiate_gossip_replication_peers.
LEMMA NegotiateGossipKeeps ==
  ASSUME PeerInv, OneAtATime, NegotiateGossipReplicationPeers(1) PROVE PeerInv'
<1>1. PICK ids : ids = {s \in PsServer \ {PsLocal} : /\ psMem.gossip[s] # NoNode
                                                     /\ IsAliveAt(psMem.gossip[s], psClock)
                                                     /\ psMem.repl[s] = None}
  OBVIOUS
<1>2. PICK nodes \in InOrder(ids) :
        PeerRequest(1, [i \in DOMAIN nodes |-> Negotiate(nodes[i], psMem.gossip[nodes[i]].addr)])
  BY <1>1 DEF NegotiateGossipReplicationPeers
<1>3. UNCHANGED <<psConf, psMem, psNet, psMember, psClock, psHeard>>
  BY DEF NegotiateGossipReplicationPeers
<1>4. IsFiniteSet(ids)
  BY <1>1, PsAssumption, FS_Subset
<1>5. PICK n \in Nat : n = Len(nodes) /\ DOMAIN nodes = 1..n /\ \A i \in 1..n : nodes[i] \in PsServer
  BY <1>1, <1>2, <1>4, InOrderIs
<1>6. PICK steps : steps = [i \in 1..n |-> Negotiate(nodes[i], psMem.gossip[nodes[i]].addr)]
  OBVIOUS
<1>7. PeerRequest(1, steps)
  BY <1>2, <1>5, <1>6
<1>8. DOMAIN steps = 1..n /\ Len(steps) = n
  BY <1>6
<1>9. \A i \in 1..n : steps[i].do = "hello" /\ steps[i].server = nodes[i]
  BY <1>6 DEF Negotiate
<1>10. steps \in Seq(Range(steps))
  BY <1>6, <1>8 DEF Range
<1>11. \A i \in 1..Len(steps) : StepOK(steps[i]) /\ ~IsQueryPut(steps[i]) /\ ~IsUpsert(steps[i])
  BY <1>5, <1>8, <1>9 DEF StepOK, IsUpsert, IsQueryPut
<1> QED BY <1>3, <1>7, <1>10, <1>11, PlainKeeps

\* The steps of a registration, and of its end.
LEMMA ThreeSteps ==
  ASSUME NEW s \in PsServer, NEW a, NEW b, NEW c, NEW steps,
         steps = <<Endpoint(s, a), Put("repl", s, b), Put("ident", s, c)>>
  PROVE  /\ steps \in Seq(Range(steps)) /\ Len(steps) = 3
         /\ \A i \in 1..Len(steps) : StepOK(steps[i]) /\ ~IsQueryPut(steps[i]) /\ ~IsUpsert(steps[i])
<1>1. PICK x, y, z : x = Endpoint(s, a) /\ y = Put("repl", s, b) /\ z = Put("ident", s, c)
  OBVIOUS
<1>2. /\ x.do = "endpoint" /\ x.server = s /\ y.do = "put" /\ y.file = "repl" /\ y.server = s
      /\ z.do = "put" /\ z.file = "ident" /\ z.server = s
  BY <1>1 DEF Endpoint, Put
<1>3. steps = <<x, y, z>>
  BY <1>1
<1>4. steps \in Seq({x, y, z}) /\ Len(steps) = 3 /\ steps[1] = x /\ steps[2] = y /\ steps[3] = z
  BY <1>3
<1>5. steps \in Seq(Range(steps))
  BY <1>4, SeqOfRange
<1>6. \A i \in 1..3 : i \in {1, 2, 3}
  OBVIOUS
<1>7. \A i \in 1..3 : StepOK(steps[i]) /\ ~IsQueryPut(steps[i]) /\ ~IsUpsert(steps[i])
  BY <1>2, <1>4, <1>6 DEF StepOK, IsUpsert, IsQueryPut
<1> QED BY <1>4, <1>5, <1>7

\* register_replication_peer_endpoint and unregister_replication_peer.
LEMMA RegisterKeeps ==
  ASSUME PeerInv, OneAtATime, NEW s \in PsServer, NEW a, NEW node,
         RegisterReplicationPeerEndpoint(1, s, a, node) \/ UnregisterReplicationPeer(1, s)
  PROVE  PeerInv'
<1>1. UNCHANGED <<psConf, psMem, psNet, psMember, psClock, psHeard>>
  BY DEF RegisterReplicationPeerEndpoint, UnregisterReplicationPeer
<1>2. PICK b, c, d, steps :
        /\ PeerRequest(1, steps)
        /\ steps = <<Endpoint(s, b), Put("repl", s, c), Put("ident", s, d)>>
  BY DEF RegisterReplicationPeerEndpoint, UnregisterReplicationPeer, RegisterSteps
<1>3. /\ steps \in Seq(Range(steps))
      /\ \A i \in 1..Len(steps) : StepOK(steps[i]) /\ ~IsQueryPut(steps[i]) /\ ~IsUpsert(steps[i])
  BY <1>2, ThreeSteps
<1> QED BY <1>1, <1>2, <1>3, PlainKeeps

\* negotiate_replication_peer.
LEMMA NegotiateKeeps ==
  ASSUME PeerInv, OneAtATime, NEW s \in PsServer, NEW a, NegotiateReplicationPeer(1, s, a)
  PROVE  PeerInv'
<1>1. UNCHANGED <<psConf, psMem, psNet, psMember, psClock, psHeard>>
  BY DEF NegotiateReplicationPeer
<1>2. PICK x : x = Negotiate(s, a)
  OBVIOUS
<1>3. x.do = "hello" /\ x.server = s
  BY <1>2 DEF Negotiate
<1>4. PICK steps : steps = <<x>>
  OBVIOUS
<1>5. steps \in Seq({x}) /\ Len(steps) = 1 /\ steps[1] = x
  BY <1>4
<1>6. steps \in Seq(Range(steps))
  BY <1>5, SeqOfRange
<1>7. \A i \in 1..Len(steps) : StepOK(steps[i]) /\ ~IsQueryPut(steps[i]) /\ ~IsUpsert(steps[i])
  BY <1>3, <1>5 DEF StepOK, IsUpsert, IsQueryPut
<1>8. PeerRequest(1, steps)
  BY <1>2, <1>4 DEF NegotiateReplicationPeer
<1> QED BY <1>1, <1>6, <1>7, <1>8, PlainKeeps

\* The request under way has a next step.
LEMMA UnderWay ==
  ASSUME PeerInv, NEW do, NextIs(1, do), NEW todo, todo = psWork[1].todo
  PROVE  /\ todo # <<>> /\ todo \in Seq(Range(todo)) /\ Len(todo) \in Nat /\ Len(todo) > 0
         /\ Head(todo) = todo[1] /\ todo[1].do = do /\ StepOK(todo[1]) /\ TodoOK(todo, psMem.gossip)
         /\ \A s \in PsServer : Current(s, psMem.gossip, psMem.query, psHeard, todo)
<1>1. todo # <<>> /\ Head(todo).do = do
  BY DEF NextIs
<1>2. /\ TodoOK(todo, psMem.gossip)
      /\ \A s \in PsServer : Current(s, psMem.gossip, psMem.query, psHeard, todo)
  BY DEF PeerInv
<1>3. todo \in Seq(Range(todo))
  BY <1>2 DEF TodoOK
<1>4. PICK t : t = Tail(todo)
  OBVIOUS
<1>5. Len(todo) \in Nat /\ Len(todo) > 0 /\ Head(todo) = todo[1]
  BY <1>1, <1>3, <1>4, RestOf
<1>6. 1 \in 1..Len(todo)
  BY <1>5
<1> QED BY <1>1, <1>2, <1>3, <1>5, <1>6 DEF TodoOK

\* Nothing in the rest of a request goes to the query peers.
LEMMA RestTodo ==
  ASSUME NEW todo, NEW gossip, TodoOK(todo, gossip), todo # <<>>, NEW t, t = Tail(todo)
  PROVE  /\ t \in Seq(Range(t)) /\ Len(t) \in Nat
         /\ \A i \in 1..Len(t) : StepOK(t[i]) /\ ~IsQueryPut(t[i])
         /\ \A g : TodoOK(t, g)
         /\ PendingOf(t) \subseteq PendingOf(todo)
<1>1. todo \in Seq(Range(todo))
  BY DEF TodoOK
<1>2. /\ Len(t) \in Nat /\ t \in Seq(Range(t))
      /\ \A i \in 1..Len(t) : i + 1 \in 1..Len(todo) /\ t[i] = todo[i + 1] /\ i + 1 # 1
  BY <1>1, RestOf
<1>3. \A i \in 1..Len(t) : StepOK(t[i]) /\ ~IsQueryPut(t[i])
  BY <1>2 DEF TodoOK
<1>4. \A g : TodoOK(t, g)
  BY <1>2, <1>3 DEF TodoOK
<1>5. PendingOf(t) \subseteq PendingOf(todo)
  BY <1>2, PendingShrinks
<1> QED BY <1>2, <1>3, <1>4, <1>5

\* What a step has to keep.
LEMMA StepsKeep ==
  ASSUME PeerInv, UNCHANGED <<psConf, psNet, psMember, psClock>>, WorkOK(psWork'), MemOK(psMem'),
         NEW next, psWork'[1].todo = next, TodoOK(next, psMem'.gossip),
         psHeard' \cup PendingOf(next) \subseteq Known,
         \A s \in PsServer : Current(s, psMem'.gossip, psMem'.query, psHeard', next)
  PROVE  PeerInv'
<1>1. Known' \subseteq Known
  BY DEF Known
<1>2. \A x \in Known' : HasOrigin(x, psMember', psNet')
  BY <1>1 DEF PeerInv
<1>3. \A x, y \in Known' : SameAddress(x, y)
  BY <1>1 DEF PeerInv
<1> QED BY <1>2, <1>3 DEF PeerInv

Replaced(mem, file, table, next) == next = [mem EXCEPT ![file] = table]

\* One table is replaced.
LEMMA MemEdit ==
  ASSUME NEW mem, MemOK(mem), NEW file, file \in {"query", "gossip", "repl", "ident", "endpoint"}, NEW table,
         NEW next, Replaced(mem, file, table, next),
         file \in {"query", "gossip"} => table = [s \in PsServer |-> table[s]]
  PROVE  /\ MemOK(next)
         /\ next.query = (IF file = "query" THEN table ELSE mem.query)
         /\ next.gossip = (IF file = "gossip" THEN table ELSE mem.gossip)
<1>1. /\ mem = [f \in {"query", "gossip", "repl", "ident", "endpoint"} |-> mem[f]]
      /\ mem.query = [s \in PsServer |-> mem.query[s]]
      /\ mem.gossip = [s \in PsServer |-> mem.gossip[s]]
  BY DEF MemOK
<1>2. next = [f \in {"query", "gossip", "repl", "ident", "endpoint"} |-> IF f = file THEN table ELSE mem[f]]
  BY <1>1 DEF Replaced
<1>3. /\ next["query"] = (IF file = "query" THEN table ELSE mem["query"])
      /\ next["gossip"] = (IF file = "gossip" THEN table ELSE mem["gossip"])
  BY <1>2
<1>4. next = [f \in {"query", "gossip", "repl", "ident", "endpoint"} |-> next[f]]
  BY <1>2
<1>5. next.query = [s \in PsServer |-> next.query[s]] /\ next.gossip = [s \in PsServer |-> next.gossip[s]]
  BY <1>1, <1>3
<1> QED BY <1>3, <1>4, <1>5 DEF MemOK

\* Nothing is on its way: the query peers are up to date.
LEMMA NothingOnItsWay ==
  ASSUME NEW s, NEW g, NEW q, NEW h, NEW todo, NEW next, Current(s, g, q, h, todo), ~OnItsWay(s, todo)
  PROVE  Current(s, g, q, h, next)
BY DEF Current

\* register and unregister.
LEMMA PutKeeps == ASSUME PeerInv, OneAtATime, PutStep(1) PROVE PeerInv'
<1>1. NextIs(1, "put") /\ UNCHANGED <<psConf, psNet, psMember, psClock, psHeard>>
  BY DEF PutStep
<1>2. 1 \in PsWorker /\ WorkOK(psWork) /\ MemOK(psMem)
  BY TheWorker DEF PeerInv
<1>3. PICK todo : todo = psWork[1].todo
  OBVIOUS
<1>4. /\ todo # <<>> /\ Len(todo) > 0 /\ Len(todo) \in Nat
      /\ Head(todo) = todo[1] /\ todo[1].do = "put" /\ StepOK(todo[1]) /\ TodoOK(todo, psMem.gossip)
      /\ \A s \in PsServer : Current(s, psMem.gossip, psMem.query, psHeard, todo)
  BY <1>1, <1>3, UnderWay
<1>5. PICK op : op = todo[1]
  OBVIOUS
<1>6. op.do = "put" /\ op.server \in PsServer /\ op.file \in {"query", "repl", "ident"}
  BY <1>4, <1>5 DEF StepOK, IsUpsert
<1>7. PICK t : t = Tail(todo)
  OBVIOUS
<1>8. TodoOK(t, psMem'.gossip) /\ PendingOf(t) \subseteq PendingOf(todo)
  BY <1>4, <1>7, RestTodo
<1>9. PICK table : table = [psMem[op.file] EXCEPT ![op.server] = op.value]
  OBVIOUS
<1>10. /\ psMem' = [psMem EXCEPT ![op.file] = table]
       /\ psWork' = [psWork EXCEPT ![1] = [todo |-> t, file |-> op.file, copy |-> table]]
  BY <1>3, <1>4, <1>5, <1>7, <1>9 DEF PutStep, Edit
<1>11. WorkOK(psWork') /\ psWork'[1].todo = t
  BY <1>2, <1>10, WorkChanges
<1>12. psMem.query = [s \in PsServer |-> psMem.query[s]]
  BY <1>2 DEF MemOK
<1>13. op.file \in {"query", "gossip"} => table = [s \in PsServer |-> table[s]]
  BY <1>6, <1>9, <1>12
<1>14. /\ MemOK(psMem') /\ psMem'.gossip = psMem.gossip
       /\ psMem'.query = (IF op.file = "query" THEN table ELSE psMem.query)
  <2>1. Replaced(psMem, op.file, table, psMem') /\ op.file \in {"query", "gossip", "repl", "ident", "endpoint"}
    BY <1>6, <1>10 DEF Replaced
  <2>2. /\ MemOK(psMem')
        /\ psMem'.query = (IF op.file = "query" THEN table ELSE psMem.query)
        /\ psMem'.gossip = (IF op.file = "gossip" THEN table ELSE psMem.gossip)
    BY <1>2, <1>13, <2>1, MemEdit
  <2> QED BY <1>6, <2>2
<1>15. ASSUME NEW s \in PsServer PROVE Current(s, psMem'.gossip, psMem'.query, psHeard', t)
  <2>1. Current(s, psMem.gossip, psMem.query, psHeard, todo)
    BY <1>4
  <2>2. CASE op.file = "query"
    <3>1. /\ psMem.gossip[op.server] # NoNode /\ op.value = psMem.gossip[op.server].addr
      <4>1. 1 \in 1..Len(todo) /\ IsQueryPut(todo[1])
        BY <1>4, <1>5, <2>2 DEF IsQueryPut
      <4> QED BY <1>4, <1>5, <4>1 DEF TodoOK
    <3>2. psMem'.query = [psMem.query EXCEPT ![op.server] = op.value]
      BY <1>9, <1>14, <2>2
    <3>3. CASE s = op.server
      <4>1. psMem'.query[s] = psMem.gossip[s].addr
        BY <1>12, <3>1, <3>2, <3>3
      <4> QED BY <1>1, <1>14, <2>1, <3>1, <3>3, <4>1 DEF Current
    <3>4. CASE s # op.server
      <4>1. psMem'.query[s] = psMem.query[s] /\ ~OnItsWay(s, todo)
        BY <1>5, <1>12, <3>2, <3>4 DEF OnItsWay
      <4> QED BY <1>1, <1>14, <2>1, <4>1 DEF Current
    <3> QED BY <3>3, <3>4
  <2>3. CASE op.file # "query"
    <3>1. ~OnItsWay(s, todo)
      BY <1>5, <2>3 DEF OnItsWay, IsQueryPut
    <3> QED BY <1>1, <1>14, <2>1, <2>3, <3>1, NothingOnItsWay
  <2> QED BY <2>2, <2>3
<1>16. psHeard' \cup PendingOf(t) \subseteq Known
  BY <1>1, <1>3, <1>8 DEF Known
<1> QED BY <1>1, <1>8, <1>11, <1>14, <1>15, <1>16, StepsKeep

\* The endpoint of the database is set.
LEMMA EndpointKeeps == ASSUME PeerInv, OneAtATime, EndpointStep(1) PROVE PeerInv'
<1>1. NextIs(1, "endpoint") /\ UNCHANGED <<psConf, psNet, psMember, psClock, psHeard>>
  BY DEF EndpointStep
<1>2. 1 \in PsWorker /\ WorkOK(psWork) /\ MemOK(psMem)
  BY TheWorker DEF PeerInv
<1>3. PICK todo : todo = psWork[1].todo
  OBVIOUS
<1>4. /\ todo # <<>> /\ todo[1].do = "endpoint" /\ TodoOK(todo, psMem.gossip)
      /\ \A s \in PsServer : Current(s, psMem.gossip, psMem.query, psHeard, todo)
  BY <1>1, <1>3, UnderWay
<1>5. PICK t : t = Tail(todo)
  OBVIOUS
<1>6. TodoOK(t, psMem'.gossip) /\ PendingOf(t) \subseteq PendingOf(todo)
  BY <1>4, <1>5, RestTodo
<1>7. psWork' = [psWork EXCEPT ![1].todo = t]
  BY <1>3, <1>5 DEF EndpointStep
<1>8. WorkOK(psWork') /\ psWork'[1].todo = t
  BY <1>2, <1>7, WorkChanges
<1>9. PICK table : psMem' = [psMem EXCEPT !["endpoint"] = table]
  BY DEF EndpointStep
<1>10. /\ MemOK(psMem') /\ psMem'.gossip = psMem.gossip /\ psMem'.query = psMem.query
  <2>1. PICK file : file = "endpoint"
    OBVIOUS
  <2>2. Replaced(psMem, file, table, psMem') /\ file \in {"query", "gossip", "repl", "ident", "endpoint"}
        /\ file \notin {"query", "gossip"}
    BY <1>9, <2>1 DEF Replaced
  <2>3. /\ MemOK(psMem')
        /\ psMem'.query = (IF file = "query" THEN table ELSE psMem.query)
        /\ psMem'.gossip = (IF file = "gossip" THEN table ELSE psMem.gossip)
    BY <1>2, <2>2, MemEdit
  <2> QED BY <2>2, <2>3
<1>11. ASSUME NEW s \in PsServer PROVE Current(s, psMem'.gossip, psMem'.query, psHeard', t)
  <2>1. Current(s, psMem.gossip, psMem.query, psHeard, todo) /\ ~OnItsWay(s, todo)
    BY <1>4 DEF OnItsWay, IsQueryPut
  <2> QED BY <1>1, <1>10, <2>1, NothingOnItsWay
<1>12. psHeard' \cup PendingOf(t) \subseteq Known
  BY <1>1, <1>3, <1>6 DEF Known
<1> QED BY <1>1, <1>6, <1>8, <1>10, <1>11, <1>12, StepsKeep

\* A hello is answered, or not.
LEMMA HelloKeeps == ASSUME PeerInv, OneAtATime, HelloStep(1) PROVE PeerInv'
<1>1. NextIs(1, "hello") /\ UNCHANGED <<psConf, psMem, psNet, psMember, psClock, psHeard>>
  BY DEF HelloStep
<1>2. 1 \in PsWorker /\ WorkOK(psWork) /\ MemOK(psMem)
  BY TheWorker DEF PeerInv
<1>3. PICK todo : todo = psWork[1].todo
  OBVIOUS
<1>4. /\ todo # <<>> /\ Head(todo) = todo[1] /\ todo[1].do = "hello" /\ TodoOK(todo, psMem.gossip)
      /\ StepOK(todo[1])
      /\ \A s \in PsServer : Current(s, psMem.gossip, psMem.query, psHeard, todo)
  BY <1>1, <1>3, UnderWay
<1>5. PICK t : t = Tail(todo)
  OBVIOUS
<1>6. /\ t \in Seq(Range(t)) /\ \A i \in 1..Len(t) : StepOK(t[i]) /\ ~IsQueryPut(t[i])
      /\ TodoOK(t, psMem.gossip) /\ PendingOf(t) \subseteq PendingOf(todo)
  BY <1>4, <1>5, RestTodo
<1>7. PICK next : /\ psWork' = [psWork EXCEPT ![1].todo = next]
                  /\ next = t \/ next = RegisterSteps(todo[1].server, todo[1].value, todo[1].server) \o t
  BY <1>3, <1>4, <1>5 DEF HelloStep
<1>8. WorkOK(psWork') /\ psWork'[1].todo = next
  BY <1>2, <1>7, WorkChanges
<1>9. TodoOK(next, psMem.gossip) /\ PendingOf(next) \subseteq PendingOf(todo)
  <2>1. CASE next = t
    BY <1>6, <2>1
  <2>2. CASE next = RegisterSteps(todo[1].server, todo[1].value, todo[1].server) \o t
    <3>1. PICK s \in PsServer : s = todo[1].server
      BY <1>4 DEF StepOK
    <3>2. PICK a : a = RegisterSteps(s, todo[1].value, s)
      OBVIOUS
    <3>3. /\ a \in Seq(Range(a))
          /\ \A i \in 1..Len(a) : StepOK(a[i]) /\ ~IsQueryPut(a[i]) /\ ~IsUpsert(a[i])
      BY <3>2, ThreeSteps DEF RegisterSteps
    <3>4. Joined(a, t, next)
      BY <2>2, <3>1, <3>2 DEF Joined
    <3>5. /\ next \in Seq(Range(next))
          /\ \A i \in 1..Len(next) : \/ i \in 1..Len(a) /\ next[i] = a[i]
                                     \/ i > Len(a) /\ \E j \in 1..Len(t) : next[i] = t[j]
      BY <1>6, <3>3, <3>4, Before
    <3>6. \A i \in 1..Len(next) : StepOK(next[i]) /\ ~IsQueryPut(next[i])
      BY <1>6, <3>3, <3>5
    <3>7. PendingOf(next) \subseteq PendingOf(t)
      <4>1. SUFFICES ASSUME NEW x \in PendingOf(next) PROVE x \in PendingOf(t)
        OBVIOUS
      <4>2. PICK i \in 1..Len(next) : IsUpsert(next[i]) /\ x = Heard(next[i].server, next[i].value)
        BY <4>1 DEF PendingOf
      <4>3. PICK j \in 1..Len(t) : next[i] = t[j]
        BY <3>3, <3>5, <4>2
      <4> QED BY <4>2, <4>3 DEF PendingOf
    <3> QED BY <1>6, <3>5, <3>6, <3>7 DEF TodoOK
  <2> QED BY <1>7, <2>1, <2>2
<1>10. ASSUME NEW s \in PsServer PROVE Current(s, psMem'.gossip, psMem'.query, psHeard', next)
  <2>1. Current(s, psMem.gossip, psMem.query, psHeard, todo) /\ ~OnItsWay(s, todo)
    BY <1>4 DEF OnItsWay, IsQueryPut
  <2> QED BY <1>1, <2>1, NothingOnItsWay
<1>11. psHeard' \cup PendingOf(next) \subseteq Known
  BY <1>1, <1>3, <1>9 DEF Known
<1>12. MemOK(psMem') /\ TodoOK(next, psMem'.gossip)
  BY <1>1, <1>2, <1>9
<1> QED BY <1>1, <1>8, <1>10, <1>11, <1>12, StepsKeep

\* A copy reaches its file.
LEMMA SaveKeeps == ASSUME PeerInv, OneAtATime, SaveStep(1) PROVE PeerInv'
<1>1. /\ UNCHANGED <<psConf, psMem, psNet, psMember, psClock, psHeard>>
      /\ psWork' = [psWork EXCEPT ![1].file = None, ![1].copy = 0]
  BY DEF SaveStep
<1>2. 1 \in PsWorker /\ WorkOK(psWork) /\ MemOK(psMem)
  BY TheWorker DEF PeerInv
<1>3. PICK todo : todo = psWork[1].todo
  OBVIOUS
<1>4. WorkOK(psWork') /\ psWork'[1].todo = todo
  BY <1>1, <1>2, <1>3, WorkChanges
<1>5. /\ TodoOK(todo, psMem.gossip) /\ psHeard \cup PendingOf(todo) \subseteq Known
      /\ \A s \in PsServer : Current(s, psMem.gossip, psMem.query, psHeard, todo)
  BY <1>3 DEF PeerInv, Known
<1> QED BY <1>1, <1>2, <1>4, <1>5, StepsKeep

\* upsert of the gossip table: the newest announcement wins.
LEMMA UpsertKeeps == ASSUME PeerInv, OneAtATime, UpsertStep(1) PROVE PeerInv'
<1>1. NextIs(1, "upsert") /\ UNCHANGED <<psConf, psNet, psMember, psClock>>
  BY DEF UpsertStep
<1>2. 1 \in PsWorker /\ WorkOK(psWork) /\ MemOK(psMem)
  BY TheWorker DEF PeerInv
<1>3. PICK todo : todo = psWork[1].todo
  OBVIOUS
<1>4. /\ todo # <<>> /\ Head(todo) = todo[1] /\ todo[1].do = "upsert" /\ TodoOK(todo, psMem.gossip)
      /\ StepOK(todo[1]) /\ Len(todo) \in Nat /\ Len(todo) > 0
      /\ \A s \in PsServer : Current(s, psMem.gossip, psMem.query, psHeard, todo)
  BY <1>1, <1>3, UnderWay
<1>5. PICK t : t = Tail(todo)
  OBVIOUS
<1>6. /\ t \in Seq(Range(t)) /\ \A i \in 1..Len(t) : StepOK(t[i]) /\ ~IsQueryPut(t[i])
      /\ \A g : TodoOK(t, g)
      /\ PendingOf(t) \subseteq PendingOf(todo)
  BY <1>4, <1>5, RestTodo
<1>7. PICK s0 \in PsServer : s0 = todo[1].server
  BY <1>4 DEF StepOK
<1>8. PICK r, x : r = todo[1].value /\ x = Heard(s0, r)
  OBVIOUS
<1>9. x.server = s0 /\ x.inc = r.inc /\ x.addr = r.addr
  BY <1>8 DEF Heard
<1>10. x \in PendingOf(todo)
  <2>1. 1 \in 1..Len(todo) /\ IsUpsert(todo[1])
    BY <1>4 DEF IsUpsert
  <2> QED BY <1>7, <1>8, <2>1 DEF PendingOf
<1>11. HasOrigin(x, psMember, psNet) /\ \A y \in psHeard : HasOrigin(y, psMember, psNet)
  BY <1>3, <1>10 DEF PeerInv, Known
<1>12. r.inc \in Nat /\ r.inc # 0 /\ \A y \in psHeard : y.inc \in Nat
  BY <1>9, <1>11 DEF HasOrigin
<1>13. r # NoNode
  <2>1. NoNode.inc = 0
    BY DEF NoNode
  <2> QED BY <1>12, <2>1
<1>14. psHeard' = psHeard \cup {x}
  BY <1>3, <1>4, <1>7, <1>8 DEF UpsertStep, Heard
<1>15. \A s \in PsServer : ~OnItsWay(s, todo)
  BY <1>4 DEF OnItsWay, IsQueryPut
<1>16. PICK g : g = psMem.gossip
  OBVIOUS
<1>17. g = [s \in PsServer |-> g[s]]
  BY <1>2, <1>16 DEF MemOK
<1>18. CASE Supersedes(r, g[s0])
  <2>1. PICK p, table : p = Put("query", s0, r.addr) /\ table = [g EXCEPT ![s0] = r]
    OBVIOUS
  <2>2. p.do = "put" /\ p.file = "query" /\ p.server = s0 /\ p.value = r.addr
    BY <2>1 DEF Put
  <2>3. PICK next : next = <<p>> \o t
    OBVIOUS
  <2>4. /\ psMem' = [psMem EXCEPT !["gossip"] = table]
        /\ psWork' = [psWork EXCEPT ![1] = [todo |-> next, file |-> "gossip", copy |-> table]]
    BY <1>3, <1>4, <1>5, <1>7, <1>8, <1>16, <1>18, <2>1, <2>3 DEF UpsertStep, Edit
  <2>5. WorkOK(psWork') /\ psWork'[1].todo = next
    BY <1>2, <2>4, WorkChanges
  <2>6. table = [s \in PsServer |-> table[s]] /\ table[s0] = r /\ \A s \in PsServer : s # s0 => table[s] = g[s]
    BY <1>17, <2>1
  <2>7. MemOK(psMem') /\ psMem'.gossip = table /\ psMem'.query = psMem.query
    <3>1. PICK file : file = "gossip"
      OBVIOUS
    <3>2. Replaced(psMem, file, table, psMem') /\ file \in {"query", "gossip", "repl", "ident", "endpoint"}
      BY <2>4, <3>1 DEF Replaced
    <3>3. /\ MemOK(psMem')
          /\ psMem'.query = (IF file = "query" THEN table ELSE psMem.query)
          /\ psMem'.gossip = (IF file = "gossip" THEN table ELSE psMem.gossip)
      BY <1>2, <2>6, <3>2, MemEdit
    <3> QED BY <3>1, <3>3
  <2>8. PICK a : a = <<p>>
    OBVIOUS
  <2>9. a \in Seq({p}) /\ Len(a) = 1 /\ a[1] = p
    BY <2>8
  <2>10. a \in Seq(Range(a))
    BY <2>9, SeqOfRange
  <2>11. /\ next \in Seq(Range(next)) /\ Len(next) > 0 /\ next[1] = p
         /\ \A i \in 1..Len(next) : \/ i \in 1..Len(a) /\ next[i] = a[i]
                                    \/ i > Len(a) /\ \E j \in 1..Len(t) : next[i] = t[j]
    <3>1. Len(a) > 0 /\ Joined(a, t, next)
      BY <2>3, <2>8, <2>9 DEF Joined
    <3>2. /\ next \in Seq(Range(next)) /\ Len(next) \in Nat
          /\ \A i \in 1..Len(next) : \/ i \in 1..Len(a) /\ next[i] = a[i]
                                     \/ i > Len(a) /\ \E j \in 1..Len(t) : next[i] = t[j]
          /\ Len(a) > 0 => Len(next) > 0 /\ next[1] = a[1]
      BY <1>6, <2>10, <3>1, Before
    <3> QED BY <2>9, <3>1, <3>2
  <2>12. \A i \in 1..Len(next) : \/ i = 1 /\ next[i] = p
                                 \/ \E j \in 1..Len(t) : next[i] = t[j]
    BY <2>9, <2>11
  <2>13. TodoOK(next, table)
    <3>1. StepOK(p)
      BY <2>2 DEF StepOK
    <3>2. ASSUME NEW i \in 1..Len(next)
          PROVE  /\ StepOK(next[i])
                 /\ IsQueryPut(next[i]) => i = 1 /\ table[next[i].server] # NoNode
                                           /\ next[i].value = table[next[i].server].addr
      <4>1. CASE i = 1 /\ next[i] = p
        BY <1>13, <2>2, <2>6, <3>1, <4>1
      <4>2. CASE \E j \in 1..Len(t) : next[i] = t[j]
        BY <1>6, <4>2
      <4> QED BY <2>12, <4>1, <4>2
    <3> QED BY <2>11, <3>2 DEF TodoOK
  <2>14. PendingOf(next) \subseteq PendingOf(todo)
    <3>1. SUFFICES ASSUME NEW y \in PendingOf(next) PROVE y \in PendingOf(t)
      BY <1>6
    <3>2. PICK i \in 1..Len(next) : IsUpsert(next[i]) /\ y = Heard(next[i].server, next[i].value)
      BY <3>1 DEF PendingOf
    <3>3. next[i] # p
      BY <2>2, <3>2 DEF IsUpsert
    <3>4. PICK j \in 1..Len(t) : next[i] = t[j]
      BY <2>12, <3>3
    <3> QED BY <3>2, <3>4 DEF PendingOf
  <2>15. psHeard' \cup PendingOf(next) \subseteq Known
    BY <1>3, <1>10, <1>14, <2>14 DEF Known
  <2>16. ASSUME NEW s \in PsServer PROVE Current(s, table, psMem.query, psHeard', next)
    <3>1. Current(s, g, psMem.query, psHeard, todo) /\ ~OnItsWay(s, todo)
      BY <1>4, <1>15, <1>16
    <3>2. CASE s = s0
      <4>1. OnItsWay(s, next)
        BY <2>2, <2>11, <3>2 DEF OnItsWay, IsQueryPut
      <4>2. ASSUME NEW y \in psHeard, y.server = s PROVE y.inc <= r.inc
        <5>1. g[s] # NoNode /\ g[s].inc \in Nat /\ y.inc <= g[s].inc
          BY <3>1, <4>2 DEF Current
        <5>2. r.inc >= g[s].inc
          BY <1>18, <3>2, <5>1 DEF Supersedes
        <5>3. PICK i \in Nat, j \in Nat, k \in Nat : i = y.inc /\ j = g[s].inc /\ k = r.inc
          BY <1>12, <5>1
        <5> QED BY <5>1, <5>2, <5>3
      <4>3. x.inc <= r.inc /\ Heard(s, table[s]) = x /\ table[s] = r
        BY <1>8, <1>9, <1>12, <2>6, <3>2
      <4> QED BY <1>12, <1>13, <1>14, <4>1, <4>2, <4>3 DEF Current
    <3>3. CASE s # s0
      <4>1. table[s] = g[s] /\ x.server # s
        BY <1>9, <2>6, <3>3
      <4> QED BY <1>14, <3>1, <4>1 DEF Current
    <3> QED BY <3>2, <3>3
  <2> QED BY <1>1, <2>5, <2>7, <2>13, <2>15, <2>16, StepsKeep
<1>19. CASE ~Supersedes(r, g[s0])
  <2>1. psMem' = psMem /\ psWork' = [psWork EXCEPT ![1].todo = t]
    BY <1>3, <1>4, <1>5, <1>7, <1>8, <1>16, <1>19 DEF UpsertStep
  <2>2. WorkOK(psWork') /\ psWork'[1].todo = t
    BY <1>2, <2>1, WorkChanges
  <2>3. psHeard' \cup PendingOf(t) \subseteq Known
    BY <1>3, <1>6, <1>10, <1>14 DEF Known
  <2>4. g[s0] # NoNode /\ ~(r.inc >= g[s0].inc)
    BY <1>19 DEF Supersedes
  <2>5. ASSUME NEW s \in PsServer PROVE Current(s, g, psMem.query, psHeard', t)
    <3>1. Current(s, g, psMem.query, psHeard, todo) /\ ~OnItsWay(s, todo)
      BY <1>4, <1>15, <1>16
    <3>2. CASE s = s0
      <4>1. g[s].inc \in Nat
        BY <2>4, <3>1, <3>2 DEF Current
      <4>2. x.inc <= g[s].inc
        BY <1>9, <1>12, <2>4, <3>2, <4>1
      <4> QED BY <1>14, <2>4, <3>1, <3>2, <4>2 DEF Current
    <3>3. CASE s # s0
      BY <1>9, <1>14, <3>1, <3>3 DEF Current
    <3> QED BY <3>2, <3>3
  <2>6. TodoOK(t, psMem'.gossip) /\ MemOK(psMem')
    BY <1>2, <1>6, <2>1
  <2> QED BY <1>1, <1>16, <2>1, <2>2, <2>3, <2>5, <2>6, StepsKeep
<1> QED BY <1>18, <1>19

-----------------------------------------------------------------------------
(* Every step keeps the invariant.                                         *)
LEMMA PeerNextKeeps == ASSUME PeerInv, OneAtATime, [PeerNext]_psVars PROVE PeerInv'
<1>1. /\ (\A w \in 1..psConf.workers : w = 1) /\ psConf.kills = 0 /\ "query" \notin psConf.ops
      /\ psConf.peers \subseteq PsServer
  BY TheWorker DEF PeerInv
<1>2. CASE \E s \in psConf.peers, a \in PsAddr, t \in {TRUE, ~psConf.token} : Announce(s, a, t)
  BY <1>2, AnnounceKeeps
<1>3. CASE \E s \in psConf.peers, a \in PsAddr, st \in {"active", "removed"} : ChangeMembership(s, a, st)
  BY <1>3, MembershipKeeps
<1>4. CASE Tick
  BY <1>4, TickKeeps
<1>5. CASE ReopenPeerStores
  BY <1>1, <1>5 DEF ReopenPeerStores
<1>6. CASE \E m \in psNet : ApplyGossipNode(1, m)
  BY <1>6, ApplyKeeps
<1>7. CASE FanoutGossipOnce(1, CHOOSE a \in PsAddr : TRUE)
  BY <1>7, FanoutKeeps DEF HomeAddr
<1>8. CASE RefreshGossipFromMembership(1) \/ NegotiateGossipReplicationPeers(1)
  BY <1>8, RefreshKeeps, NegotiateGossipKeeps
<1>9. CASE \E s \in psConf.peers, a \in PsAddr :
             \/ RegisterQueryPeer(1, s, a)
             \/ NegotiateReplicationPeer(1, s, a)
             \/ \E node \in {0} \cup PsServer : RegisterReplicationPeerEndpoint(1, s, a, node)
  <2>1. PICK s \in PsServer, a \in PsAddr :
             \/ RegisterQueryPeer(1, s, a)
             \/ NegotiateReplicationPeer(1, s, a)
             \/ \E node \in {0} \cup PsServer : RegisterReplicationPeerEndpoint(1, s, a, node)
    BY <1>1, <1>9
  <2>2. ~RegisterQueryPeer(1, s, a)
    BY <1>1 DEF RegisterQueryPeer
  <2> QED BY <2>1, <2>2, NegotiateKeeps, RegisterKeeps
<1>10. CASE \E s \in psConf.peers : UnregisterQueryPeer(1, s) \/ UnregisterReplicationPeer(1, s)
  <2>1. PICK s \in PsServer : UnregisterQueryPeer(1, s) \/ UnregisterReplicationPeer(1, s)
    BY <1>1, <1>10
  <2>2. ~UnregisterQueryPeer(1, s)
    BY <1>1 DEF UnregisterQueryPeer
  <2> QED BY <2>1, <2>2, RegisterKeeps
<1>11. CASE PutStep(1) \/ UpsertStep(1) \/ SaveStep(1) \/ EndpointStep(1) \/ HelloStep(1)
  BY <1>11, PutKeeps, UpsertKeeps, SaveKeeps, EndpointKeeps, HelloKeeps
<1>12. CASE UNCHANGED psVars
  BY <1>12 DEF psVars, PeerInv, Known
<1> QED BY ZenonT(60), <1>1, <1>2, <1>3, <1>4, <1>5, <1>6, <1>7, <1>8, <1>9, <1>10, <1>11, <1>12 DEF PeerNext

(* However late, repeated or reordered the announcements of any number of  *)
(* servers arrive, and whatever a refresh from the membership adds between *)
(* them, queries go to the address of the newest announcement of a server, *)
(* as long as one request at a time edits the tables (two workers may      *)
(* reorder their writes to the query peers), no kill falls between the two *)
(* tables and no administrator registers a query peer by hand.             *)
THEOREM QueriesFollowGossip ==
  ASSUME OneAtATime
  PROVE  PeerSpec => []QueriesGoToNewest
<1>1. PeerInit => PeerInv
  BY PeerInitInv
<1>2. PeerInv /\ [PeerNext]_psVars => PeerInv'
  BY PeerNextKeeps
<1>3. PeerInv => QueriesGoToNewest
  <2>1. SUFFICES ASSUME PeerInv, Quiet, NEW m \in psHeard,
                        \A n \in psHeard : n.server = m.server => n.inc <= m.inc
                 PROVE  psMem.query[m.server] = m.addr
    BY DEF QueriesGoToNewest
  <2>2. psWork[1] = [todo |-> <<>>, file |-> None, copy |-> 0]
    BY <2>1, TheWorker DEF Quiet, Idle, NoWork, PeerInv
  <2>3. PICK todo, s, g : todo = psWork[1].todo /\ s = m.server /\ g = psMem.gossip
    OBVIOUS
  <2>4. Len(todo) = 0
    BY <2>2, <2>3
  <2>5. s \in PsServer /\ m.inc \in Nat
    BY <2>1, <2>3 DEF PeerInv, Known, HasOrigin
  <2>6. Current(s, g, psMem.query, psHeard, todo) /\ ~OnItsWay(s, todo)
    BY <2>1, <2>3, <2>4, <2>5 DEF PeerInv, OnItsWay
  <2>7. /\ g[s].inc \in Nat /\ Heard(s, g[s]) \in psHeard /\ m.inc <= g[s].inc
        /\ psMem.query[s] = g[s].addr
    BY <2>1, <2>3, <2>6 DEF Current
  <2>8. PICK x \in psHeard : x.server = s /\ x.inc = g[s].inc /\ x.addr = g[s].addr
    BY <2>7 DEF Heard
  <2>9. x.inc = m.inc
    <3>1. x.inc <= m.inc
      BY <2>1, <2>3, <2>8
    <3> QED BY <2>5, <2>7, <2>8, <3>1
  <2>10. SameAddress(x, m)
    BY <2>1 DEF PeerInv, Known
  <2> QED BY <2>3, <2>7, <2>8, <2>9, <2>10 DEF SameAddress
<1> QED BY <1>1, <1>2, <1>3, PTL DEF PeerSpec

-----------------------------------------------------------------------------
\* What the guarantee needs of an instance: one request at a time edits the
\* tables.  Kills and requests of every kind are allowed.
OneWorker == \A c \in PsConf : c.workers = 1

\* A loop: every server in it registered with the node id of another in it.
Loop(ident, C) == C # {} /\ \A s \in C : ident[s].node \in C \ {s}

NoLoop(ident) == \A C \in SUBSET PsServer : ~Loop(ident, C)

IdentOK(ident) ==
    /\ ident = [s \in PsServer |-> [addr |-> ident[s].addr, node |-> ident[s].node]]
    /\ \A s \in PsServer : ident[s].node \in {0} \cup PsServer
    /\ NoLoop(ident)

-----------------------------------------------------------------------------
(* The two walks along node ids.                                           *)

\* A nonempty set of naturals has a smallest element.
LEMMA LeastOf ==
  ASSUME NEW S, S \subseteq Nat, S # {}
  PROVE  \E x \in S : \A y \in S : x <= y
<1> DEFINE R == {ss \in Nat \X Nat : ss[1] < ss[2]}
<1>1. R = OpToRel(<, Nat)
  BY DEF OpToRel
<1>2. IsWellFoundedOn(R, Nat)
  BY <1>1, NatLessThanWellFounded
<1> HIDE DEF R
<1>3. PICK x \in S : \A y \in S : ~(<<y, x>> \in R)
  BY <1>2, WFMin
<1>4. ASSUME NEW y \in S PROVE x <= y
  <2>1. <<y, x>> \in Nat \X Nat
    OBVIOUS
  <2>2. ~(y < x)
    BY <1>3, <2>1 DEF R
  <2> QED BY <2>2
<1> QED BY <1>3, <1>4

\* A set of naturals with 0 and the successor of each of its members has all.
LEMMA AllOf ==
  ASSUME NEW S, 0 \in S, \A k \in Nat : k \in S => k + 1 \in S, NEW n \in Nat
  PROVE  n \in S
<1>1. SUFFICES ASSUME n \notin S PROVE FALSE
  OBVIOUS
<1>2. PICK x \in Nat \ S : \A y \in Nat \ S : x <= y
  BY <1>1, LeastOf
<1>3. x # 0
  BY <1>2
<1>4. x - 1 \in Nat /\ ~(x <= x - 1) /\ (x - 1) + 1 = x
  BY <1>2, <1>3
<1> QED BY <1>2, <1>4

\* One step of the walk of would_create_cycle, and the walk up to n.
WalkOn(ident, w) ==
    IF w.at = 0 \/ w.at \in w.seen THEN w ELSE [seen |-> w.seen \cup {w.at}, at |-> ident[w.at].node]
IsWalk(ident, start, node, f, n) ==
    f = [i \in 0..n |-> IF i = 0 THEN [seen |-> {start}, at |-> node] ELSE WalkOn(ident, f[i - 1])]

\* There is a walk of every length.
LEMMA WalkExists ==
  ASSUME NEW ident, NEW start, NEW node, NEW n \in Nat
  PROVE  \E f : IsWalk(ident, start, node, f, n)
<1> DEFINE S == {k \in Nat : \E f : IsWalk(ident, start, node, f, k)}
           w0 == [seen |-> {start}, at |-> node]
<1>1. 0 \in S
  <2>1. PICK f : f = [i \in 0..0 |-> w0]
    OBVIOUS
  <2>2. f = [i \in 0..0 |-> IF i = 0 THEN w0 ELSE WalkOn(ident, f[i - 1])]
    BY <2>1
  <2> QED BY <2>2 DEF IsWalk
<1>2. ASSUME NEW k \in Nat, k \in S PROVE k + 1 \in S
  <2> HIDE DEF w0
  <2>1. PICK f : f = [i \in 0..k |-> IF i = 0 THEN w0 ELSE WalkOn(ident, f[i - 1])]
    BY <1>2 DEF IsWalk, w0
  <2>2. PICK g : g = [i \in 0..(k + 1) |-> IF i <= k THEN f[i] ELSE WalkOn(ident, f[k])]
    OBVIOUS
  <2>3. ASSUME NEW i \in 0..(k + 1)
        PROVE  g[i] = IF i = 0 THEN w0 ELSE WalkOn(ident, g[i - 1])
    <3>1. CASE i = 0
      BY <2>1, <2>2, <3>1
    <3>2. CASE i # 0 /\ i <= k
      <4>1. i \in 0..k /\ i - 1 \in 0..k /\ i - 1 \in 0..(k + 1) /\ i - 1 <= k
        BY <3>2
      <4> QED BY <2>1, <2>2, <3>2, <4>1
    <3>3. CASE i = k + 1
      <4>1. ~(i <= k) /\ i - 1 = k /\ k \in 0..(k + 1) /\ i # 0
        BY <3>3
      <4> QED BY <2>2, <4>1
    <3> QED BY <3>1, <3>2, <3>3
  <2>4. g = [i \in 0..(k + 1) |-> IF i = 0 THEN w0 ELSE WalkOn(ident, g[i - 1])]
    BY <2>2, <2>3
  <2> QED BY <2>4 DEF IsWalk, w0
<1> HIDE DEF S
<1>3. n \in S
  BY <1>1, <1>2, AllOf
<1> QED BY <1>3 DEF S

\* A walk from a set of servers that only start leads out of stays in it.
LEMMA WalkStays ==
  ASSUME NEW ident, NEW start, NEW node, NEW C, node \in C, 0 \notin C,
         \A t \in C \ {start} : ident[t].node \in C
  PROVE  ChainEnd(ident, start, node) \in C
<1>1. PICK n \in Nat : n = Cardinality(PsServer)
  BY FS_CardinalityType, PsAssumption
<1>2. PICK f : f = CHOOSE g : IsWalk(ident, start, node, g, n)
  OBVIOUS
<1>3. IsWalk(ident, start, node, f, n)
  BY <1>2, WalkExists
<1>4. ChainEnd(ident, start, node) = f[n].at
  BY <1>1, <1>2 DEF ChainEnd, IsWalk, WalkOn
<1>5. \A i \in 0..n : f[i] = IF i = 0 THEN [seen |-> {start}, at |-> node] ELSE WalkOn(ident, f[i - 1])
  BY <1>3 DEF IsWalk
<1> DEFINE S == {k \in Nat : k <= n => f[k].at \in C /\ start \in f[k].seen}
<1>6. 0 \in S
  BY <1>5
<1>7. ASSUME NEW k \in Nat, k \in S PROVE k + 1 \in S
  <2>1. SUFFICES ASSUME k + 1 <= n PROVE f[k + 1].at \in C /\ start \in f[k + 1].seen
    OBVIOUS
  <2>2. k <= n /\ k + 1 \in 0..n /\ k + 1 # 0 /\ (k + 1) - 1 = k
    BY <2>1
  <2>3. PICK w : w = f[k] /\ w.at \in C /\ start \in w.seen
    BY <1>7, <2>2
  <2>4. f[k + 1] = WalkOn(ident, w)
    BY <1>5, <2>2, <2>3
  <2>5. CASE w.at \in w.seen
    BY <2>3, <2>4, <2>5 DEF WalkOn
  <2>6. CASE w.at \notin w.seen
    <3>1. w.at # start /\ w.at # 0
      BY <2>3, <2>6
    <3>2. ident[w.at].node \in C
      BY <2>3, <3>1
    <3> QED BY <2>3, <2>4, <2>6, <3>1, <3>2 DEF WalkOn
  <2> QED BY <2>5, <2>6
<1> HIDE DEF S
<1>8. n \in S
  BY <1>6, <1>7, AllOf
<1> QED BY <1>4, <1>8 DEF S

\* The servers reached from next in at most n hops.
HopOn(stores, h) == h \cup {stores[t].node : t \in h \ {0}}
IsHops(stores, next, f, n) == f = [i \in 0..n |-> IF i = 0 THEN {next} ELSE HopOn(stores, f[i - 1])]

\* There are hops of every length.
LEMMA HopsExist ==
  ASSUME NEW stores, NEW next, NEW n \in Nat
  PROVE  \E f : IsHops(stores, next, f, n)
<1> DEFINE S == {k \in Nat : \E f : IsHops(stores, next, f, k)}
<1>1. 0 \in S
  <2>1. PICK f : f = [i \in 0..0 |-> {next}]
    OBVIOUS
  <2>2. f = [i \in 0..0 |-> IF i = 0 THEN {next} ELSE HopOn(stores, f[i - 1])]
    BY <2>1
  <2> QED BY <2>2 DEF IsHops
<1>2. ASSUME NEW k \in Nat, k \in S PROVE k + 1 \in S
  <2>1. PICK f : f = [i \in 0..k |-> IF i = 0 THEN {next} ELSE HopOn(stores, f[i - 1])]
    BY <1>2 DEF IsHops
  <2>2. PICK g : g = [i \in 0..(k + 1) |-> IF i <= k THEN f[i] ELSE HopOn(stores, f[k])]
    OBVIOUS
  <2>3. ASSUME NEW i \in 0..(k + 1)
        PROVE  g[i] = IF i = 0 THEN {next} ELSE HopOn(stores, g[i - 1])
    <3>1. CASE i = 0
      BY <2>1, <2>2, <3>1
    <3>2. CASE i # 0 /\ i <= k
      <4>1. i \in 0..k /\ i - 1 \in 0..k /\ i - 1 \in 0..(k + 1) /\ i - 1 <= k
        BY <3>2
      <4> QED BY <2>1, <2>2, <3>2, <4>1
    <3>3. CASE i = k + 1
      <4>1. ~(i <= k) /\ i - 1 = k /\ k \in 0..(k + 1) /\ i # 0
        BY <3>3
      <4> QED BY <2>2, <4>1
    <3> QED BY <3>1, <3>2, <3>3
  <2>4. g = [i \in 0..(k + 1) |-> IF i = 0 THEN {next} ELSE HopOn(stores, g[i - 1])]
    BY <2>2, <2>3
  <2> QED BY <2>4 DEF IsHops
<1> HIDE DEF S
<1>3. n \in S
  BY <1>1, <1>2, AllOf
<1> QED BY <1>3 DEF S

-----------------------------------------------------------------------------
(* Loops.                                                                  *)

IsIdentity(v) == v = [addr |-> v.addr, node |-> v.node]
IdentReplaced(ident, s, v, next) == next = [ident EXCEPT ![s] = v]

\* One entry of the identities is replaced.
LEMMA IdentSet ==
  ASSUME NEW ident, IdentOK(ident), NEW s \in PsServer, NEW v, IsIdentity(v),
         NEW next, IdentReplaced(ident, s, v, next)
  PROVE  /\ next[s] = v /\ \A t \in PsServer \ {s} : next[t] = ident[t]
         /\ next = [t \in PsServer |-> [addr |-> next[t].addr, node |-> next[t].node]]
<1>1. PICK tab : tab = [t \in PsServer |-> [addr |-> ident[t].addr, node |-> ident[t].node]] /\ ident = tab
  BY DEF IdentOK
<1>2. next = [t \in PsServer |-> IF t = s THEN v ELSE tab[t]]
  BY <1>1 DEF IdentReplaced
<1>3. \A t \in PsServer : next[t] = IF t = s THEN v ELSE tab[t]
  BY <1>2
<1>4. \A t \in PsServer : next[t] = [addr |-> next[t].addr, node |-> next[t].node]
  <2>1. TAKE t \in PsServer
  <2>2. tab[t] = [addr |-> ident[t].addr, node |-> ident[t].node]
    BY <1>1
  <2>3. CASE t = s
    BY <1>3, <2>3 DEF IsIdentity
  <2>4. CASE t # s
    BY <1>3, <2>2, <2>4
  <2> QED BY <2>3, <2>4
<1>5. next = [t \in PsServer |-> next[t]]
  BY <1>2
<1> QED BY <1>1, <1>3, <1>4, <1>5

\* A registration under no node id or the server's own closes no loop, and
\* neither does one that would_create_cycle lets pass: a loop through s would
\* hold the whole walk from node, which ends outside of it.
LEMMA NoNewLoop ==
  ASSUME NEW ident, IdentOK(ident), NEW s \in PsServer, NEW v, IsIdentity(v),
         v.node \in {0} \cup PsServer, ~WouldCreateCycle(ident, s, v.node),
         NEW next, IdentReplaced(ident, s, v, next)
  PROVE  IdentOK(next)
<1>1. /\ next[s] = v /\ \A t \in PsServer \ {s} : next[t] = ident[t]
      /\ next = [t \in PsServer |-> [addr |-> next[t].addr, node |-> next[t].node]]
  BY IdentSet
<1>2. \A t \in PsServer : next[t].node \in {0} \cup PsServer
  BY <1>1 DEF IdentOK
<1>3. ASSUME NEW C \in SUBSET PsServer, Loop(next, C) PROVE FALSE
  <2>1. 0 \notin C
    BY PsAssumption
  <2>2. CASE s \in C
    <3>1. v.node \in C /\ v.node # s /\ v.node # 0
      BY <1>1, <1>3, <2>1, <2>2 DEF Loop
    <3>2. \A t \in C \ {s} : ident[t].node \in C
      BY <1>1, <1>3 DEF Loop
    <3>3. ChainEnd(ident, s, v.node) \in C
      BY <2>1, <3>1, <3>2, WalkStays
    <3> QED BY <2>1, <3>1, <3>3 DEF WouldCreateCycle
  <2>3. CASE s \notin C
    <3>1. Loop(ident, C)
      BY <1>1, <1>3, <2>3 DEF Loop
    <3> QED BY <3>1 DEF IdentOK, NoLoop
  <2> QED BY <2>2, <2>3
<1> QED BY <1>1, <1>2, <1>3 DEF IdentOK, NoLoop

\* What a file of identities holds is what a restart loads.
LEMMA RoundTrip ==
  ASSUME NEW d, IdentOK(d)
  PROVE  LoadIdentities(SaveIdentities(d)) = d
<1>1. \A s \in PsServer : d[s] = [addr |-> d[s].addr, node |-> d[s].node]
  BY DEF IdentOK
<1> DEFINE lines == SaveIdentities(d)
<1>2. ASSUME NEW s \in PsServer
      PROVE  (IF \E l \in lines : l[1] = s THEN DecodeIdentity(CHOOSE l \in lines : l[1] = s) ELSE NoIdentity) = d[s]
  <2>1. CASE d[s] = NoIdentity
    <3>1. ~\E l \in lines : l[1] = s
      BY <2>1 DEF SaveIdentities, EncodeIdentity
    <3> QED BY <2>1, <3>1
  <2>2. CASE d[s] # NoIdentity
    <3>1. PICK k : k = EncodeIdentity(s, d[s])
      OBVIOUS
    <3>2. k \in lines /\ k[1] = s
      BY <2>2, <3>1 DEF SaveIdentities, EncodeIdentity
    <3>3. \A l \in lines : l[1] = s => l = k
      BY <3>1 DEF SaveIdentities, EncodeIdentity
    <3>4. (CHOOSE l \in lines : l[1] = s) = k
      <4> HIDE DEF lines
      <4> QED BY <3>2, <3>3
    <3>5. PICK a, n : a = d[s].addr /\ n = d[s].node
      OBVIOUS
    <3>6. d[s] = [addr |-> a, node |-> n]
      BY <1>1, <3>5
    <3>7. k = <<s, a, IF n = 0 THEN <<>> ELSE <<n>>>>
      BY <3>1, <3>5 DEF EncodeIdentity
    <3>8. k[2] = a /\ k[3] = IF n = 0 THEN <<>> ELSE <<n>>
      BY <3>7
    <3>9. (IF k[3] = <<>> THEN 0 ELSE k[3][1]) = n
      BY <3>8
    <3>10. DecodeIdentity(k) = d[s]
      BY <3>6, <3>8, <3>9 DEF DecodeIdentity
    <3> HIDE DEF lines
    <3> QED BY <3>2, <3>4, <3>10
  <2> QED BY <2>1, <2>2
<1>3. d = [s \in PsServer |-> d[s]]
  BY DEF IdentOK
<1>4. LoadIdentities(lines)
        = [s \in PsServer |-> IF \E l \in lines : l[1] = s THEN DecodeIdentity(CHOOSE l \in lines : l[1] = s)
                             ELSE NoIdentity]
  BY DEF LoadIdentities
<1> HIDE DEF lines
<1>5. LoadIdentities(lines) = [s \in PsServer |-> d[s]]
  BY <1>2, <1>4
<1> QED BY <1>3, <1>5 DEF lines

\* The servers from which one can get to s: the smallest set with s and with
\* every server whose node id is in it.
Back(stores, X) == \A u \in PsServer : stores[u].node \in X => u \in X
LeadTo(stores, s) == {t \in PsServer : \A X \in SUBSET PsServer : s \in X /\ Back(stores, X) => t \in X}

\* Without loops nobody gets from s back to s: the servers that lead to s
\* would be one.
LEMMA NoReturn ==
  ASSUME NEW stores, IdentOK(stores), NEW s \in PsServer, NEW next, next = stores[s].node, next # 0, next # s,
         NEW n \in Nat, NEW f, IsHops(stores, next, f, n)
  PROVE  s \notin f[n]
<1>1. SUFFICES ASSUME s \in f[n] PROVE FALSE
  OBVIOUS
<1>2. PICK D \in SUBSET PsServer : D = LeadTo(stores, s)
  BY DEF LeadTo
<1>3. s \in D
  BY <1>2 DEF LeadTo
<1>4. Back(stores, D)
  <2>1. SUFFICES ASSUME NEW u \in PsServer, stores[u].node \in D,
                        NEW X \in SUBSET PsServer, s \in X, Back(stores, X)
                 PROVE  u \in X
    BY <1>2 DEF LeadTo, Back
  <2>2. stores[u].node \in X
    BY <1>2, <2>1 DEF LeadTo
  <2> QED BY <2>1, <2>2 DEF Back
<1>5. ASSUME NEW t \in D, t # s PROVE stores[t].node \in D \ {t}
  <2>1. SUFFICES ASSUME stores[t].node \notin D \ {t} PROVE FALSE
    OBVIOUS
  <2>2. Back(stores, D \ {t})
    BY <1>4, <2>1 DEF Back
  <2>3. t \in D \ {t}
    <3>1. D \ {t} \in SUBSET PsServer /\ s \in D \ {t}
      BY <1>3, <1>5
    <3> QED BY <1>2, <2>2, <3>1 DEF LeadTo
  <2> QED BY <2>3
<1>6. next \in D
  <2>1. SUFFICES ASSUME next \notin D PROVE FALSE
    OBVIOUS
  <2>2. \A i \in 0..n : f[i] = IF i = 0 THEN {next} ELSE HopOn(stores, f[i - 1])
    BY DEF IsHops
  <2> DEFINE S == {k \in Nat : k <= n => f[k] \subseteq {0} \cup (PsServer \ D)}
  <2>3. 0 \in S
    <3>1. next \in PsServer
      BY DEF IdentOK
    <3> QED BY <2>1, <2>2, <3>1
  <2>4. ASSUME NEW k \in Nat, k \in S PROVE k + 1 \in S
    <3>1. SUFFICES ASSUME k + 1 <= n PROVE f[k + 1] \subseteq {0} \cup (PsServer \ D)
      OBVIOUS
    <3>2. k <= n /\ k + 1 \in 0..n /\ k + 1 # 0 /\ (k + 1) - 1 = k
      BY <3>1
    <3>3. f[k + 1] = HopOn(stores, f[k]) /\ f[k] \subseteq {0} \cup (PsServer \ D)
      BY <2>2, <2>4, <3>2
    <3>4. \A t \in PsServer \ D : stores[t].node \in {0} \cup (PsServer \ D)
      BY <1>4 DEF Back, IdentOK
    <3> QED BY <3>3, <3>4 DEF HopOn
  <2> HIDE DEF S
  <2>5. n \in S
    BY <2>3, <2>4, AllOf
  <2>6. f[n] \subseteq {0} \cup (PsServer \ D)
    BY <2>5 DEF S
  <2> QED BY <1>1, <1>3, <2>6, PsAssumption
<1>7. Loop(stores, D)
  BY <1>3, <1>5, <1>6 DEF Loop
<1> QED BY <1>2, <1>7 DEF IdentOK, NoLoop

\* NoIdentityCycle, for one table.
NoCycle(stores) ==
    \A s \in PsServer :
        LET next == stores[s].node IN
        next # 0 /\ next # s =>
            LET hop[n \in 0..Cardinality(PsServer)] ==
                    IF n = 0 THEN {next}
                    ELSE hop[n - 1] \cup {stores[t].node : t \in hop[n - 1] \ {0}}
            IN  s \notin hop[Cardinality(PsServer)]

\* A table without loops is a table without cycles.
LEMMA NoCycleIn == ASSUME NEW stores, IdentOK(stores) PROVE NoCycle(stores)
<1> USE DEF NoCycle
<1>1. TAKE s \in PsServer
<1>2. SUFFICES ASSUME NEW next, next = stores[s].node, next # 0, next # s
               PROVE  LET hop[n \in 0..Cardinality(PsServer)] ==
                              IF n = 0 THEN {next}
                              ELSE hop[n - 1] \cup {stores[t].node : t \in hop[n - 1] \ {0}}
                      IN  s \notin hop[Cardinality(PsServer)]
  OBVIOUS
<1>3. PICK n \in Nat : n = Cardinality(PsServer)
  BY FS_CardinalityType, PsAssumption
<1>4. PICK f : f = CHOOSE g : IsHops(stores, next, g, n)
  OBVIOUS
<1>5. IsHops(stores, next, f, n)
  BY <1>4, HopsExist
<1>6. s \notin f[n]
  BY <1>2, <1>5, NoReturn
<1> QED BY <1>3, <1>4, <1>6 DEF IsHops, HopOn

-----------------------------------------------------------------------------
(* The identities, action by action.                                       *)

IsIdentPut(st) == st.do = "put" /\ st.file = "ident"

\* A step that closes no loop whatever the identities are.
PlainStep(st) == StepOK(st) /\ (IsIdentPut(st) => IsIdentity(st.value) /\ st.value.node \in {0, st.server})

\* What is left of a checked registration: its put comes last, nothing before
\* it touches the identities, and with it they have no loop.
Checked(todo, ident) ==
    /\ Len(todo) > 0
    /\ IsIdentPut(todo[Len(todo)]) /\ StepOK(todo[Len(todo)])
    /\ IdentOK([ident EXCEPT ![todo[Len(todo)].server] = todo[Len(todo)].value])
    /\ \A i \in 1..Len(todo) : i # Len(todo) =>
          StepOK(todo[i]) /\ (todo[i].do = "endpoint" \/ (todo[i].do = "put" /\ todo[i].file = "repl"))

TodoSafe(todo, ident) ==
    /\ todo \in Seq(Range(todo))
    /\ (\A i \in 1..Len(todo) : PlainStep(todo[i])) \/ Checked(todo, ident)

MemShape(mem) == mem = [f \in {"query", "gossip", "repl", "ident", "endpoint"} |-> mem[f]]

\* The identities have no loop in memory, in the copy that is yet to be
\* written, in the file, and after what is left of the request.
IdentInv ==
    /\ psConf \in [ops : SUBSET PsRequest, peers : SUBSET PsServer, workers : Nat,
                   kills : Nat, token : BOOLEAN, ttl : Nat]
    /\ psConf.workers = 1 /\ 1 \in PsWorker
    /\ MemShape(psMem) /\ IdentOK(psMem.ident)
    /\ WorkOK(psWork) /\ TodoSafe(psWork[1].todo, psMem.ident)
    /\ psWork[1].file \in {None, "query", "gossip", "repl", "ident"}
    /\ psWork[1].file = "ident" => IdentOK(psWork[1].copy)
    /\ psDisk = [f \in {"query", "gossip", "repl", "ident"} |-> psDisk[f]]
    /\ \E d : IdentOK(d) /\ psDisk.ident = SaveIdentities(d)

\* No identities, no loop.
LEMMA EmptyIdent == IdentOK([s \in PsServer |-> NoIdentity]) /\ SaveIdentities([s \in PsServer |-> NoIdentity]) = {}
<1>1. PICK d : d = [s \in PsServer |-> NoIdentity]
  OBVIOUS
<1>2. \A s \in PsServer : d[s] = [addr |-> None, node |-> 0]
  BY <1>1 DEF NoIdentity
<1>3. \A s \in PsServer : d[s].node = 0 /\ d[s] = [addr |-> d[s].addr, node |-> d[s].node]
  BY <1>2
<1>4. d = [s \in PsServer |-> [addr |-> d[s].addr, node |-> d[s].node]]
  BY <1>1, <1>3
<1>5. NoLoop(d)
  <2>1. SUFFICES ASSUME NEW C \in SUBSET PsServer, Loop(d, C) PROVE FALSE
    BY DEF NoLoop
  <2>2. PICK s \in C : d[s].node \in C
    BY <2>1 DEF Loop
  <2> QED BY <1>3, <2>2, PsAssumption
<1>6. SaveIdentities(d) = {}
  BY <1>1 DEF SaveIdentities
<1> QED BY <1>1, <1>3, <1>4, <1>5, <1>6 DEF IdentOK

\* An empty list of steps.
LEMMA NothingLeft == ASSUME NEW todo, todo = <<>>, NEW ident PROVE TodoSafe(todo, ident)
<1>1. Len(todo) = 0 /\ todo \in Seq(Range(todo))
  OBVIOUS
<1> QED BY <1>1 DEF TodoSafe

\* The tables at the start.
LEMMA IdentInit == ASSUME OneWorker, PeerInit PROVE IdentInv
<1>1. psConf \in PsConf /\ psDisk = EmptyFiles
  BY DEF PeerInit
<1>2. psConf.workers = 1 /\ 1..1 \subseteq PsWorker
  BY <1>1, PsAssumption DEF OneWorker
<1>3. psWork = [w \in PsWorker |-> [todo |-> <<>>, file |-> None, copy |-> 0]]
  BY DEF PeerInit, NoWork
<1>4. \A w \in PsWorker : psWork[w].todo = <<>> /\ psWork[w].file = None /\ psWork[w].copy = 0
  BY <1>3
<1>5. WorkOK(psWork)
  BY <1>3, <1>4 DEF WorkOK, NoWork
<1>6. psWork[1].todo = <<>> /\ psWork[1].file = None /\ 1 \in PsWorker
  BY <1>2, <1>4
<1>7. PICK q, g, r, i, e :
         /\ i = LoadIdentities({})
         /\ psMem = [query |-> q, gossip |-> g, repl |-> r, ident |-> i, endpoint |-> e]
  BY DEF PeerInit, OpenPeerStores, EmptyFiles
<1>8. i = [s \in PsServer |-> NoIdentity]
  BY <1>7 DEF LoadIdentities
<1>9. MemShape(psMem) /\ psMem.ident = i
  BY <1>7 DEF MemShape
<1>10. psDisk = [f \in {"query", "gossip", "repl", "ident"} |-> psDisk[f]] /\ psDisk.ident = {}
  BY <1>1 DEF EmptyFiles
<1>11. None # "ident"
  BY DEF None
<1>12. TodoSafe(psWork[1].todo, psMem.ident)
  BY <1>6, NothingLeft
<1>13. IdentOK(i) /\ SaveIdentities(i) = {}
  BY <1>8, EmptyIdent
<1>14. psConf \in [ops : SUBSET PsRequest, peers : SUBSET PsServer, workers : Nat,
                   kills : Nat, token : BOOLEAN, ttl : Nat]
  BY <1>1, PsAssumption
<1> QED BY <1>2, <1>5, <1>6, <1>9, <1>10, <1>11, <1>12, <1>13, <1>14 DEF IdentInv

\* A kill and a restart: the files are loaded, the request is lost.
LEMMA ReopenIdent == ASSUME IdentInv, ReopenPeerStores PROVE IdentInv'
<1>1. /\ psMem' = OpenPeerStores(psDisk) /\ psDisk' = psDisk
      /\ psWork' = [w \in PsWorker |-> [todo |-> <<>>, file |-> None, copy |-> 0]]
      /\ psConf' = [psConf EXCEPT !.kills = @ - 1] /\ psConf.kills > 0
  BY DEF ReopenPeerStores, NoWork
<1>2. PICK d : IdentOK(d) /\ psDisk.ident = SaveIdentities(d)
  BY DEF IdentInv
<1>3. PICK q, g, r, i, e :
         /\ i = LoadIdentities(psDisk.ident)
         /\ psMem' = [query |-> q, gossip |-> g, repl |-> r, ident |-> i, endpoint |-> e]
  BY <1>1 DEF OpenPeerStores
<1>4. i = d
  BY <1>2, <1>3, RoundTrip
<1>5. MemShape(psMem') /\ psMem'.ident = i
  BY <1>3 DEF MemShape
<1>6. \A w \in PsWorker : psWork'[w].todo = <<>> /\ psWork'[w].file = None /\ psWork'[w].copy = 0
  BY <1>1
<1>7. WorkOK(psWork')
  BY <1>1, <1>6 DEF WorkOK, NoWork
<1>8. psWork'[1].todo = <<>> /\ psWork'[1].file = None
  BY <1>6 DEF IdentInv
<1>9. TodoSafe(psWork'[1].todo, psMem'.ident)
  BY <1>8, NothingLeft
<1>10. /\ psConf' \in [ops : SUBSET PsRequest, peers : SUBSET PsServer, workers : Nat,
                       kills : Nat, token : BOOLEAN, ttl : Nat]
       /\ psConf'.workers = 1
  <2>1. PICK k \in Nat : k = psConf.kills
    BY DEF IdentInv
  <2>2. k - 1 \in Nat
    BY <1>1, <2>1
  <2> QED BY <1>1, <2>1, <2>2 DEF IdentInv
<1>11. None # "ident"
  BY DEF None
<1> QED BY <1>1, <1>2, <1>4, <1>5, <1>7, <1>8, <1>9, <1>10, <1>11 DEF IdentInv

\* A new list of steps; the identities stay.
LEMMA StepsIdent ==
  ASSUME IdentInv, psWork[1].file = None, NEW steps, psWork' = [psWork EXCEPT ![1].todo = steps],
         UNCHANGED <<psConf, psDisk>>, MemShape(psMem'), psMem'.ident = psMem.ident,
         TodoSafe(steps, psMem.ident)
  PROVE  IdentInv'
<1>1. WorkOK(psWork) /\ 1 \in PsWorker
  BY DEF IdentInv
<1>2. WorkOK(psWork') /\ psWork'[1].todo = steps /\ psWork'[1].file = None
  BY <1>1, WorkChanges
<1>3. None # "ident"
  BY DEF None
<1> QED BY <1>2, <1>3 DEF IdentInv

\* A request starts.
LEMMA RequestIdent ==
  ASSUME IdentInv, NEW steps, PeerRequest(1, steps), UNCHANGED <<psConf, psMem, psDisk>>,
         TodoSafe(steps, psMem.ident)
  PROVE  IdentInv'
<1>1. psWork[1] = [todo |-> <<>>, file |-> None, copy |-> 0] /\ psWork' = [psWork EXCEPT ![1].todo = steps]
  BY DEF PeerRequest, Idle, NoWork
<1>2. psWork[1].file = None
  BY <1>1
<1>3. MemShape(psMem') /\ psMem'.ident = psMem.ident
  BY DEF IdentInv
<1> QED BY <1>1, <1>2, <1>3, StepsIdent

\* One table is edited and copied.
LEMMA EditIdent ==
  ASSUME IdentInv, NEW file \in {"query", "gossip", "repl", "ident"}, NEW table, NEW rest,
         Edit(1, file, table, rest), UNCHANGED <<psConf, psDisk>>,
         NEW ident, ident = (IF file = "ident" THEN table ELSE psMem.ident), IdentOK(ident), TodoSafe(rest, ident)
  PROVE  IdentInv'
<1>1. WorkOK(psWork) /\ 1 \in PsWorker /\ MemShape(psMem)
  BY DEF IdentInv
<1>2. /\ psMem' = [psMem EXCEPT ![file] = table]
      /\ psWork' = [psWork EXCEPT ![1] = [todo |-> rest, file |-> file, copy |-> table]]
  BY DEF Edit
<1>3. WorkOK(psWork') /\ psWork'[1].todo = rest /\ psWork'[1].file = file /\ psWork'[1].copy = table
  BY <1>1, <1>2, WorkChanges
<1>4. psMem' = [f \in {"query", "gossip", "repl", "ident", "endpoint"} |-> IF f = file THEN table ELSE psMem[f]]
  BY <1>1, <1>2 DEF MemShape
<1>5. MemShape(psMem') /\ psMem'["ident"] = ident
  BY <1>4 DEF MemShape
<1>6. psMem'.ident = ident
  BY <1>5
<1> QED BY <1>3, <1>5, <1>6 DEF IdentInv

\* The copy reaches its file.
LEMMA SaveIdent == ASSUME IdentInv, SaveStep(1) PROVE IdentInv'
<1>1. /\ UNCHANGED <<psConf, psMem>> /\ psWork[1].file # None
      /\ psDisk' = [psDisk EXCEPT ![psWork[1].file] = Lines(psWork[1].file, psWork[1].copy)]
      /\ psWork' = [psWork EXCEPT ![1].file = None, ![1].copy = 0]
  BY DEF SaveStep
<1>2. WorkOK(psWork) /\ 1 \in PsWorker
  BY DEF IdentInv
<1>3. WorkOK(psWork') /\ psWork'[1].todo = psWork[1].todo /\ psWork'[1].file = None
  BY <1>1, <1>2, WorkChanges
<1>4. PICK file, copy, lines : file = psWork[1].file /\ copy = psWork[1].copy /\ lines = Lines(file, copy)
  OBVIOUS
<1>5. psDisk' = [f \in {"query", "gossip", "repl", "ident"} |-> IF f = file THEN lines ELSE psDisk[f]]
  BY <1>1, <1>4 DEF IdentInv
<1>6. psDisk' = [f \in {"query", "gossip", "repl", "ident"} |-> psDisk'[f]]
  BY <1>5
<1>7. psDisk'["ident"] = IF "ident" = file THEN lines ELSE psDisk["ident"]
  BY <1>5
<1>8. \E d : IdentOK(d) /\ psDisk'.ident = SaveIdentities(d)
  <2>1. CASE file = "ident"
    <3>1. IdentOK(copy) /\ lines = SaveIdentities(copy)
      BY <1>4, <2>1 DEF IdentInv, Lines
    <3> QED BY <1>7, <2>1, <3>1
  <2>2. CASE file # "ident"
    BY <1>7, <2>2 DEF IdentInv
  <2> QED BY <2>1, <2>2
<1>9. None # "ident"
  BY DEF None
<1> QED BY <1>1, <1>3, <1>6, <1>8, <1>9 DEF IdentInv

\* The first step is taken.
LEMMA RestSafe ==
  ASSUME NEW todo, NEW ident, TodoSafe(todo, ident), todo # <<>>, NEW t, t = Tail(todo)
  PROVE  /\ Head(todo) = todo[1] /\ StepOK(todo[1])
         /\ ~IsIdentPut(todo[1]) => TodoSafe(t, ident)
         /\ IsIdentPut(todo[1]) => \A other : TodoSafe(t, other)
         /\ IsIdentPut(todo[1]) => PlainStep(todo[1]) \/ IdentOK([ident EXCEPT ![todo[1].server] = todo[1].value])
         /\ todo[1].do \in {"upsert", "hello"} =>
              t \in Seq(Range(t)) /\ \A i \in 1..Len(t) : PlainStep(t[i])
<1>1. todo \in Seq(Range(todo))
  BY DEF TodoSafe
<1>2. /\ Len(todo) \in Nat /\ Len(todo) > 0 /\ Head(todo) = todo[1] /\ Len(t) \in Nat
      /\ \A i \in 1..Len(t) : i + 1 \in 1..Len(todo) /\ t[i] = todo[i + 1] /\ i + 1 # 1
      /\ t \in Seq(Range(t))
  BY <1>1, RestOf
<1>3. Len(t) = Len(todo) - 1
  BY <1>1, <1>2
<1>4. PICK n \in Nat \ {0} : n = Len(todo) /\ n - 1 = Len(t) /\ n - 1 \in Nat
  <2>1. PICK n \in Nat : n = Len(todo)
    BY <1>2
  <2>2. n \in Nat \ {0} /\ n - 1 \in Nat
    BY <1>2, <2>1
  <2> QED BY <1>3, <2>1, <2>2
<1>5. 1 \in 1..n
  BY <1>4
<1>6. CASE \A i \in 1..n : PlainStep(todo[i])
  <2>1. \A i \in 1..Len(t) : PlainStep(t[i])
    BY <1>2, <1>4, <1>6
  <2>2. \A other : TodoSafe(t, other)
    BY <1>2, <2>1 DEF TodoSafe
  <2>3. PlainStep(todo[1]) /\ StepOK(todo[1])
    BY <1>5, <1>6 DEF PlainStep
  <2> QED BY <1>2, <2>1, <2>2, <2>3
<1>7. CASE Checked(todo, ident) /\ n = 1
  <2>1. /\ IsIdentPut(todo[1]) /\ StepOK(todo[1])
        /\ IdentOK([ident EXCEPT ![todo[1].server] = todo[1].value])
    BY <1>4, <1>7 DEF Checked
  <2>2. Len(t) = 0
    BY <1>4, <1>7
  <2>3. \A other : TodoSafe(t, other)
    BY <1>2, <2>2 DEF TodoSafe
  <2>4. todo[1].do = "put"
    BY <2>1 DEF IsIdentPut
  <2> QED BY <1>2, <2>1, <2>3, <2>4
<1>8. CASE Checked(todo, ident) /\ n # 1
  <2>1. StepOK(todo[1]) /\ ~IsIdentPut(todo[1]) /\ todo[1].do \notin {"upsert", "hello"}
    BY <1>4, <1>5, <1>8 DEF Checked, IsIdentPut
  <2>2. Len(t) > 0 /\ Len(t) \in 1..Len(t) /\ t[Len(t)] = todo[n]
    <3>1. n - 1 > 0 /\ n - 1 \in 1..(n - 1) /\ (n - 1) + 1 = n
      BY <1>4, <1>8
    <3> QED BY <1>2, <1>4, <3>1
  <2>3. ASSUME NEW i \in 1..Len(t), i # Len(t)
        PROVE  StepOK(t[i]) /\ (t[i].do = "endpoint" \/ (t[i].do = "put" /\ t[i].file = "repl"))
    <3>1. i + 1 \in 1..n /\ i + 1 # n /\ t[i] = todo[i + 1]
      BY <1>2, <1>4, <2>3
    <3> QED BY <1>4, <1>8, <3>1 DEF Checked
  <2>4. Checked(t, ident)
    BY <1>4, <1>8, <2>2, <2>3 DEF Checked
  <2> QED BY <1>2, <2>1, <2>4 DEF TodoSafe
<1> QED BY <1>4, <1>6, <1>7, <1>8 DEF TodoSafe

\* Steps that close no loop, before others that close none.
LEMMA JoinPlain ==
  ASSUME NEW a, a \in Seq(Range(a)), \A i \in 1..Len(a) : PlainStep(a[i]),
         NEW t, t \in Seq(Range(t)), \A i \in 1..Len(t) : PlainStep(t[i]),
         NEW r, Joined(a, t, r), NEW ident
  PROVE  TodoSafe(r, ident)
<1>1. /\ r \in Seq(Range(r))
      /\ \A i \in 1..Len(r) : \/ i \in 1..Len(a) /\ r[i] = a[i]
                              \/ i > Len(a) /\ \E j \in 1..Len(t) : r[i] = t[j]
  BY Before
<1>2. \A i \in 1..Len(r) : PlainStep(r[i])
  BY <1>1
<1> QED BY <1>1, <1>2 DEF TodoSafe

\* The steps of a registration, or of its end.
LEMMA RegistrationSafe ==
  ASSUME NEW ident, IdentOK(ident), NEW s \in PsServer, NEW a, NEW b, NEW v, IsIdentity(v),
         v.node \in {0} \cup PsServer, ~WouldCreateCycle(ident, s, v.node),
         NEW steps, steps = <<Endpoint(s, a), Put("repl", s, b), Put("ident", s, v)>>
  PROVE  /\ TodoSafe(steps, ident)
         /\ steps \in Seq(Range(steps))
         /\ v.node \in {0, s} => \A i \in 1..Len(steps) : PlainStep(steps[i])
<1>1. PICK x, y, z : x = Endpoint(s, a) /\ y = Put("repl", s, b) /\ z = Put("ident", s, v)
  OBVIOUS
<1>2. /\ x.do = "endpoint" /\ x.server = s /\ y.do = "put" /\ y.file = "repl" /\ y.server = s
      /\ z.do = "put" /\ z.file = "ident" /\ z.server = s /\ z.value = v
  BY <1>1 DEF Endpoint, Put
<1>3. steps = <<x, y, z>>
  BY <1>1
<1>4. steps \in Seq({x, y, z}) /\ Len(steps) = 3 /\ steps[1] = x /\ steps[2] = y /\ steps[3] = z
  BY <1>3
<1>5. steps \in Seq(Range(steps))
  BY <1>4, SeqOfRange
<1>6. \A i \in 1..3 : i \in {1, 2, 3}
  OBVIOUS
<1>7. StepOK(x) /\ StepOK(y) /\ StepOK(z) /\ ~IsIdentPut(x) /\ ~IsIdentPut(y) /\ IsIdentPut(z)
  BY <1>2 DEF StepOK, IsIdentPut
<1>8. PICK next : next = [ident EXCEPT ![s] = v]
  OBVIOUS
<1>9. IdentOK(next)
  <2>1. IdentReplaced(ident, s, v, next)
    BY <1>8 DEF IdentReplaced
  <2> QED BY <2>1, NoNewLoop
<1>10. Checked(steps, ident)
  <2>1. IdentOK([ident EXCEPT ![z.server] = z.value])
    BY <1>2, <1>8, <1>9
  <2>2. \A i \in 1..3 : i # 3 => steps[i] \in {x, y}
    BY <1>4, <1>6
  <2>3. 3 > 0 /\ Len(steps) = 3 /\ steps[3] = z
    BY <1>4
  <2> QED BY <1>2, <1>7, <2>1, <2>2, <2>3 DEF Checked
<1>11. ASSUME v.node \in {0, s} PROVE \A i \in 1..Len(steps) : PlainStep(steps[i])
  <2>1. PlainStep(x) /\ PlainStep(y) /\ PlainStep(z)
    BY <1>2, <1>7, <1>11 DEF PlainStep
  <2> QED BY <1>4, <1>6, <2>1
<1> QED BY <1>5, <1>10, <1>11 DEF TodoSafe

\* register_replication_peer_endpoint and unregister_replication_peer.
LEMMA RegisterIdent ==
  ASSUME IdentInv, NEW s \in PsServer, NEW a, NEW node \in {0} \cup PsServer,
         RegisterReplicationPeerEndpoint(1, s, a, node) \/ UnregisterReplicationPeer(1, s)
  PROVE  IdentInv'
<1>1. UNCHANGED <<psConf, psMem, psDisk>>
  BY DEF RegisterReplicationPeerEndpoint, UnregisterReplicationPeer
<1>2. IdentOK(psMem.ident)
  BY DEF IdentInv
<1>3. CASE RegisterReplicationPeerEndpoint(1, s, a, node)
  <2>1. PICK v, steps : /\ v = [addr |-> a, node |-> node]
                        /\ steps = <<Endpoint(s, a), Put("repl", s, a), Put("ident", s, v)>>
    OBVIOUS
  <2>2. PeerRequest(1, steps) /\ ~WouldCreateCycle(psMem.ident, s, node)
    BY <1>3, <2>1 DEF RegisterReplicationPeerEndpoint, RegisterSteps
  <2>3. IsIdentity(v) /\ v.node = node
    BY <2>1 DEF IsIdentity
  <2>4. TodoSafe(steps, psMem.ident)
    BY <1>2, <2>1, <2>2, <2>3, RegistrationSafe
  <2> QED BY <1>1, <2>2, <2>4, RequestIdent
<1>4. CASE UnregisterReplicationPeer(1, s)
  <2>1. PICK v, steps : /\ v = [addr |-> None, node |-> 0]
                        /\ steps = <<Endpoint(s, None), Put("repl", s, None), Put("ident", s, v)>>
    OBVIOUS
  <2>2. PeerRequest(1, steps)
    BY <1>4, <2>1 DEF UnregisterReplicationPeer, NoIdentity
  <2>3. IsIdentity(v) /\ v.node = 0 /\ ~WouldCreateCycle(psMem.ident, s, v.node)
    BY <2>1 DEF IsIdentity, WouldCreateCycle
  <2>4. TodoSafe(steps, psMem.ident)
    BY <1>2, <2>1, <2>3, RegistrationSafe
  <2> QED BY <1>1, <2>2, <2>4, RequestIdent
<1> QED BY <1>3, <1>4

\* A request of steps that do not touch the identities.
LEMMA OtherIdent ==
  ASSUME IdentInv, NEW steps, PeerRequest(1, steps), UNCHANGED <<psConf, psMem, psDisk>>,
         steps \in Seq(Range(steps)), \A i \in 1..Len(steps) : StepOK(steps[i]) /\ ~IsIdentPut(steps[i])
  PROVE  IdentInv'
<1>1. TodoSafe(steps, psMem.ident)
  BY DEF TodoSafe, PlainStep
<1> QED BY <1>1, RequestIdent

\* A request of one step.
LEMMA OneIdent ==
  ASSUME IdentInv, NEW x, PeerRequest(1, <<x>>), UNCHANGED <<psConf, psMem, psDisk>>, StepOK(x), ~IsIdentPut(x)
  PROVE  IdentInv'
<1>1. PICK steps : steps = <<x>>
  OBVIOUS
<1>2. steps \in Seq({x}) /\ Len(steps) = 1 /\ steps[1] = x
  BY <1>1
<1>3. steps \in Seq(Range(steps))
  BY <1>2, SeqOfRange
<1>4. \A i \in 1..Len(steps) : StepOK(steps[i]) /\ ~IsIdentPut(steps[i])
  BY <1>2
<1> QED BY <1>1, <1>3, <1>4, OtherIdent

\* apply_gossip_node.
LEMMA ApplyIdent ==
  ASSUME IdentInv, NEW m, m.server \in PsServer, ApplyGossipNode(1, m) PROVE IdentInv'
<1>1. UNCHANGED <<psConf, psMem, psDisk>>
  BY DEF ApplyGossipNode
<1>2. PICK v, x : PeerRequest(1, <<x>>) /\ x = Upsert(m.server, v)
  BY DEF ApplyGossipNode
<1>3. StepOK(x) /\ ~IsIdentPut(x)
  BY <1>2 DEF Upsert, StepOK, IsUpsert, IsIdentPut
<1> QED BY <1>1, <1>2, <1>3, OneIdent

\* fanout_gossip_once.
LEMMA FanoutIdent == ASSUME IdentInv, NEW a, FanoutGossipOnce(1, a) PROVE IdentInv'
<1>1. UNCHANGED <<psConf, psMem, psDisk>>
  BY DEF FanoutGossipOnce
<1>2. PICK v, x : PeerRequest(1, <<x>>) /\ x = Upsert(PsLocal, v)
  BY DEF FanoutGossipOnce
<1>3. StepOK(x) /\ ~IsIdentPut(x)
  BY <1>2, PsAssumption DEF Upsert, StepOK, IsUpsert, IsIdentPut
<1> QED BY <1>1, <1>2, <1>3, OneIdent

\* register_query_peer and unregister_query_peer.
LEMMA QueryIdent ==
  ASSUME IdentInv, NEW s \in PsServer, NEW a, RegisterQueryPeer(1, s, a) \/ UnregisterQueryPeer(1, s)
  PROVE  IdentInv'
<1>1. UNCHANGED <<psConf, psMem, psDisk>>
  BY DEF RegisterQueryPeer, UnregisterQueryPeer
<1>2. PICK v, x : PeerRequest(1, <<x>>) /\ x = Put("query", s, v)
  BY DEF RegisterQueryPeer, UnregisterQueryPeer
<1>3. StepOK(x) /\ ~IsIdentPut(x)
  BY <1>2 DEF Put, StepOK, IsUpsert, IsIdentPut
<1> QED BY <1>1, <1>2, <1>3, OneIdent

\* negotiate_replication_peer.
LEMMA NegotiateIdent ==
  ASSUME IdentInv, NEW s \in PsServer, NEW a, NegotiateReplicationPeer(1, s, a) PROVE IdentInv'
<1>1. UNCHANGED <<psConf, psMem, psDisk>>
  BY DEF NegotiateReplicationPeer
<1>2. PICK x : PeerRequest(1, <<x>>) /\ x = Negotiate(s, a)
  BY DEF NegotiateReplicationPeer
<1>3. StepOK(x) /\ ~IsIdentPut(x)
  BY <1>2 DEF Negotiate, StepOK, IsUpsert, IsIdentPut
<1> QED BY <1>1, <1>2, <1>3, OneIdent

\* refresh_gossip_from_membership and negotiate_gossip_replication_peers.
LEMMA ManyIdent ==
  ASSUME IdentInv, RefreshGossipFromMembership(1) \/ NegotiateGossipReplicationPeers(1)
  PROVE  IdentInv'
<1>1. UNCHANGED <<psConf, psMem, psDisk>>
  BY DEF RefreshGossipFromMembership, NegotiateGossipReplicationPeers
<1>2. CASE RefreshGossipFromMembership(1)
  <2>1. PICK ids : ids = {s \in PsServer : psMember.state[s] \in GossipedStates}
    OBVIOUS
  <2>2. PICK nodes \in InOrder(ids) :
          PeerRequest(1, [i \in DOMAIN nodes |->
              Upsert(nodes[i], [addr |-> psMember.addr[nodes[i]], inc |-> psMember.version,
                                ttl |-> 1, seen |-> psClock])])
    BY <1>2, <2>1 DEF RefreshGossipFromMembership
  <2>3. IsFiniteSet(ids)
    BY <2>1, PsAssumption, FS_Subset
  <2>4. PICK n \in Nat : n = Len(nodes) /\ DOMAIN nodes = 1..n /\ \A i \in 1..n : nodes[i] \in PsServer
    BY <2>1, <2>2, <2>3, InOrderIs
  <2>5. PICK steps : steps = [i \in 1..n |->
              Upsert(nodes[i], [addr |-> psMember.addr[nodes[i]], inc |-> psMember.version,
                                ttl |-> 1, seen |-> psClock])]
    OBVIOUS
  <2>6. PeerRequest(1, steps)
    BY <2>2, <2>4, <2>5
  <2>7. DOMAIN steps = 1..n /\ Len(steps) = n
    BY <2>5
  <2>8. \A i \in 1..n : steps[i].do = "upsert" /\ steps[i].server = nodes[i]
    BY <2>5 DEF Upsert
  <2>9. steps \in Seq(Range(steps))
    BY <2>5, <2>7 DEF Range
  <2>10. \A i \in 1..Len(steps) : StepOK(steps[i]) /\ ~IsIdentPut(steps[i])
    BY <2>4, <2>7, <2>8 DEF StepOK, IsUpsert, IsIdentPut
  <2> QED BY <1>1, <2>6, <2>9, <2>10, OtherIdent
<1>3. CASE NegotiateGossipReplicationPeers(1)
  <2>1. PICK ids : ids = {s \in PsServer \ {PsLocal} : /\ psMem.gossip[s] # NoNode
                                                       /\ IsAliveAt(psMem.gossip[s], psClock)
                                                       /\ psMem.repl[s] = None}
    OBVIOUS
  <2>2. PICK nodes \in InOrder(ids) :
          PeerRequest(1, [i \in DOMAIN nodes |-> Negotiate(nodes[i], psMem.gossip[nodes[i]].addr)])
    BY <1>3, <2>1 DEF NegotiateGossipReplicationPeers
  <2>3. IsFiniteSet(ids)
    BY <2>1, PsAssumption, FS_Subset
  <2>4. PICK n \in Nat : n = Len(nodes) /\ DOMAIN nodes = 1..n /\ \A i \in 1..n : nodes[i] \in PsServer
    BY <2>1, <2>2, <2>3, InOrderIs
  <2>5. PICK steps : steps = [i \in 1..n |-> Negotiate(nodes[i], psMem.gossip[nodes[i]].addr)]
    OBVIOUS
  <2>6. PeerRequest(1, steps)
    BY <2>2, <2>4, <2>5
  <2>7. DOMAIN steps = 1..n /\ Len(steps) = n
    BY <2>5
  <2>8. \A i \in 1..n : steps[i].do = "hello" /\ steps[i].server = nodes[i]
    BY <2>5 DEF Negotiate
  <2>9. steps \in Seq(Range(steps))
    BY <2>5, <2>7 DEF Range
  <2>10. \A i \in 1..Len(steps) : StepOK(steps[i]) /\ ~IsIdentPut(steps[i])
    BY <2>4, <2>7, <2>8 DEF StepOK, IsUpsert, IsIdentPut
  <2> QED BY <1>1, <2>6, <2>9, <2>10, OtherIdent
<1> QED BY <1>2, <1>3

\* The step that a request under way takes next.
LEMMA NextStep ==
  ASSUME IdentInv, NEW do, NextIs(1, do), NEW todo, todo = psWork[1].todo
  PROVE  psWork[1].file = None /\ todo # <<>> /\ Head(todo).do = do /\ TodoSafe(todo, psMem.ident)
BY DEF NextIs, IdentInv

\* register and unregister of the tables.
LEMMA PutIdent == ASSUME IdentInv, PutStep(1) PROVE IdentInv'
<1>1. NextIs(1, "put") /\ UNCHANGED <<psConf, psDisk>>
  BY DEF PutStep
<1>2. PICK todo, t : todo = psWork[1].todo /\ t = Tail(todo)
  OBVIOUS
<1>3. todo # <<>> /\ Head(todo).do = "put" /\ TodoSafe(todo, psMem.ident)
  BY <1>1, <1>2, NextStep
<1>4. PICK op : op = todo[1]
  OBVIOUS
<1>5. /\ Head(todo) = op /\ StepOK(op)
      /\ ~IsIdentPut(op) => TodoSafe(t, psMem.ident)
      /\ IsIdentPut(op) => \A other : TodoSafe(t, other)
      /\ IsIdentPut(op) => PlainStep(op) \/ IdentOK([psMem.ident EXCEPT ![op.server] = op.value])
  BY <1>2, <1>3, <1>4, RestSafe
<1>6. op.do = "put" /\ op.server \in PsServer /\ op.file \in {"query", "repl", "ident"}
  BY <1>3, <1>5 DEF StepOK, IsUpsert
<1>7. PICK file, table : file = op.file /\ table = [psMem[op.file] EXCEPT ![op.server] = op.value]
  OBVIOUS
<1>8. Edit(1, file, table, t)
  BY <1>2, <1>5, <1>7 DEF PutStep
<1>9. file \in {"query", "gossip", "repl", "ident"}
  BY <1>6, <1>7
<1>10. CASE file = "ident"
  <2>1. IsIdentPut(op) /\ table = [psMem.ident EXCEPT ![op.server] = op.value]
    BY <1>6, <1>7, <1>10 DEF IsIdentPut
  <2>2. ASSUME PlainStep(op) PROVE IdentOK(table)
    <3>1. IsIdentity(op.value) /\ op.value.node \in {0, op.server}
      BY <2>1, <2>2 DEF PlainStep
    <3>2. ~WouldCreateCycle(psMem.ident, op.server, op.value.node) /\ op.value.node \in {0} \cup PsServer
      BY <1>6, <3>1 DEF WouldCreateCycle
    <3>3. IdentReplaced(psMem.ident, op.server, op.value, table) /\ IdentOK(psMem.ident)
      BY <2>1 DEF IdentReplaced, IdentInv
    <3> QED BY <1>6, <3>1, <3>2, <3>3, NoNewLoop
  <2>3. IdentOK(table)
    <3>1. CASE PlainStep(op)
      BY <2>2, <3>1
    <3>2. CASE ~PlainStep(op)
      BY <1>5, <2>1, <3>2
    <3> QED BY <3>1, <3>2
  <2>4. TodoSafe(t, table)
    BY <1>5, <2>1
  <2> QED BY <1>1, <1>8, <1>9, <1>10, <2>3, <2>4, EditIdent
<1>11. CASE file # "ident"
  <2>1. TodoSafe(t, psMem.ident) /\ IdentOK(psMem.ident)
    BY <1>5, <1>7, <1>11 DEF IsIdentPut, IdentInv
  <2> QED BY <1>1, <1>8, <1>9, <1>11, <2>1, EditIdent
<1> QED BY <1>10, <1>11

\* upsert of the gossip table.
LEMMA UpsertIdent == ASSUME IdentInv, UpsertStep(1) PROVE IdentInv'
<1>1. NextIs(1, "upsert") /\ UNCHANGED <<psConf, psDisk>>
  BY DEF UpsertStep
<1>2. PICK todo, t : todo = psWork[1].todo /\ t = Tail(todo)
  OBVIOUS
<1>3. psWork[1].file = None /\ todo # <<>> /\ Head(todo).do = "upsert" /\ TodoSafe(todo, psMem.ident)
  BY <1>1, <1>2, NextStep
<1>4. PICK op : op = todo[1]
  OBVIOUS
<1>5. /\ Head(todo) = op /\ StepOK(op) /\ op.do = "upsert"
      /\ t \in Seq(Range(t)) /\ \A i \in 1..Len(t) : PlainStep(t[i])
  BY <1>2, <1>3, <1>4, RestSafe
<1>6. IdentOK(psMem.ident) /\ MemShape(psMem) /\ op.server \in PsServer
  BY <1>5 DEF IdentInv, StepOK
<1>7. PICK x : x = Put("query", op.server, op.value.addr)
  OBVIOUS
<1>8. PICK a, rest : a = <<x>> /\ rest = a \o t
  OBVIOUS
<1>9. PICK table : table = [psMem.gossip EXCEPT ![op.server] = op.value]
  OBVIOUS
<1>10. \/ Edit(1, "gossip", table, rest)
       \/ psWork' = [psWork EXCEPT ![1].todo = t] /\ UNCHANGED psMem
  BY <1>2, <1>5, <1>7, <1>8, <1>9 DEF UpsertStep
<1>11. CASE Edit(1, "gossip", table, rest)
  <2>1. PlainStep(x)
    BY <1>6, <1>7 DEF Put, PlainStep, StepOK, IsUpsert, IsIdentPut
  <2>2. a \in Seq({x}) /\ Len(a) = 1 /\ a[1] = x
    BY <1>8
  <2>3. a \in Seq(Range(a)) /\ \A i \in 1..Len(a) : PlainStep(a[i])
    BY <2>1, <2>2, SeqOfRange
  <2>4. Joined(a, t, rest)
    BY <1>8 DEF Joined
  <2>5. TodoSafe(rest, psMem.ident)
    BY <1>5, <2>3, <2>4, JoinPlain
  <2>6. PICK file : file = "gossip"
    OBVIOUS
  <2>7. file \in {"query", "gossip", "repl", "ident"} /\ file # "ident" /\ Edit(1, file, table, rest)
    BY <1>11, <2>6
  <2> QED BY <1>1, <1>6, <2>5, <2>7, EditIdent
<1>12. CASE psWork' = [psWork EXCEPT ![1].todo = t] /\ UNCHANGED psMem
  <2>1. TodoSafe(t, psMem.ident)
    BY <1>5 DEF TodoSafe
  <2> QED BY <1>1, <1>3, <1>6, <1>12, <2>1, StepsIdent
<1> QED BY <1>10, <1>11, <1>12

\* A hello is answered, or not.
LEMMA HelloIdent == ASSUME IdentInv, HelloStep(1) PROVE IdentInv'
<1>1. NextIs(1, "hello") /\ UNCHANGED <<psConf, psDisk, psMem>>
  BY DEF HelloStep
<1>2. PICK todo, t : todo = psWork[1].todo /\ t = Tail(todo)
  OBVIOUS
<1>3. psWork[1].file = None /\ todo # <<>> /\ Head(todo).do = "hello" /\ TodoSafe(todo, psMem.ident)
  BY <1>1, <1>2, NextStep
<1>4. PICK op : op = todo[1]
  OBVIOUS
<1>5. /\ Head(todo) = op /\ StepOK(op)
      /\ t \in Seq(Range(t)) /\ \A i \in 1..Len(t) : PlainStep(t[i])
  BY <1>2, <1>3, <1>4, RestSafe
<1>6. IdentOK(psMem.ident) /\ MemShape(psMem') /\ psMem'.ident = psMem.ident
  BY <1>1 DEF IdentInv
<1>7. PICK s \in PsServer : s = op.server
  BY <1>5 DEF StepOK
<1>8. PICK a : a = RegisterSteps(s, op.value, s)
  OBVIOUS
<1>9. PICK next : psWork' = [psWork EXCEPT ![1].todo = next] /\ (next = t \/ next = a \o t)
  BY <1>2, <1>5, <1>7, <1>8 DEF HelloStep
<1>10. TodoSafe(next, psMem.ident)
  <2>1. CASE next = t
    BY <1>5, <2>1 DEF TodoSafe
  <2>2. CASE next = a \o t
    <3>1. PICK v : v = [addr |-> op.value, node |-> s]
      OBVIOUS
    <3>2. IsIdentity(v) /\ v.node = s /\ ~WouldCreateCycle(psMem.ident, s, v.node)
      BY <3>1 DEF IsIdentity, WouldCreateCycle
    <3>3. a = <<Endpoint(s, op.value), Put("repl", s, op.value), Put("ident", s, v)>>
      BY <1>8, <3>1 DEF RegisterSteps
    <3>4. a \in Seq(Range(a)) /\ \A i \in 1..Len(a) : PlainStep(a[i])
      <4>1. v.node \in {0} \cup PsServer /\ v.node \in {0, s}
        BY <3>2
      <4> QED BY <1>6, <3>2, <3>3, <4>1, RegistrationSafe
    <3>5. Joined(a, t, next)
      BY <2>2 DEF Joined
    <3> QED BY <1>5, <3>4, <3>5, JoinPlain
  <2> QED BY <1>9, <2>1, <2>2
<1> QED BY <1>1, <1>3, <1>6, <1>9, <1>10, StepsIdent

\* The database is told of an endpoint.
LEMMA EndpointIdent == ASSUME IdentInv, EndpointStep(1) PROVE IdentInv'
<1>1. NextIs(1, "endpoint") /\ UNCHANGED <<psConf, psDisk>>
  BY DEF EndpointStep
<1>2. PICK todo, t : todo = psWork[1].todo /\ t = Tail(todo)
  OBVIOUS
<1>3. psWork[1].file = None /\ todo # <<>> /\ Head(todo).do = "endpoint" /\ TodoSafe(todo, psMem.ident)
  BY <1>1, <1>2, NextStep
<1>4. Head(todo) = todo[1] /\ (~IsIdentPut(todo[1]) => TodoSafe(t, psMem.ident))
  BY <1>2, <1>3, RestSafe
<1>5. TodoSafe(t, psMem.ident)
  BY <1>3, <1>4 DEF IsIdentPut
<1>6. psWork' = [psWork EXCEPT ![1].todo = t]
  BY <1>2 DEF EndpointStep
<1>7. PICK table : psMem' = [psMem EXCEPT !["endpoint"] = table]
  BY DEF EndpointStep
<1>8. psMem' = [f \in {"query", "gossip", "repl", "ident", "endpoint"} |-> IF f = "endpoint" THEN table ELSE psMem[f]]
  BY <1>7 DEF IdentInv, MemShape
<1>9. MemShape(psMem') /\ psMem'["ident"] = psMem["ident"]
  BY <1>8 DEF MemShape
<1>10. psMem'.ident = psMem.ident
  BY <1>9
<1> QED BY <1>1, <1>3, <1>5, <1>6, <1>9, <1>10, StepsIdent

\* Announcements come from servers that are known.
NetServers == \A m \in psNet : m.server \in PsServer

\* Only an announcement changes the network.
LEMMA NetKnown == ASSUME IdentInv, NetServers, [PeerNext]_psVars PROVE NetServers'
<1>1. CASE \E s \in psConf.peers, a \in PsAddr, t \in {TRUE, ~psConf.token} : Announce(s, a, t)
  <2>1. PICK s \in psConf.peers : \E m : psNet' = psNet \cup {m} /\ m.server = s
    BY <1>1 DEF Announce
  <2>2. s \in PsServer
    BY DEF IdentInv
  <2> QED BY <2>1, <2>2 DEF NetServers
<1>2. CASE UNCHANGED psNet
  BY <1>2 DEF NetServers
<1>3. ASSUME NEW w,
             \/ \E m \in psNet : ApplyGossipNode(w, m)
             \/ FanoutGossipOnce(w, CHOOSE a \in PsAddr : TRUE)
             \/ RefreshGossipFromMembership(w) \/ NegotiateGossipReplicationPeers(w)
      PROVE  UNCHANGED psNet
  BY <1>3 DEF ApplyGossipNode, FanoutGossipOnce, RefreshGossipFromMembership, NegotiateGossipReplicationPeers
<1>4. ASSUME NEW w, NEW s, NEW a,
             \/ RegisterQueryPeer(w, s, a) \/ NegotiateReplicationPeer(w, s, a)
             \/ \E node \in {0} \cup PsServer : RegisterReplicationPeerEndpoint(w, s, a, node)
             \/ UnregisterQueryPeer(w, s) \/ UnregisterReplicationPeer(w, s)
      PROVE  UNCHANGED psNet
  BY <1>4 DEF RegisterQueryPeer, NegotiateReplicationPeer, RegisterReplicationPeerEndpoint,
              UnregisterQueryPeer, UnregisterReplicationPeer
<1>5. ASSUME NEW w, PutStep(w) \/ UpsertStep(w) \/ SaveStep(w) \/ EndpointStep(w) \/ HelloStep(w)
      PROVE  UNCHANGED psNet
  BY <1>5 DEF PutStep, UpsertStep, SaveStep, EndpointStep, HelloStep
<1>6. ASSUME Tick \/ ReopenPeerStores \/ (\E s, a, st : ChangeMembership(s, a, st)) \/ UNCHANGED psVars
      PROVE  UNCHANGED psNet
  BY <1>6 DEF Tick, ReopenPeerStores, ChangeMembership, psVars
<1> QED BY <1>1, <1>2, <1>3, <1>4, <1>5, <1>6 DEF PeerNext

\* Every step keeps the identities without a loop.
LEMMA NextIdent == ASSUME IdentInv, NetServers, [PeerNext]_psVars PROVE IdentInv'
<1>1. (\A w \in 1..psConf.workers : w = 1) /\ psConf.peers \subseteq PsServer
  <2>1. psConf.workers = 1 /\ psConf.peers \subseteq PsServer
    BY DEF IdentInv
  <2> QED BY <2>1
<1>2. CASE UNCHANGED <<psConf, psMem, psDisk, psWork>>
  BY <1>2 DEF IdentInv
<1>3. CASE \E s \in psConf.peers, a \in PsAddr, t \in {TRUE, ~psConf.token} : Announce(s, a, t)
  BY <1>2, <1>3 DEF Announce
<1>4. CASE \E s \in psConf.peers, a \in PsAddr, st \in {"active", "removed"} : ChangeMembership(s, a, st)
  BY <1>2, <1>4 DEF ChangeMembership
<1>5. CASE Tick \/ UNCHANGED psVars
  BY <1>2, <1>5 DEF Tick, psVars
<1>6. CASE ReopenPeerStores
  BY <1>6, ReopenIdent
<1>7. CASE \E m \in psNet : ApplyGossipNode(1, m)
  BY <1>7, ApplyIdent DEF NetServers
<1>8. CASE FanoutGossipOnce(1, CHOOSE a \in PsAddr : TRUE)
  BY <1>8, FanoutIdent
<1>9. CASE RefreshGossipFromMembership(1) \/ NegotiateGossipReplicationPeers(1)
  BY <1>9, ManyIdent
<1>10. CASE \E s \in psConf.peers, a \in PsAddr :
              \/ RegisterQueryPeer(1, s, a)
              \/ NegotiateReplicationPeer(1, s, a)
              \/ \E node \in {0} \cup PsServer : RegisterReplicationPeerEndpoint(1, s, a, node)
  BY <1>1, <1>10, QueryIdent, NegotiateIdent, RegisterIdent
<1>11. CASE \E s \in psConf.peers : UnregisterQueryPeer(1, s) \/ UnregisterReplicationPeer(1, s)
  <2>1. PICK s \in PsServer : UnregisterQueryPeer(1, s) \/ UnregisterReplicationPeer(1, s)
    BY <1>1, <1>11
  <2>2. CASE UnregisterQueryPeer(1, s)
    BY <2>2, QueryIdent
  <2>3. CASE UnregisterReplicationPeer(1, s)
    BY <2>3, RegisterIdent
  <2> QED BY <2>1, <2>2, <2>3
<1>12. CASE PutStep(1) \/ UpsertStep(1) \/ SaveStep(1) \/ EndpointStep(1) \/ HelloStep(1)
  BY <1>12, PutIdent, UpsertIdent, SaveIdent, EndpointIdent, HelloIdent
<1> QED BY ZenonT(60), <1>1, <1>3, <1>4, <1>5, <1>6, <1>7, <1>8, <1>9, <1>10, <1>11, <1>12 DEF PeerNext

(* Whatever replication peers register with which node ids, are negotiated *)
(* or unregistered, and wherever the process is killed between the change  *)
(* of a table and the write of its file, the node ids never form a loop of *)
(* two or more servers, in memory or in what a restart would load, as long *)
(* as one request at a time edits the tables: would_create_cycle looks at  *)
(* the identities before they are changed, under another lock.             *)
THEOREM IdentitiesAcyclic ==
  ASSUME OneWorker
  PROVE  PeerSpec => []NoIdentityCycle
<1>1. PeerInit => IdentInv /\ NetServers
  <2>1. ASSUME PeerInit PROVE NetServers
    BY <2>1 DEF PeerInit, NetServers
  <2> QED BY <2>1, IdentInit
<1>2. (IdentInv /\ NetServers) /\ [PeerNext]_psVars => (IdentInv /\ NetServers)'
  BY NextIdent, NetKnown
<1>3. IdentInv => NoIdentityCycle
  <2>1. SUFFICES ASSUME IdentInv PROVE NoIdentityCycle
    OBVIOUS
  <2>2. PICK d : IdentOK(d) /\ psDisk.ident = SaveIdentities(d)
    BY <2>1 DEF IdentInv
  <2>3. LoadIdentities(psDisk.ident) = d
    BY <2>2, RoundTrip
  <2>4. \A stores \in {psMem.ident, LoadIdentities(psDisk.ident)} : IdentOK(stores)
    BY <2>1, <2>2, <2>3 DEF IdentInv
  <2>5. \A stores \in {psMem.ident, LoadIdentities(psDisk.ident)} : NoCycle(stores)
    BY <2>4, NoCycleIn
  <2> QED BY <2>5 DEF NoIdentityCycle, NoCycle
<1> QED BY <1>1, <1>2, <1>3, PTL DEF PeerSpec
=============================================================================
