------------------------ MODULE TwoPhaseCommitProofs ------------------------
(***************************************************************************)
(* The commit protocol keeps its promises and implements AtomicCommit, for *)
(* any number of servers, transactions, workers and faults, if             *)
(*  - no batch is lost between take and apply (~TakeFaults);               *)
(*  - a coordinator has one transaction (OneTxEach): the rewrite of        *)
(*    decisions.log would drop a record that another one appends meanwhile;*)
(*  - a server whose process may die holds batches of one transaction      *)
(*    (CrasherServesOne): after a restart prepared ids are given out again,*)
(*    and a late commit would find another transaction's batch.            *)
(*                                                                         *)
(* CommitInv is the inductive invariant.  Its heart is Backed: a part that *)
(* anybody still names (the coordinator, the log, a replay, a call) is the *)
(* batch of its own transaction as long as the store has it, and if the    *)
(* transaction was committed and the store no longer has it, it has been   *)
(* taken to be applied.                                                    *)
(***************************************************************************)
EXTENDS TwoPhaseCommit, FiniteSetTheorems, SequenceTheorems, WellFoundedInduction, TLAPS

OneTxEach == \A t, u \in Tx : Coord(t) = Coord(u) => t = u
CrasherServesOne ==
    \A t, u \in Tx : \A s \in Crasher : s \in Participants(t) /\ s \in Participants(u) => t = u
ProofHypotheses == ~TakeFaults /\ OneTxEach /\ CrasherServesOne

-----------------------------------------------------------------------------
Mine(t, part) ==
    /\ part.at \in Participants(t)
    /\ part.id \in DOMAIN prepared[part.at] => prepared[part.at][part.id] = t
    /\ part.at \notin Crasher => part.id <= nextId[part.at]

Stored(t, part) == Mine(t, part) /\ part.id \in DOMAIN prepared[part.at]

Backed(t, part) ==
    /\ Mine(t, part)
    /\ outcome[t] = "commit" => part.id \in DOMAIN prepared[part.at] \/ t \in Reached(part.at)

ReachedAll(t) == \A p \in Participants(t) : t \in Reached(p)
Names(parts, p) == \E i \in DOMAIN parts : parts[i].at = p

DecisionOK(s, d) ==
    /\ Coord(d.tx) = s /\ outcome[d.tx] = d.decision
    /\ \A i \in DOMAIN d.parts : Backed(d.tx, d.parts[i])
    /\ d.decision = "commit" =>
          \A p \in Participants(d.tx) : d.tx \in Reached(p) \/ Names(d.parts, p)

\* Batches in the stores, under way and applied belong where they are, and
\* only committed ones have left the store to be applied.
BatchOK(s) ==
    /\ \A i \in DOMAIN prepared[s] : s \in Participants(prepared[s][i])
    /\ \A t \in applied[s] : s \in Participants(t) /\ outcome[t] = "commit"
    /\ \A b \in taken[s] :
          /\ s \in Participants(b.batch) /\ outcome[b.batch] = "commit"
          /\ b.call.kind = "commit" /\ b.call.to = s
          /\ Coord(b.batch) = Home(b.call.from)

\* Where the commit of t is says what became of its batches.
PhaseOK(t) ==
    /\ co[t].at \in {"staged", "prepare"} =>
          /\ outcome[t] = "open"
          /\ Len(co[t].held) <= Len(Targets(t))
          /\ \A i \in DOMAIN co[t].held :
                co[t].held[i].at = Targets(t)[i] /\ Stored(t, co[t].held[i])
    /\ co[t].at = "abort" =>
          outcome[t] = "abort" /\ \A i \in DOMAIN co[t].held : Mine(t, co[t].held[i])
    /\ co[t].at = "commit" =>
          /\ outcome[t] = "commit"
          /\ \A i \in DOMAIN co[t].held : Backed(t, co[t].held[i])
          /\ \A p \in Participants(t) : t \in applied[p] \/ Names(co[t].held, p)
    /\ co[t].at \in {"clear", "ok"} => outcome[t] = "commit" /\ AppliedEverywhere(t)

\* decisions.log, and the part of it that a replay still goes through.
LogOK(s) ==
    /\ Len(decisions[s]) <= 1
    /\ \A i \in DOMAIN decisions[s] : DecisionOK(s, decisions[s][i])
    /\ \A i \in DOMAIN rec[s].todo : DecisionOK(s, rec[s].todo[i])
    /\ \A t \in rec[s].done : outcome[t] # "open" /\ (outcome[t] = "commit" => ReachedAll(t))

\* A loaded log that will be written back lacks no decision that is needed.
LoadedOK(s, l) ==
    /\ Len(l.keep) <= 1 /\ (l.write => l.keep = <<>>)
    /\ \A i \in DOMAIN l.keep : DecisionOK(s, l.keep[i])
    /\ \A t \in Tx : Coord(t) = s /\ outcome[t] = "commit" =>
          \/ ReachedAll(t)
          \/ \E i \in DOMAIN l.keep : l.keep[i].tx = t /\ l.keep[i].decision = "commit"
LoadOK(c) ==
    snap[c] # None =>
        /\ LoadedOK(Home(c), snap[c])
        /\ c \in Tx => co[c].at = "clear"
        /\ c \in Server => rec[c].on /\ (rec[c].failed \/ rec[c].todo = <<>>)

CallOK(call) ==
    /\ call.kind = "prepare" =>
          call.from \in Tx /\ call.batch = call.from /\ call.to \in Participants(call.from)
    /\ call.kind = "commit" =>
          \E t \in Tx : /\ Coord(t) = Home(call.from) /\ outcome[t] = "commit"
                        /\ Backed(t, [at |-> call.to, id |-> call.id])
    /\ call.kind = "abort" =>
          \E t \in Tx : outcome[t] = "abort" /\ Mine(t, [at |-> call.to, id |-> call.id])
QueuedOK(call) == CallOK(call) /\ (call.kind = "prepare" => status[call.to] = "serving")

\* What a caller waits for is the next thing it has to do.
TxWaits(t) ==
    \/ /\ co[t].at = "prepare" /\ wait[t].kind = "prepare"
       /\ Len(co[t].held) < Len(Targets(t)) /\ wait[t].to = Targets(t)[Len(co[t].held) + 1]
    \/ /\ co[t].at \in {"commit", "abort"} /\ wait[t].kind = co[t].at
       /\ co[t].held # <<>> /\ wait[t].to = Head(co[t].held).at /\ wait[t].id = Head(co[t].held).id
ReplayWaits(s) ==
    /\ Replaying(s) /\ Current(s).parts # <<>>
    /\ wait[s].kind = Current(s).decision
    /\ wait[s].to = Head(Current(s).parts).at /\ wait[s].id = Head(Current(s).parts).id
WaitOK(c) ==
    wait[c] # None =>
        /\ wait[c].from = c /\ CallOK(wait[c])
        /\ c \in Tx => TxWaits(c)
        /\ c \in Server => ReplayWaits(c)

\* What an answer promises: a prepared batch, an applied one, or one that
\* somebody else has taken to be applied.
AnswerOK(c) ==
    inbox[c] # None =>
        /\ wait[c] # None
        /\ wait[c].kind = "prepare" /\ inbox[c].res = "ok" =>
              Stored(c, [at |-> wait[c].to, id |-> inbox[c].id])
        /\ wait[c].kind = "commit" => \A t \in Tx : Coord(t) = Home(c) =>
              /\ inbox[c].res = "ok" => t \in applied[wait[c].to]
              /\ inbox[c].res = "unknown" => t \in Reached(wait[c].to)

\* A coordinator that has yet to decide runs on a server that serves and that
\* is not replaying; one that clears its decision has loaded the log.
Quiet ==
    /\ \A s \in Server : s \notin Crasher => status[s] = "serving"
    /\ \A s \in Server : status[s] = "down" => ~rec[s].on
    /\ \A t \in Tx : co[t].at \in Active \cup {"staged"} => status[Coord(t)] = "serving"
    /\ \A t \in Tx : co[t].at \in {"staged", "prepare"} =>
          ~rec[Coord(t)].on /\ snap[Coord(t)] = None
    /\ \A t \in Tx : co[t].at = "clear" => snap[t] # None

CommitInv ==
    /\ TypeOK /\ Quiet
    /\ \A s \in Server : BatchOK(s) /\ LogOK(s)
    /\ \A t \in Tx : PhaseOK(t)
    /\ \A call \in calls : QueuedOK(call)
    /\ \A c \in Caller : LoadOK(c) /\ WaitOK(c) /\ AnswerOK(c)
    /\ ClearedMeansReached

-----------------------------------------------------------------------------
\* Homes and targets are servers.
LEMMA ActorFacts ==
    /\ \A t \in Tx : Coord(t) \in Server /\ Targets(t) \in Seq(Server)
    /\ \A t \in Tx : Home(t) = Coord(t)
    /\ \A s \in Server : Home(s) = s
    /\ \A c \in Caller : Home(c) \in Server
    /\ \A t \in Tx : Participants(t) \subseteq Server
<1>1. \A t \in Tx : Coord(t) \in Server /\ Targets(t) \in Seq(Server)
    BY ActorAssumption
<1>2. \A s \in Server : s \notin Tx
    BY ActorAssumption
<1>3. \A t \in Tx : Participants(t) \subseteq Server
    BY <1>1 DEF Participants
<1> QED
    BY <1>1, <1>2, <1>3 DEF Home, Caller

\* The first element of a sequence and the others.
LEMMA FirstFact ==
    ASSUME NEW S, NEW q \in Seq(S), q # <<>>
    PROVE  /\ Head(q) \in S /\ 1 \in DOMAIN q /\ Head(q) = q[1]
           /\ Tail(q) \in Seq(S) /\ Len(Tail(q)) = Len(q) - 1
           /\ \A i \in DOMAIN Tail(q) : i + 1 \in DOMAIN q /\ Tail(q)[i] = q[i + 1]
           /\ \A i \in DOMAIN q : i = 1 \/ (i - 1 \in DOMAIN Tail(q) /\ q[i] = Tail(q)[i - 1])
OBVIOUS

\* The fields of a part and of a decision.
LEMMA FieldFacts ==
    /\ \A q \in Part : q.at \in Server /\ q.id \in Nat /\ q = [at |-> q.at, id |-> q.id]
    /\ \A d \in Decision : d.tx \in Tx /\ d.decision \in {"commit", "abort"} /\ d.parts \in Seq(Part)
BY DEF Part, Decision

\* The next decision of a replay without its first part is a decision, and
\* takes its place in what is left to do.
LEMMA PopFact ==
    ASSUME NEW q \in Seq(Decision), q # <<>>, Head(q).parts # <<>>,
           NEW r, r = <<NextPart(Head(q))>> \o Tail(q)
    PROVE  /\ r \in Seq(Decision) /\ r # <<>>
           /\ Head(r) = NextPart(Head(q))
           /\ \A i \in DOMAIN r : r[i] = Head(r) \/ (i \in DOMAIN q /\ r[i] = q[i])
<1> DEFINE d == NextPart(Head(q))
<1>1. Head(q) \in Decision /\ Tail(q) \in Seq(Decision)
    OBVIOUS
<1>2. d \in Decision
    BY <1>1 DEF Decision, NextPart
<1> HIDE DEF d
<1>3. <<d>> \in Seq(Decision)
    BY <1>2
<1>4. r = <<d>> \o Tail(q)
    BY DEF d
<1>5. r \in Seq(Decision) /\ Len(r) = Len(q) /\ r[1] = d
    BY <1>1, <1>3, <1>4
<1>6. \A i \in 2..Len(q) : r[i] = q[i]
    BY <1>1, <1>3, <1>4
<1> QED
    BY <1>5, <1>6 DEF d

-----------------------------------------------------------------------------
\* What every step keeps: decisions, what was applied or taken, the owner of
\* a named batch, the batch of an undecided transaction, and that a committed
\* batch is either stored or reached.
Monotone ==
    /\ \A t \in Tx : outcome[t] # "open" => outcome'[t] = outcome[t]
    /\ \A t \in Tx, p \in Server :
          (t \in applied[p] => t \in applied'[p]) /\ (t \in Reached(p) => t \in Reached(p)')
    /\ \A t \in Tx, part \in Part : Mine(t, part) => Mine(t, part)'
    /\ \A t \in Tx, part \in Part : Stored(t, part) /\ outcome[t] = "open" => Stored(t, part)'
    /\ \A t \in Tx, part \in Part : Backed(t, part) /\ outcome[t] # "open" => Backed(t, part)'

\* A step that leaves the stores alone is monotone if it decides nothing twice.
LEMMA MonotoneFrame ==
    ASSUME UNCHANGED <<prepared, nextId, applied, taken>>,
           \A t \in Tx : outcome[t] # "open" => outcome'[t] = outcome[t]
    PROVE  Monotone
<1>1. \A t \in Tx, p \in Server : t \in Reached(p) => t \in Reached(p)'
    BY DEF Reached
<1>2. \A t \in Tx, part \in Part : Mine(t, part) => Mine(t, part)'
    BY DEF Mine
<1>3. \A t \in Tx, part \in Part : Stored(t, part) => Stored(t, part)'
    BY <1>2 DEF Stored
<1>4. \A t \in Tx, part \in Part : Backed(t, part) /\ outcome[t] # "open" => Backed(t, part)'
    BY <1>2 DEF Backed, Reached
<1> QED
    BY <1>1, <1>2, <1>3, <1>4 DEF Monotone

\* A decision on record stays in order.
LEMMA DecisionFrame ==
    ASSUME Monotone, NEW s \in Server, NEW d \in Decision, DecisionOK(s, d)
    PROVE  DecisionOK(s, d)'
<1>1. d.tx \in Tx /\ d.decision # "open" /\ \A i \in DOMAIN d.parts : d.parts[i] \in Part
    BY DEF Decision
<1>2. outcome[d.tx] = d.decision /\ outcome'[d.tx] = d.decision
    BY <1>1 DEF DecisionOK, Monotone
<1>3. \A i \in DOMAIN d.parts : Backed(d.tx, d.parts[i])'
    BY <1>1, <1>2 DEF DecisionOK, Monotone
<1>4. \A p \in Participants(d.tx) : d.tx \in Reached(p) => d.tx \in Reached(p)'
    BY <1>1, ActorFacts DEF Monotone
<1> QED
    BY <1>2, <1>3, <1>4 DEF DecisionOK, Names

\* A transaction that has reached all participants stays there.
LEMMA ReachedFrame ==
    ASSUME Monotone, NEW t \in Tx
    PROVE  /\ ReachedAll(t) => ReachedAll(t)'
           /\ AppliedEverywhere(t) => AppliedEverywhere(t)'
BY ActorFacts DEF Monotone, ReachedAll, AppliedEverywhere

\* A call that has been made stays in order.
LEMMA CallFrame ==
    ASSUME Monotone, NEW call \in Call, CallOK(call)
    PROVE  CallOK(call)'
<1> DEFINE part == [at |-> call.to, id |-> call.id]
<1>1. part \in Part
    BY DEF Call, Part
<1> HIDE DEF part
<1>2. CASE call.kind = "prepare"
    BY <1>2 DEF CallOK
<1>3. CASE call.kind = "commit"
    <2>1. PICK t \in Tx : Coord(t) = Home(call.from) /\ outcome[t] = "commit" /\ Backed(t, part)
        BY <1>3 DEF CallOK, part
    <2>2. outcome'[t] = "commit" /\ Backed(t, part)'
        BY <1>1, <2>1 DEF Monotone
    <2> QED
        BY <1>3, <2>1, <2>2 DEF CallOK, part
<1>4. CASE call.kind = "abort"
    <2>1. PICK t \in Tx : outcome[t] = "abort" /\ Mine(t, part)
        BY <1>4 DEF CallOK, part
    <2>2. outcome'[t] = "abort" /\ Mine(t, part)'
        BY <1>1, <2>1 DEF Monotone
    <2> QED
        BY <1>4, <2>1, <2>2 DEF CallOK, part
<1> QED
    BY <1>2, <1>3, <1>4 DEF Call

\* The batches of a server stay in order as long as they stay.
LEMMA BatchFrame ==
    ASSUME CommitInv, Monotone, NEW s \in Server,
           prepared'[s] = prepared[s], applied'[s] = applied[s], taken'[s] = taken[s]
    PROVE  BatchOK(s)'
<1>1. BatchOK(s) /\ applied[s] \subseteq Tx /\ \A b \in taken[s] : b.batch \in Tx
    BY DEF CommitInv, TypeOK
<1> QED
    BY <1>1 DEF BatchOK, Monotone

\* So do its decisions and the replay of them.
LEMMA LogFrame ==
    ASSUME CommitInv, Monotone, NEW s \in Server,
           decisions'[s] = decisions[s], rec'[s] = rec[s]
    PROVE  LogOK(s)'
<1>1. LogOK(s) /\ decisions[s] \in Seq(Decision) /\ rec[s].todo \in Seq(Decision) /\ rec[s].done \subseteq Tx
    BY DEF CommitInv, TypeOK
<1>2. \A i \in DOMAIN decisions[s] : DecisionOK(s, decisions[s][i])'
    BY <1>1, DecisionFrame DEF LogOK
<1>3. \A i \in DOMAIN rec[s].todo : DecisionOK(s, rec[s].todo[i])'
    BY <1>1, DecisionFrame DEF LogOK
<1>4. \A t \in rec[s].done : outcome'[t] # "open" /\ (outcome'[t] = "commit" => ReachedAll(t)')
    BY <1>1, ReachedFrame DEF LogOK, Monotone
<1> QED
    BY <1>1, <1>2, <1>3, <1>4 DEF LogOK

\* A coordinator that does not move stays in order: its batches are still
\* stored, named or applied.
LEMMA PhaseFrame ==
    ASSUME CommitInv, Monotone, NEW t \in Tx, co'[t] = co[t], outcome'[t] = outcome[t]
    PROVE  PhaseOK(t)'
<1>1. PhaseOK(t) /\ \A i \in DOMAIN co[t].held : co[t].held[i] \in Part
    BY DEF CommitInv, TypeOK
<1>2. ASSUME co[t].at \in {"staged", "prepare"}
      PROVE  \A i \in DOMAIN co[t].held : Stored(t, co[t].held[i])'
    BY <1>1, <1>2 DEF PhaseOK, Monotone
<1>3. ASSUME co[t].at = "abort"
      PROVE  \A i \in DOMAIN co[t].held : Mine(t, co[t].held[i])'
    BY <1>1, <1>3 DEF PhaseOK, Monotone
<1>4. ASSUME co[t].at = "commit"
      PROVE  \A i \in DOMAIN co[t].held : Backed(t, co[t].held[i])'
    BY <1>1, <1>4 DEF PhaseOK, Monotone
<1>5. \A p \in Participants(t) : t \in applied[p] => t \in applied'[p]
    BY ActorFacts DEF Monotone
<1>6. AppliedEverywhere(t) => AppliedEverywhere(t)'
    BY ReachedFrame
<1> QED
    BY <1>1, <1>2, <1>3, <1>4, <1>5, <1>6 DEF PhaseOK, Names

\* A queued call stays in order as long as the server of a prepare serves.
LEMMA QueuedFrame ==
    ASSUME CommitInv, Monotone, NEW call \in calls,
           call.kind = "prepare" => status'[call.to] = status[call.to]
    PROVE  QueuedOK(call)'
<1>1. call \in Call /\ QueuedOK(call)
    BY DEF CommitInv, TypeOK
<1> QED
    BY <1>1, CallFrame DEF QueuedOK

\* A loaded log still lacks nothing if nothing of its server is decided.
LEMMA LoadedFrame ==
    ASSUME Monotone, NEW s \in Server, NEW l \in Loaded, LoadedOK(s, l),
           \A t \in Tx : Coord(t) = s => outcome'[t] = outcome[t]
    PROVE  LoadedOK(s, l)'
<1>1. \A i \in DOMAIN l.keep : l.keep[i] \in Decision
    BY DEF Loaded
<1>2. \A i \in DOMAIN l.keep : DecisionOK(s, l.keep[i])'
    BY <1>1, DecisionFrame DEF LoadedOK
<1> QED
    BY <1>2, ReachedFrame DEF LoadedOK

\* The same for the log a thread has loaded.
LEMMA LoadFrame ==
    ASSUME CommitInv, Monotone, NEW c \in Caller, snap'[c] = snap[c],
           c \in Tx => co'[c] = co[c], c \in Server => rec'[c] = rec[c],
           \A t \in Tx : snap[c] # None /\ Coord(t) = Home(c) => outcome'[t] = outcome[t]
    PROVE  LoadOK(c)'
<1>1. CASE snap[c] = None
    BY <1>1 DEF LoadOK
<1>2. CASE snap[c] # None
    <2>1. snap[c] \in Loaded /\ LoadOK(c) /\ Home(c) \in Server
        BY <1>2, ActorFacts DEF CommitInv, TypeOK
    <2>2. LoadedOK(Home(c), snap[c])'
        BY <1>2, <2>1, LoadedFrame DEF LoadOK
    <2> QED
        BY <1>2, <2>1, <2>2 DEF LoadOK
<1> QED
    BY <1>1, <1>2

\* A caller that does not move waits for the same thing, for the same reason.
LEMMA WaitFrame ==
    ASSUME CommitInv, Monotone, NEW c \in Caller, wait'[c] = wait[c],
           c \in Tx => co'[c] = co[c], c \in Server => rec'[c] = rec[c]
    PROVE  WaitOK(c)'
<1>1. CASE wait[c] = None
    BY <1>1 DEF WaitOK
<1>2. CASE wait[c] # None
    <2>1. wait[c] \in Call /\ WaitOK(c)
        BY <1>2 DEF CommitInv, TypeOK
    <2>2. CallOK(wait[c])'
        BY <1>2, <2>1, CallFrame DEF WaitOK
    <2> QED
        BY <1>2, <2>1, <2>2 DEF WaitOK, TxWaits, ReplayWaits, Replaying, Current
<1> QED
    BY <1>1, <1>2

\* An answer that has not been taken off keeps its promise.
LEMMA AnswerFrame ==
    ASSUME CommitInv, Monotone, NEW c \in Caller, wait'[c] = wait[c], inbox'[c] = inbox[c]
    PROVE  AnswerOK(c)'
<1>1. CASE inbox[c] = None
    BY <1>1 DEF AnswerOK
<1>2. CASE inbox[c] # None
    <2> DEFINE part == [at |-> wait[c].to, id |-> inbox[c].id]
    <2>1. AnswerOK(c) /\ WaitOK(c) /\ wait[c] # None /\ wait[c] \in Call /\ inbox[c] \in AnswerRec
        BY <1>2 DEF CommitInv, TypeOK, AnswerOK
    <2>2. part \in Part /\ wait[c].to \in Server
        BY <2>1 DEF Call, AnswerRec, Part
    <2>3. ASSUME wait[c].kind = "prepare", inbox[c].res = "ok"
          PROVE  Stored(c, part)'
        <3>1. c \in Tx /\ co[c].at = "prepare"
            BY <2>1, <2>3, ActorAssumption DEF WaitOK, CallOK, TxWaits
        <3>2. outcome[c] = "open"
            BY <3>1 DEF CommitInv, PhaseOK
        <3>3. Stored(c, part)
            BY <1>2, <2>1, <2>3 DEF AnswerOK
        <3>4. PICK q \in Part : q = part
            BY <2>2
        <3>5. Stored(c, q)'
            BY <3>1, <3>2, <3>3, <3>4 DEF Monotone
        <3>6. q = [at |-> wait'[c].to, id |-> inbox'[c].id]
            BY <3>4
        <3> QED
            BY <3>5, <3>6
    <2>4. \A t \in Tx : /\ t \in applied[wait[c].to] => t \in applied'[wait[c].to]
                        /\ t \in Reached(wait[c].to) => t \in Reached(wait[c].to)'
        BY <2>2 DEF Monotone
    <2>5. ASSUME wait[c].kind = "commit", NEW t \in Tx, Coord(t) = Home(c)
          PROVE  /\ inbox[c].res = "ok" => t \in applied'[wait'[c].to]
                 /\ inbox[c].res = "unknown" => t \in Reached(wait[c].to)'
        BY <1>2, <2>1, <2>4, <2>5 DEF AnswerOK
    <2>6. wait'[c] # None /\ wait'[c].kind = wait[c].kind /\ inbox'[c].res = inbox[c].res
        BY <2>1
    <2> HIDE DEF part
    <2>7. wait'[c].kind = "prepare" /\ inbox'[c].res = "ok" =>
              Stored(c, [at |-> wait[c].to, id |-> inbox[c].id])'
        BY <2>3, <2>6 DEF part
    <2> QED
        BY <2>5, <2>6, <2>7 DEF AnswerOK
<1> QED
    BY <1>1, <1>2

\* A decision that was removed stays carried out.
LEMMA ClearedFrame ==
    ASSUME CommitInv, Monotone, UNCHANGED <<outcome, decisions>>
    PROVE  ClearedMeansReached'
<1>1. ClearedMeansReached
    BY DEF CommitInv
<1> QED
    BY <1>1, ReachedFrame DEF ClearedMeansReached, ReachedAll, OnRecord

\* Servers and threads that do not move stay as they were.
LEMMA QuietFrame ==
    ASSUME CommitInv, UNCHANGED <<status, rec, co, snap>>
    PROVE  Quiet'
BY DEF CommitInv, Quiet

\* The parts about stores and logs, together.
LEMMA StoresFrame ==
    ASSUME CommitInv, Monotone, UNCHANGED <<prepared, applied, taken, decisions, rec, outcome>>
    PROVE  (\A s \in Server : BatchOK(s)' /\ LogOK(s)') /\ ClearedMeansReached'
BY BatchFrame, LogFrame, ClearedFrame

\* The parts about threads, together.
LEMMA ThreadsFrame ==
    ASSUME CommitInv, Monotone, UNCHANGED <<co, rec, outcome, snap, status>>
    PROVE  (\A t \in Tx : PhaseOK(t)') /\ (\A c \in Caller : LoadOK(c)') /\ Quiet'
BY PhaseFrame, LoadFrame, QuietFrame

-----------------------------------------------------------------------------
(* Calls.                                                                  *)

\* A lost call answers nothing but an error.
LEMMA LoseCallStep ==
    ASSUME CommitInv, NEW c \in Caller, LoseCall(c)
    PROVE  CommitInv'
<1>0. TypeOK /\ wait[c] # None
    BY DEF CommitInv, LoseCall
<1>1. [res |-> "err", id |-> 0] \in AnswerRec
    BY DEF AnswerRec
<1>2. faults' \in Nat /\ calls' \subseteq calls
    BY <1>0 DEF TypeOK, LoseCall, Fault
<1>3. TypeOK'
    BY <1>0, <1>1, <1>2 DEF TypeOK, LoseCall, disk
<1>4. Monotone
    BY MonotoneFrame DEF LoseCall, disk
<1>5. (\A s \in Server : BatchOK(s)' /\ LogOK(s)') /\ ClearedMeansReached'
    BY <1>4, StoresFrame DEF LoseCall, disk
<1>6. (\A t \in Tx : PhaseOK(t)') /\ (\A d \in Caller : LoadOK(d)') /\ Quiet'
    BY <1>4, ThreadsFrame DEF LoseCall
<1>7. \A call \in calls' : QueuedOK(call)'
    BY <1>2, <1>4, QueuedFrame DEF LoseCall
<1>8. \A d \in Caller : WaitOK(d)'
    BY <1>4, WaitFrame DEF LoseCall
<1>9. \A d \in Caller : AnswerOK(d)'
    <2> TAKE d \in Caller
    <2>1. CASE d # c
        BY <1>0, <1>4, <2>1, AnswerFrame DEF LoseCall, TypeOK
    <2>2. CASE d = c
        <3>1. inbox'[c].res = "err" /\ wait'[c] = wait[c]
            BY <1>0 DEF LoseCall, TypeOK
        <3> QED
            BY <1>0, <2>2, <3>1 DEF AnswerOK
    <2> QED
        BY <2>1, <2>2
<1> QED
    BY <1>3, <1>5, <1>6, <1>7, <1>8, <1>9 DEF CommitInv

\* A call that is in order and that its caller has reason to wait for.
LEMMA AskStep ==
    ASSUME CommitInv, TypeOK', NEW c \in Caller, NEW call \in Call, Ask(c, call),
           call.from = c, CallOK(call),
           call.kind = "prepare" => status[call.to] = "serving",
           c \in Tx => TxWaits(c)', c \in Server => ReplayWaits(c)',
           UNCHANGED <<disk, status, nextId, co, rec, taken, inbox, snap, outcome>>
    PROVE  CommitInv'
<1>0. TypeOK /\ inbox[c] = None
    BY DEF CommitInv, AnswerOK, Ask
<1>1. Monotone
    BY MonotoneFrame DEF disk
<1>2. (\A s \in Server : BatchOK(s)' /\ LogOK(s)') /\ ClearedMeansReached'
    BY <1>1, StoresFrame DEF disk
<1>3. (\A t \in Tx : PhaseOK(t)') /\ (\A d \in Caller : LoadOK(d)') /\ Quiet'
    BY <1>1, ThreadsFrame
<1>4. CallOK(call)'
    BY <1>1, CallFrame
<1>5. \A k \in calls' : QueuedOK(k)'
    BY <1>1, <1>4, QueuedFrame DEF Ask, QueuedOK
<1>6. wait'[c] = call /\ \A d \in Caller : d # c => wait'[d] = wait[d]
    BY <1>0 DEF Ask, TypeOK
<1>7. \A d \in Caller : WaitOK(d)'
    <2> TAKE d \in Caller
    <2>1. CASE d # c
        BY <1>1, <1>6, <2>1, WaitFrame
    <2>2. CASE d = c
        BY <1>4, <1>6, <2>2 DEF WaitOK
    <2> QED
        BY <2>1, <2>2
<1>8. \A d \in Caller : AnswerOK(d)'
    <2> TAKE d \in Caller
    <2>1. CASE d # c
        BY <1>1, <1>6, <2>1, AnswerFrame
    <2>2. CASE d = c
        BY <1>0, <2>2 DEF AnswerOK
    <2> QED
        BY <2>1, <2>2
<1> QED
    BY <1>2, <1>3, <1>5, <1>7, <1>8 DEF CommitInv

\* The next participant is asked to prepare.
LEMMA AskPrepareStep ==
    ASSUME CommitInv, NEW t \in Tx, AskPrepare(t)
    PROVE  CommitInv'
<1> DEFINE call == [kind |-> "prepare", to |-> Following(t), id |-> 0, batch |-> t, from |-> t]
<1>0. TypeOK /\ t \in Caller /\ co[t].at = "prepare" /\ co[t].held \in Seq(Part)
    BY DEF CommitInv, AskPrepare, Preparing, Caller, TypeOK
<1>1. /\ Len(co[t].held) < Len(Targets(t))
      /\ Following(t) = Targets(t)[Len(co[t].held) + 1]
    BY DEF AskPrepare, Preparing, Held, Following
<1>2. Following(t) \in Participants(t) /\ Following(t) \in Server
    <2>1. Len(co[t].held) + 1 \in DOMAIN Targets(t)
        BY <1>0, <1>1, ActorFacts
    <2> QED
        BY <1>1, <2>1, ActorFacts DEF Participants
<1>3. call \in Call
    BY <1>2 DEF Call
<1>4. status[Following(t)] = "serving"
    BY ActorFacts DEF AskPrepare, Preparing, Running, Reachable
<1>5. Ask(t, call) /\ UNCHANGED <<disk, status, nextId, co, rec, taken, inbox, snap, faults, outcome>>
    BY DEF AskPrepare
<1>6. streams' \in [Tx -> SUBSET Server]
    BY <1>0, <1>2 DEF AskPrepare, TypeOK
<1>7. TypeOK'
    BY <1>0, <1>3, <1>5, <1>6 DEF TypeOK, Ask, disk
<1>8. CallOK(call)
    BY <1>2 DEF CallOK
<1>9. TxWaits(t)'
    <2>1. wait'[t] = call /\ co' = co
        BY <1>0, <1>5 DEF Ask, TypeOK
    <2> QED
        BY <1>0, <1>1, <2>1 DEF TxWaits
<1>10. call.from = t /\ call.to = Following(t)
    OBVIOUS
<1> HIDE DEF call
<1> QED
    BY <1>0, <1>3, <1>4, <1>5, <1>7, <1>8, <1>9, <1>10, ActorAssumption, AskStep

\* The next batch is to be committed or aborted.
LEMMA AskFinishStep ==
    ASSUME CommitInv, NEW t \in Tx, AskFinish(t)
    PROVE  CommitInv'
<1> DEFINE call == [kind |-> co[t].at, to |-> Head(Held(t)).at, id |-> Head(Held(t)).id,
                    batch |-> None, from |-> t]
           part == Head(co[t].held)
<1>0. TypeOK /\ t \in Caller /\ co[t].at \in {"commit", "abort"} /\ co[t].held \in Seq(Part)
    BY DEF CommitInv, AskFinish, Finishing, Caller, TypeOK
<1>1. /\ co[t].held # <<>> /\ part \in Part /\ 1 \in DOMAIN co[t].held /\ part = co[t].held[1]
      /\ part.at \in Server /\ part.id \in Nat
    <2>1. co[t].held # <<>>
        BY DEF AskFinish, Finishing, Held
    <2> QED
        BY <1>0, <2>1, FirstFact, FieldFacts
<1>2. call \in Call
    BY <1>0, <1>1 DEF Call, Held, Caller
<1>3. Ask(t, call) /\ UNCHANGED <<disk, status, nextId, co, rec, taken, inbox, snap, streams, faults, outcome>>
    BY DEF AskFinish
<1>4. TypeOK'
    BY <1>0, <1>2, <1>3 DEF TypeOK, Ask, disk
<1>5. PICK q \in Part : q = part
    BY <1>1
<1>6. [at |-> call.to, id |-> call.id] = q
    BY <1>1, <1>5 DEF Part, Held
<1>7. CallOK(call)
    <2>1. CASE co[t].at = "commit"
        <3>1. outcome[t] = "commit" /\ Backed(t, q)
            BY <1>1, <1>5, <2>1 DEF CommitInv, PhaseOK
        <3>2. Coord(t) = Home(call.from)
            BY ActorFacts
        <3>3. Backed(t, [at |-> call.to, id |-> call.id])
            BY <1>6, <3>1
        <3> QED
            BY <2>1, <3>1, <3>2, <3>3 DEF CallOK
    <2>2. CASE co[t].at = "abort"
        <3>1. outcome[t] = "abort" /\ Mine(t, q)
            BY <1>1, <1>5, <2>2 DEF CommitInv, PhaseOK
        <3>2. Mine(t, [at |-> call.to, id |-> call.id])
            BY <1>6, <3>1
        <3> QED
            BY <2>2, <3>1, <3>2 DEF CallOK
    <2> QED
        BY <1>0, <2>1, <2>2
<1>8. TxWaits(t)'
    <2>1. wait'[t] = call /\ co' = co
        BY <1>0, <1>3 DEF Ask, TypeOK
    <2> QED
        BY <1>0, <1>1, <2>1 DEF TxWaits, Held
<1>9. call.from = t /\ call.kind # "prepare"
    BY <1>0
<1>10. t \notin Server
    BY ActorAssumption
<1>11. PICK k \in Call : k = call
    BY <1>2
<1> HIDE DEF call
<1> QED
    BY <1>0, <1>3, <1>4, <1>7, <1>8, <1>9, <1>10, <1>11, AskStep

\* Replay asks for the next part of a decision.
LEMMA AskReplayStep ==
    ASSUME CommitInv, NEW s \in Server, AskReplay(s)
    PROVE  CommitInv'
<1> DEFINE d == Current(s)
           part == Head(d.parts)
           call == [kind |-> d.decision, to |-> part.at, id |-> part.id, batch |-> None, from |-> s]
<1>0. TypeOK /\ s \in Caller /\ Replaying(s) /\ d.parts # <<>>
    BY DEF CommitInv, AskReplay, Asking, Caller
<1>1. d \in Decision /\ 1 \in DOMAIN rec[s].todo /\ d = rec[s].todo[1]
    BY <1>0 DEF TypeOK, Replaying, Current
<1>2. /\ d.tx \in Tx /\ d.decision \in {"commit", "abort"} /\ d.parts \in Seq(Part)
      /\ part \in Part /\ 1 \in DOMAIN d.parts /\ part = d.parts[1] /\ part.at \in Server /\ part.id \in Nat
    <2>1. d.tx \in Tx /\ d.decision \in {"commit", "abort"} /\ d.parts \in Seq(Part)
        BY <1>1, FieldFacts
    <2> QED
        BY <1>0, <2>1, FirstFact, FieldFacts
<1>3. call \in Call
    BY <1>0, <1>2 DEF Call, Caller
<1>4. Ask(s, call) /\ UNCHANGED <<disk, status, nextId, co, rec, taken, inbox, snap, streams, faults, outcome>>
    BY DEF AskReplay
<1>5. TypeOK'
    BY <1>0, <1>3, <1>4 DEF TypeOK, Ask, disk
<1>6. DecisionOK(s, d)
    BY <1>1 DEF CommitInv, LogOK
<1>7. CallOK(call)
    <2>1. PICK q \in Part, t \in Tx : q = part /\ t = d.tx
        BY <1>2
    <2>2. [at |-> call.to, id |-> call.id] = q
        BY <1>2, <2>1 DEF Part
    <2>3. Coord(t) = s /\ outcome[t] = d.decision /\ Backed(t, q)
        BY <1>2, <1>6, <2>1 DEF DecisionOK
    <2>4. Coord(t) = Home(call.from) /\ Mine(t, q)
        BY <2>3, ActorFacts DEF Backed
    <2>5. Backed(t, [at |-> call.to, id |-> call.id]) /\ Mine(t, [at |-> call.to, id |-> call.id])
        BY <2>2, <2>3, <2>4
    <2> QED
        BY <1>2, <2>3, <2>4, <2>5 DEF CallOK
<1>8. ReplayWaits(s)'
    <2>1. wait'[s] = call /\ rec' = rec
        BY <1>0, <1>4 DEF Ask, TypeOK
    <2> QED
        BY <1>0, <2>1 DEF ReplayWaits, Replaying, Current
<1>9. call.from = s /\ call.kind # "prepare"
    BY <1>2
<1>10. s \notin Tx
    BY ActorAssumption
<1>11. PICK k \in Call : k = call
    BY <1>3
<1> HIDE DEF call
<1> QED
    BY <1>0, <1>4, <1>5, <1>7, <1>8, <1>9, <1>10, <1>11, AskStep

-----------------------------------------------------------------------------
(* The participant.                                                        *)

\* An answer goes to the caller that waits for it, and to nobody else.
LEMMA ReplyFact ==
    ASSUME TypeOK, NEW call \in Call, NEW res \in {"ok", "unknown", "err"}, NEW id \in Nat,
           Reply(call, res, id)
    PROVE  /\ inbox' \in [Caller -> AnswerRec \cup {None}]
           /\ \A c \in Caller :
                 \/ inbox'[c] = inbox[c]
                 \/ wait[c] = call /\ inbox'[c].res = res /\ inbox'[c].id = id
<1>1. [res |-> res, id |-> id] \in AnswerRec
    BY DEF AnswerRec
<1>2. call.from \in Caller
    BY DEF Call, Caller
<1> QED
    BY <1>1, <1>2 DEF Reply, TypeOK

\* A participant's step is in order if its answer promises what is so.
LEMMA ServeStep ==
    ASSUME CommitInv, Monotone, TypeOK', \A s \in Server : BatchOK(s)', calls' \subseteq calls,
           UNCHANGED <<decisions, status, co, rec, wait, snap, outcome>>,
           NEW call \in Call, NEW res \in {"ok", "unknown", "err"}, NEW id \in Nat,
           Reply(call, res, id) \/ UNCHANGED inbox,
           call.kind = "prepare" /\ res = "ok" =>
               Stored(call.from, [at |-> call.to, id |-> id])',
           call.kind = "commit" => \A t \in Tx : Coord(t) = Home(call.from) =>
               /\ res = "ok" => t \in applied'[call.to]
               /\ res = "unknown" => t \in Reached(call.to)'
    PROVE  CommitInv'
<1>0. TypeOK
    BY DEF CommitInv
<1>1. (\A s \in Server : LogOK(s)') /\ ClearedMeansReached'
    BY LogFrame, ClearedFrame
<1>2. (\A t \in Tx : PhaseOK(t)') /\ (\A d \in Caller : LoadOK(d)') /\ Quiet'
    BY ThreadsFrame
<1>3. \A k \in calls' : QueuedOK(k)'
    BY QueuedFrame
<1>4. \A d \in Caller : WaitOK(d)'
    BY WaitFrame
<1>5. \A c \in Caller : AnswerOK(c)'
    <2> TAKE c \in Caller
    <2>1. CASE inbox'[c] = inbox[c]
        BY <2>1, AnswerFrame
    <2>2. CASE inbox'[c] # inbox[c]
        <3>1. wait[c] = call /\ inbox'[c].res = res /\ inbox'[c].id = id
            BY <1>0, <2>2, ReplyFact
        <3>2. wait[c] # None /\ call.from = c
            BY <3>1, NoneAssumption DEF CommitInv, WaitOK
        <3>3. wait'[c] = call
            BY <3>1
        <3> QED
            BY <3>1, <3>2, <3>3 DEF AnswerOK
    <2> QED
        BY <2>1, <2>2
<1> QED
    BY <1>1, <1>2, <1>3, <1>4, <1>5 DEF CommitInv

\* A refused prepare changes nothing.
LEMMA RefusePrepareStep ==
    ASSUME CommitInv, NEW call \in calls, RefusePrepare(call)
    PROVE  CommitInv'
<1>0. TypeOK /\ call \in Call /\ call.kind = "prepare"
    BY DEF CommitInv, TypeOK, RefusePrepare
<1>1. Reply(call, "err", 0) /\ calls' \subseteq calls
    BY DEF RefusePrepare
<1>2. Monotone
    BY MonotoneFrame DEF RefusePrepare, disk
<1>3. faults' \in Nat
    BY <1>0 DEF RefusePrepare, Fault, TypeOK
<1>4. inbox' \in [Caller -> AnswerRec \cup {None}]
    BY <1>0, <1>1, ReplyFact
<1>5. TypeOK'
    BY <1>0, <1>1, <1>3, <1>4 DEF TypeOK, RefusePrepare, disk
<1>6. \A s \in Server : BatchOK(s)'
    BY <1>2, BatchFrame DEF RefusePrepare, disk
<1>7. UNCHANGED <<decisions, status, co, rec, wait, snap, outcome>>
    BY DEF RefusePrepare, disk
<1> QED
    BY <1>0, <1>1, <1>2, <1>5, <1>6, <1>7, ServeStep

\* A prepared batch gets an id that nobody names for another transaction: the
\* ids of a server that does not die grow, and one that may die has batches of
\* this transaction only.
LEMMA PrepareStep ==
    ASSUME CommitInv, ProofHypotheses, NEW call \in calls, Prepare(call)
    PROVE  CommitInv'
<1>0. TypeOK /\ call \in Call /\ call.kind = "prepare"
    BY DEF CommitInv, TypeOK, Prepare
<1>1. PICK p \in Server, t \in Tx, id \in Nat :
          /\ p = call.to /\ t = call.batch /\ t = call.from /\ p \in Participants(t)
          /\ id = nextId[p] + 1
    <2>1. CallOK(call) /\ call.to \in Server
        BY <1>0 DEF CommitInv, QueuedOK, Call
    <2>2. nextId[call.to] + 1 \in Nat
        BY <1>0, <2>1 DEF TypeOK
    <2> QED
        BY <1>0, <2>1, <2>2 DEF CallOK
<1>2. /\ DOMAIN prepared' = Server /\ \A s \in Server : s # p => prepared'[s] = prepared[s]
      /\ DOMAIN prepared'[p] = DOMAIN prepared[p] \cup {id}
      /\ prepared'[p][id] = t
      /\ \A i \in DOMAIN prepared[p] : i # id => prepared'[p][i] = prepared[p][i]
    BY <1>0, <1>1 DEF Prepare, TypeOK
<1>3. /\ nextId' \in [Server -> Nat] /\ nextId'[p] = id
      /\ \A s \in Server : s # p => nextId'[s] = nextId[s]
    BY <1>0, <1>1 DEF Prepare, TypeOK
<1>4. UNCHANGED <<decisions, applied, status, co, rec, taken, wait, snap, streams, faults, outcome>>
    BY DEF Prepare
<1>5. Reply(call, "ok", id) /\ calls' \subseteq calls
    BY <1>1 DEF Prepare
<1>6. /\ \A i \in DOMAIN prepared[p] : i \in 1..id /\ i # id /\ prepared[p][i] \in Tx
      /\ id \in 1..id /\ nextId[p] \in Nat /\ nextId[p] < id
    BY <1>0, <1>1 DEF TypeOK
<1>7. TypeOK'
    <2>1. \A s \in Server : \A i \in DOMAIN prepared'[s] : prepared'[s][i] \in Tx /\ i \in 1..nextId'[s]
        BY ZenonT(60), <1>0, <1>2, <1>3, <1>6 DEF TypeOK
    <2>2. inbox' \in [Caller -> AnswerRec \cup {None}]
        BY <1>0, <1>5, ReplyFact
    <2> QED
        BY <1>0, <1>2, <1>3, <1>4, <1>5, <2>1, <2>2 DEF TypeOK
<1>8. \A u \in Tx, part \in Part : Mine(u, part) => Mine(u, part)'
    <2> SUFFICES ASSUME NEW u \in Tx, NEW part \in Part, Mine(u, part)
                 PROVE  Mine(u, part)'
        OBVIOUS
    <2>0. part.at \in Server /\ part.id \in Nat
        BY FieldFacts
    <2>1. CASE part.at # p
        BY <1>2, <1>3, <2>0, <2>1 DEF Mine
    <2>2. CASE part.at = p
        <3>1. part.id = id => u = t
            BY <1>1, <1>6, <2>0, <2>2 DEF Mine, ProofHypotheses, CrasherServesOne
        <3> QED
            BY <1>2, <1>3, <1>6, <2>0, <2>2, <3>1 DEF Mine
    <2> QED
        BY <2>1, <2>2
<1>9. \A u \in Tx, part \in Part : part.id \in DOMAIN prepared[part.at] => part.id \in DOMAIN prepared'[part.at]
    BY <1>2, FieldFacts
<1>10. Monotone
    <2>1. \A s \in Server : Reached(s)' = Reached(s)
        BY <1>4 DEF Reached
    <2>2. \A u \in Tx, part \in Part : Stored(u, part) => Stored(u, part)'
        BY <1>8, <1>9 DEF Stored
    <2>3. \A u \in Tx, part \in Part : Backed(u, part) => Backed(u, part)'
        BY <1>4, <1>8, <1>9, <2>1, FieldFacts DEF Backed
    <2> QED
        BY <1>4, <1>8, <2>1, <2>2, <2>3 DEF Monotone
<1>11. \A s \in Server : BatchOK(s)'
    <2> TAKE s \in Server
    <2>1. CASE s # p
        BY <1>2, <1>4, <1>10, <2>1, BatchFrame
    <2>2. CASE s = p
        <3>1. BatchOK(s)
            BY DEF CommitInv
        <3> QED
            BY <1>1, <1>2, <1>4, <2>2, <3>1 DEF BatchOK
    <2> QED
        BY <2>1, <2>2
<1>12. Stored(call.from, [at |-> call.to, id |-> id])'
    <2>1. Stored(t, [at |-> p, id |-> id])'
        BY <1>1, <1>2, <1>3 DEF Stored, Mine
    <2> QED
        BY <1>1, <2>1
<1> QED
    BY <1>0, <1>4, <1>5, <1>7, <1>10, <1>11, <1>12, ServeStep

\* A batch leaves the store of a server.
LEMMA WithoutFact ==
    ASSUME TypeOK, NEW p \in Server, NEW id, prepared' = [prepared EXCEPT ![p] = Without(@, id)]
    PROVE  /\ DOMAIN prepared' = Server /\ \A s \in Server : s # p => prepared'[s] = prepared[s]
           /\ DOMAIN prepared'[p] = DOMAIN prepared[p] \ {id}
           /\ \A i \in DOMAIN prepared'[p] : prepared'[p][i] = prepared[p][i]
           /\ \A s \in Server : DOMAIN prepared'[s] \subseteq DOMAIN prepared[s]
           /\ \A s \in Server : \A i \in DOMAIN prepared'[s] : prepared'[s][i] = prepared[s][i]
<1>1. /\ DOMAIN prepared' = Server /\ \A s \in Server : s # p => prepared'[s] = prepared[s]
      /\ prepared'[p] = Without(prepared[p], id)
    BY DEF TypeOK
<1>2. /\ DOMAIN prepared'[p] = DOMAIN prepared[p] \ {id}
      /\ \A i \in DOMAIN prepared'[p] : prepared'[p][i] = prepared[p][i]
    BY <1>1 DEF Without
<1> QED
    BY <1>1, <1>2

\* A batch of a decided transaction may leave the store: to be applied if the
\* decision was to commit.
LEMMA TakeMonotone ==
    ASSUME TypeOK, NEW p \in Server, NEW id, prepared' = [prepared EXCEPT ![p] = Without(@, id)],
           UNCHANGED <<nextId, applied, outcome>>, NEW t \in Tx, outcome[t] # "open",
           id \in DOMAIN prepared[p] => prepared[p][id] = t,
           \A s \in Server : Reached(s) \subseteq Reached(s)',
           outcome[t] = "commit" => t \in Reached(p)'
    PROVE  Monotone
<1>1. \A u \in Tx, part \in Part : Mine(u, part) => Mine(u, part)'
    BY ZenonT(60), WithoutFact, FieldFacts DEF Mine
<1>2. \A u \in Tx, part \in Part :
          part.id \in DOMAIN prepared[part.at] /\ prepared[part.at][part.id] = u =>
             \/ part.id \in DOMAIN prepared'[part.at]
             \/ u = t /\ part.at = p
    <2> SUFFICES ASSUME NEW u \in Tx, NEW part \in Part,
                        part.id \in DOMAIN prepared[part.at], prepared[part.at][part.id] = u,
                        part.id \notin DOMAIN prepared'[part.at]
                 PROVE  u = t /\ part.at = p
        OBVIOUS
    <2>1. part.at \in Server /\ part.at = p
        BY WithoutFact, FieldFacts
    <2>2. DOMAIN prepared'[p] = DOMAIN prepared[p] \ {id}
        BY WithoutFact
    <2>3. part.id = id
        BY <2>1, <2>2
    <2> QED
        BY <2>1, <2>3
<1>3. \A u \in Tx, part \in Part : Stored(u, part) /\ outcome[u] = "open" => Stored(u, part)'
    BY <1>1, <1>2 DEF Stored, Mine
<1>4. \A u \in Tx, part \in Part : Backed(u, part) /\ outcome[u] # "open" => Backed(u, part)'
    <2> SUFFICES ASSUME NEW u \in Tx, NEW part \in Part, Backed(u, part)
                 PROVE  Backed(u, part)'
        OBVIOUS
    <2>1. Mine(u, part) /\ Mine(u, part)' /\ part.at \in Server
        BY <1>1, FieldFacts DEF Backed
    <2>2. ASSUME outcome[u] = "commit"
          PROVE  part.id \in DOMAIN prepared'[part.at] \/ u \in Reached(part.at)'
        <3>1. CASE u \in Reached(part.at)
            BY <2>1, <3>1
        <3>2. CASE part.id \in DOMAIN prepared[part.at]
            BY <1>2, <2>1, <2>2, <3>2 DEF Mine
        <3> QED
            BY <2>2, <3>1, <3>2 DEF Backed
    <2> QED
        BY <2>1, <2>2 DEF Backed
<1> QED
    BY <1>1, <1>3, <1>4 DEF Monotone, Reached

\* What leaves the store to be committed is a batch of the committed
\* transaction that the call names, and a call that finds nothing comes after
\* another that did.
LEMMA TakeToCommitStep ==
    ASSUME CommitInv, ProofHypotheses, NEW call \in calls, TakeToCommit(call)
    PROVE  CommitInv'
<1>0. TypeOK /\ call \in Call /\ call.kind = "commit" /\ calls' \subseteq calls
    BY DEF CommitInv, TypeOK, TakeToCommit
<1>1. PICK p \in Server, id \in Nat, t \in Tx :
          /\ p = call.to /\ id = call.id /\ Coord(t) = Home(call.from) /\ outcome[t] = "commit"
          /\ p \in Participants(t) /\ (id \in DOMAIN prepared[p] => prepared[p][id] = t)
          /\ id \in DOMAIN prepared[p] \/ t \in Reached(p)
    <2>1. CallOK(call) /\ call.to \in Server /\ call.id \in Nat
        BY <1>0 DEF CommitInv, QueuedOK, Call
    <2>2. PICK t \in Tx : /\ Coord(t) = Home(call.from) /\ outcome[t] = "commit"
                          /\ Backed(t, [at |-> call.to, id |-> call.id])
        BY <1>0, <2>1 DEF CallOK
    <2> QED
        BY <2>1, <2>2 DEF Backed, Mine
<1>2. UNCHANGED <<decisions, applied, status, nextId, co, rec, wait, snap, streams, faults, outcome>>
    BY DEF TakeToCommit
<1>3. CASE id \in DOMAIN prepared[p]
    <2>1. PICK b \in [call : Call, batch : Tx] : b.call = call /\ b.batch = t
        <3>1. [call |-> call, batch |-> t] \in [call : Call, batch : Tx]
            BY <1>0, <1>1
        <3> QED
            BY <3>1
    <2>2. /\ taken' = [taken EXCEPT ![p] = @ \cup {b}]
          /\ prepared' = [prepared EXCEPT ![p] = Without(@, id)]
          /\ UNCHANGED inbox
        BY <1>0, <1>1, <1>3, <2>1 DEF TakeToCommit
    <2>3. /\ taken' \in [Server -> SUBSET [call : Call, batch : Tx]] /\ taken'[p] = taken[p] \cup {b}
          /\ \A s \in Server : s # p => taken'[s] = taken[s]
        <3>1. taken \in [Server -> SUBSET [call : Call, batch : Tx]]
            BY <1>0 DEF TypeOK
        <3> QED
            BY <2>2, <3>1
    <2>10. /\ DOMAIN prepared' = Server
           /\ \A s \in Server : DOMAIN prepared'[s] \subseteq DOMAIN prepared[s]
           /\ \A s \in Server : \A i \in DOMAIN prepared'[s] : prepared'[s][i] = prepared[s][i]
        BY <1>0, <2>2, WithoutFact
    <2>4. \A s \in Server : \A i \in DOMAIN prepared'[s] : prepared'[s][i] \in Tx /\ i \in 1..nextId'[s]
        BY <1>0, <1>2, <2>10 DEF TypeOK
    <2>5. TypeOK'
        BY <1>0, <1>2, <2>2, <2>3, <2>4, <2>10 DEF TypeOK
    <2>6. (\A s \in Server : Reached(s) \subseteq Reached(s)') /\ t \in Reached(p)'
        BY <1>2, <2>1, <2>3 DEF Reached
    <2>7. Monotone
        <3>1. outcome[t] # "open" /\ UNCHANGED <<nextId, applied, outcome>> /\ TypeOK /\ prepared[p][id] = t
            BY <1>0, <1>1, <1>2, <1>3
        <3> QED
            BY <2>2, <2>6, <3>1, TakeMonotone
    <2>8. \A s \in Server : BatchOK(s)'
        <3> TAKE s \in Server
        <3>1. BatchOK(s)
            BY DEF CommitInv
        <3>2. \A c \in taken'[s] : c \in taken[s] \/ (c = b /\ s = p)
            BY <2>3
        <3> QED
            BY <1>0, <1>1, <1>2, <2>1, <2>10, <3>1, <3>2 DEF BatchOK
    <2>9. "err" \in {"ok", "unknown", "err"} /\ 0 \in Nat
        OBVIOUS
    <2> QED
        BY <1>0, <1>2, <2>2, <2>5, <2>7, <2>8, <2>9, ServeStep
<1>4. CASE id \notin DOMAIN prepared[p]
    <2>1. UNCHANGED <<taken, prepared>> /\ Reply(call, "unknown", 0)
        BY <1>0, <1>1, <1>4 DEF TakeToCommit
    <2>2. Monotone
        BY <1>2, <2>1, MonotoneFrame
    <2>3. inbox' \in [Caller -> AnswerRec \cup {None}]
        BY <1>0, <2>1, ReplyFact
    <2>4. TypeOK'
        BY <1>0, <1>2, <2>1, <2>3 DEF TypeOK
    <2>5. \A s \in Server : BatchOK(s)'
        BY <1>2, <2>1, <2>2, BatchFrame
    <2>6. \A u \in Tx : Coord(u) = Home(call.from) => u \in Reached(call.to)'
        <3>1. t \in Reached(p)'
            BY <1>1, <1>4, <2>2 DEF Monotone
        <3>2. \A u \in Tx : Coord(u) = Home(call.from) => u = t
            BY <1>1 DEF ProofHypotheses, OneTxEach
        <3> QED
            BY <1>1, <3>1, <3>2
    <2> QED
        BY <1>0, <1>2, <2>1, <2>2, <2>4, <2>5, <2>6, ServeStep
<1> QED
    BY <1>3, <1>4

\* An aborted batch leaves the store; a committed one never does that way.
LEMMA TakeToAbortStep ==
    ASSUME CommitInv, NEW call \in calls, TakeToAbort(call)
    PROVE  CommitInv'
<1>0. TypeOK /\ call \in Call /\ call.kind = "abort" /\ calls' \subseteq calls
    BY DEF CommitInv, TypeOK, TakeToAbort
<1>1. PICK p \in Server, id \in Nat, t \in Tx :
          /\ p = call.to /\ id = call.id /\ outcome[t] = "abort"
          /\ id \in DOMAIN prepared[p] => prepared[p][id] = t
    <2>1. CallOK(call) /\ call.to \in Server /\ call.id \in Nat
        BY <1>0 DEF CommitInv, QueuedOK, Call
    <2>2. PICK t \in Tx : outcome[t] = "abort" /\ Mine(t, [at |-> call.to, id |-> call.id])
        BY <1>0, <2>1 DEF CallOK
    <2> QED
        BY <2>1, <2>2 DEF Mine
<1>2. UNCHANGED <<decisions, applied, status, nextId, co, rec, taken, wait, snap, streams, faults, outcome>>
    BY DEF TakeToAbort
<1>3. prepared' = [prepared EXCEPT ![p] = Without(@, id)]
    BY <1>1 DEF TakeToAbort
<1>4. PICK res \in {"ok", "unknown", "err"} : Reply(call, res, 0)
    BY DEF TakeToAbort
<1>5. \A s \in Server : Reached(s) \subseteq Reached(s)'
    BY <1>2 DEF Reached
<1>6. Monotone
    BY <1>0, <1>1, <1>2, <1>3, <1>5, TakeMonotone
<1>9. /\ DOMAIN prepared' = Server
      /\ \A s \in Server : DOMAIN prepared'[s] \subseteq DOMAIN prepared[s]
      /\ \A s \in Server : \A i \in DOMAIN prepared'[s] : prepared'[s][i] = prepared[s][i]
    BY <1>0, <1>3, WithoutFact
<1>7. TypeOK'
    <2>1. inbox' \in [Caller -> AnswerRec \cup {None}]
        BY <1>0, <1>4, ReplyFact
    <2>2. \A s \in Server : \A i \in DOMAIN prepared'[s] : prepared'[s][i] \in Tx /\ i \in 1..nextId'[s]
        BY <1>0, <1>2, <1>9 DEF TypeOK
    <2> QED
        BY <1>0, <1>2, <1>9, <2>1, <2>2 DEF TypeOK
<1>8. \A s \in Server : BatchOK(s)'
    <2> TAKE s \in Server
    <2>1. BatchOK(s)
        BY DEF CommitInv
    <2> QED
        BY <1>0, <1>2, <1>9, <2>1 DEF BatchOK
<1> QED
    BY <1>0, <1>2, <1>4, <1>6, <1>7, <1>8, ServeStep

\* The batch that was taken is applied, and the caller hears it.
LEMMA ExecuteStep ==
    ASSUME CommitInv, ProofHypotheses, NEW s \in Server, NEW b \in taken[s], Execute(s, b)
    PROVE  CommitInv'
<1>0. TypeOK /\ BatchOK(s)
    BY DEF CommitInv
<1>1. /\ b.call \in Call /\ b.batch \in Tx /\ s \in Participants(b.batch) /\ outcome[b.batch] = "commit"
      /\ b.call.kind = "commit" /\ b.call.to = s /\ Coord(b.batch) = Home(b.call.from)
    BY <1>0 DEF TypeOK, BatchOK
<1>2. /\ applied' = [applied EXCEPT ![s] = @ \cup {b.batch}] /\ Reply(b.call, "ok", 0)
      /\ taken' = [taken EXCEPT ![s] = @ \ {b}]
    BY DEF Execute, ProofHypotheses
<1>3. UNCHANGED <<prepared, decisions, status, nextId, co, rec, calls, wait, snap, streams, faults, outcome>>
    BY DEF Execute
<1>4. /\ applied' \in [Server -> SUBSET Tx] /\ applied'[s] = applied[s] \cup {b.batch}
      /\ taken' \in [Server -> SUBSET [call : Call, batch : Tx]] /\ taken'[s] = taken[s] \ {b}
      /\ \A r \in Server : r # s => applied'[r] = applied[r] /\ taken'[r] = taken[r]
    BY <1>0, <1>1, <1>2 DEF TypeOK
<1>5. \A r \in Server : Reached(r)' = Reached(r)
    <2> TAKE r \in Server
    <2>1. CASE r # s
        BY <1>4, <2>1 DEF Reached
    <2>2. CASE r = s
        BY <1>4, <2>2 DEF Reached
    <2> QED
        BY <2>1, <2>2
<1>6. Monotone
    <2>1. \A u \in Tx, part \in Part : Mine(u, part) => Mine(u, part)'
        BY <1>3 DEF Mine
    <2>2. \A u \in Tx, part \in Part : Stored(u, part) => Stored(u, part)'
        BY <1>3, <2>1 DEF Stored
    <2>3. \A u \in Tx, part \in Part : Backed(u, part) => Backed(u, part)'
        BY <1>3, <1>5, <2>1, FieldFacts DEF Backed
    <2>4. \A u \in Tx, r \in Server : u \in applied[r] => u \in applied'[r]
        BY <1>4
    <2> QED
        BY <1>3, <1>5, <2>1, <2>2, <2>3, <2>4 DEF Monotone
<1>7. TypeOK'
    <2>1. inbox' \in [Caller -> AnswerRec \cup {None}]
        BY <1>0, <1>1, <1>2, ReplyFact
    <2> QED
        BY <1>0, <1>3, <1>4, <2>1 DEF TypeOK
<1>8. \A r \in Server : BatchOK(r)'
    <2> TAKE r \in Server
    <2>1. CASE r # s
        BY <1>3, <1>4, <1>6, <2>1, BatchFrame
    <2>2. CASE r = s
        BY <1>0, <1>1, <1>3, <1>4, <2>2 DEF BatchOK
    <2> QED
        BY <2>1, <2>2
<1>9. \A t \in Tx : Coord(t) = Home(b.call.from) => t \in applied'[b.call.to]
    BY <1>1, <1>4 DEF ProofHypotheses, OneTxEach
<1>10. b.call.kind # "prepare" /\ calls' \subseteq calls
    BY <1>1, <1>3
<1> QED
    BY <1>1, <1>2, <1>3, <1>6, <1>7, <1>8, <1>9, <1>10, ServeStep

-----------------------------------------------------------------------------
(* The coordinator.                                                        *)

\* A thread that has nothing to wait for has no answer either, and only one
\* that clears its decision has loaded the log.
LEMMA IdleFact ==
    ASSUME CommitInv, NEW t \in Tx
    PROVE  /\ wait[t] = None => inbox[t] = None
           /\ co[t].at \notin {"prepare", "commit", "abort"} => wait[t] = None
           /\ co[t].at \in {"commit", "abort"} /\ co[t].held = <<>> => wait[t] = None
           /\ co[t].at # "clear" => snap[t] = None
           /\ t \in Caller /\ t \notin Server /\ Coord(t) \in Server /\ Home(t) = Coord(t)
<1>1. t \in Caller /\ t \notin Server /\ Coord(t) \in Server /\ Home(t) = Coord(t)
    BY ActorAssumption, ActorFacts DEF Caller
<1> QED
    BY <1>1 DEF CommitInv, WaitOK, AnswerOK, LoadOK, TxWaits

\* A step of the coordinator of t is in order if it leaves t, the log and what
\* it has loaded in order.
LEMMA CoordFrame ==
    ASSUME CommitInv, ProofHypotheses, NEW t \in Tx, Monotone, TypeOK',
           UNCHANGED <<prepared, applied, taken, nextId, status, rec, calls>>,
           \A u \in Tx : u # t => co'[u] = co[u] /\ outcome'[u] = outcome[u],
           \A c \in Caller : c # t => wait'[c] = wait[c] /\ inbox'[c] = inbox[c] /\ snap'[c] = snap[c],
           wait'[t] = None, inbox'[t] = None,
           co[t].at \in Active \cup {"staged"},
           co'[t].at \in {"staged", "prepare"} => co[t].at \in {"staged", "prepare"},
           co'[t].at = "clear" => snap'[t] # None,
           outcome'[t] = outcome[t] \/ snap[Coord(t)] = None,
           PhaseOK(t)', LoadOK(t)', \A s \in Server : LogOK(s)', ClearedMeansReached'
    PROVE  CommitInv'
<1>0. TypeOK /\ Quiet /\ t \in Caller /\ t \notin Server /\ Coord(t) \in Server
    BY IdleFact DEF CommitInv
<1>1. \A s \in Server : BatchOK(s)'
    BY BatchFrame
<1>2. \A u \in Tx : PhaseOK(u)'
    BY PhaseFrame
<1>3. \A call \in calls' : QueuedOK(call)'
    BY QueuedFrame
<1>4. \A c \in Caller : LoadOK(c)'
    <2> TAKE c \in Caller
    <2>1. CASE c = t
        BY <2>1
    <2>2. CASE c # t
        <3>1. \A u \in Tx : snap[c] # None /\ Coord(u) = Home(c) => outcome'[u] = outcome[u]
            <4> SUFFICES ASSUME NEW u \in Tx, snap[c] # None, Coord(u) = Home(c)
                         PROVE  outcome'[u] = outcome[u]
                OBVIOUS
            <4>1. CASE u # t
                BY <4>1
            <4>2. CASE u = t
                <5>1. c \notin Tx
                    BY <2>2, <4>2, ActorFacts DEF ProofHypotheses, OneTxEach
                <5>2. c = Coord(t)
                    BY <4>2, <5>1, ActorFacts DEF Caller
                <5> QED
                    BY <4>2, <5>2
            <4> QED
                BY <4>1, <4>2
        <3>2. (c \in Tx => co'[c] = co[c]) /\ (c \in Server => rec'[c] = rec[c]) /\ snap'[c] = snap[c]
            BY <2>2
        <3> QED
            BY <3>1, <3>2, LoadFrame
    <2> QED
        BY <2>1, <2>2
<1>5. \A c \in Caller : WaitOK(c)'
    <2> TAKE c \in Caller
    <2>1. CASE c = t
        BY <2>1 DEF WaitOK
    <2>2. CASE c # t
        BY <2>2, WaitFrame
    <2> QED
        BY <2>1, <2>2
<1>6. \A c \in Caller : AnswerOK(c)'
    <2> TAKE c \in Caller
    <2>1. CASE c = t
        BY <2>1 DEF AnswerOK
    <2>2. CASE c # t
        BY <2>2, AnswerFrame
    <2> QED
        BY <2>1, <2>2
<1>7. Quiet'
    <2>1. \A u \in Tx : co'[u].at \in Active \cup {"staged"} => status'[Coord(u)] = "serving"
        BY <1>0 DEF Quiet
    <2>2. \A u \in Tx : Coord(u) \in Caller /\ Coord(u) # t
        BY <1>0, ActorFacts DEF Caller
    <2>3. \A u \in Tx : co'[u].at \in {"staged", "prepare"} => ~rec'[Coord(u)].on /\ snap'[Coord(u)] = None
        BY <1>0, <2>2 DEF Quiet
    <2>4. \A u \in Tx : co'[u].at = "clear" => snap'[u] # None
        BY <1>0 DEF Quiet, Caller
    <2> QED
        BY <1>0, <2>1, <2>3, <2>4 DEF Quiet
<1> QED
    BY <1>1, <1>2, <1>3, <1>4, <1>5, <1>6, <1>7 DEF CommitInv

\* A step of the coordinator that leaves the log and what was decided alone.
LEMMA MoveStep ==
    ASSUME CommitInv, ProofHypotheses, NEW t \in Tx, co' \in [Tx -> [at : Active \cup {"staged", "ok", "err", "gone"}, held : Seq(Part)]],
           UNCHANGED <<disk, taken, nextId, status, rec, calls, snap, streams, outcome>>, faults' \in Nat,
           \A u \in Tx : u # t => co'[u] = co[u],
           wait' \in [Caller -> Call \cup {None}], inbox' \in [Caller -> AnswerRec \cup {None}],
           \A c \in Caller : c # t => wait'[c] = wait[c] /\ inbox'[c] = inbox[c],
           wait'[t] = None, inbox'[t] = None,
           co[t].at \in Active \cup {"staged"}, co[t].at # "clear", co'[t].at # "clear",
           co'[t].at \in {"staged", "prepare"} => co[t].at \in {"staged", "prepare"},
           Monotone => PhaseOK(t)'
    PROVE  CommitInv'
<1>0. TypeOK /\ t \in Caller /\ snap[t] = None
    BY IdleFact DEF CommitInv
<1>1. Monotone
    BY MonotoneFrame DEF disk
<1>2. TypeOK'
    BY <1>0 DEF TypeOK, disk
<1>3. LoadOK(t)'
    BY <1>0 DEF LoadOK
<1>4. (\A s \in Server : LogOK(s)') /\ ClearedMeansReached'
    BY <1>1, LogFrame, ClearedFrame DEF disk
<1>5. /\ UNCHANGED <<prepared, applied, taken, nextId, status, rec, calls>>
      /\ \A u \in Tx : u # t => co'[u] = co[u] /\ outcome'[u] = outcome[u]
      /\ \A c \in Caller : c # t => wait'[c] = wait[c] /\ inbox'[c] = inbox[c] /\ snap'[c] = snap[c]
      /\ outcome'[t] = outcome[t]
    BY DEF disk
<1> QED
    BY <1>1, <1>2, <1>3, <1>4, <1>5, CoordFrame

\* A thread that waits for nothing and goes elsewhere.
LEMMA GotoFact ==
    ASSUME TypeOK, NEW t \in Tx, NEW at \in Active \cup {"staged", "ok", "err", "gone"}, Goto(t, at)
    PROVE  /\ co' \in [Tx -> [at : Active \cup {"staged", "ok", "err", "gone"}, held : Seq(Part)]]
           /\ co'[t].at = at /\ co'[t].held = co[t].held
           /\ \A u \in Tx : u # t => co'[u] = co[u]
<1>1. co \in [Tx -> [at : Active \cup {"staged", "ok", "err", "gone"}, held : Seq(Part)]]
    BY DEF TypeOK
<1> QED
    BY <1>1 DEF Goto

\* COMMIT_TX: the transaction is still undecided.
LEMMA CommitTxStep ==
    ASSUME CommitInv, ProofHypotheses, NEW t \in Tx, CommitTx(t)
    PROVE  CommitInv'
<1>0. TypeOK /\ PhaseOK(t) /\ co[t].at = "staged" /\ "prepare" \in Active /\ Goto(t, "prepare")
    BY DEF CommitInv, CommitTx, Active
<1>1. UNCHANGED <<disk, status, nextId, rec, taken, calls, wait, inbox, snap, streams, faults, outcome>>
    BY DEF CommitTx
<1>2. wait[t] = None /\ inbox[t] = None
    BY <1>0, IdleFact
<1>3. /\ co' \in [Tx -> [at : Active \cup {"staged", "ok", "err", "gone"}, held : Seq(Part)]]
      /\ co'[t].at = "prepare" /\ co'[t].held = co[t].held
      /\ \A u \in Tx : u # t => co'[u] = co[u]
    BY <1>0, GotoFact
<1>4. Monotone => PhaseOK(t)'
    <2> HAVE Monotone
    <2>1. \A i \in DOMAIN co[t].held : co[t].held[i] \in Part
        BY <1>0 DEF TypeOK
    <2>2. \A i \in DOMAIN co[t].held : co[t].held[i].at = Targets(t)[i] /\ Stored(t, co[t].held[i])
        BY <1>0 DEF PhaseOK
    <2>3. PICK h \in Seq(Part) : h = co[t].held
        BY <1>0 DEF TypeOK
    <2>4. \A i \in DOMAIN h : Stored(t, h[i])'
        BY <1>0, <2>1, <2>2, <2>3 DEF PhaseOK, Monotone
    <2> QED
        BY <1>0, <1>1, <1>3, <2>2, <2>3, <2>4 DEF PhaseOK
<1>5. /\ faults' \in Nat /\ wait' \in [Caller -> Call \cup {None}]
      /\ inbox' \in [Caller -> AnswerRec \cup {None}]
    BY <1>0, <1>1 DEF TypeOK
<1> QED
    BY <1>0, <1>1, <1>2, <1>3, <1>4, <1>5, MoveStep

\* A thread that waits for nothing gives up.
LEMMA GiveUpStep ==
    ASSUME CommitInv, ProofHypotheses, NEW t \in Tx, Goto(t, "err"), wait[t] = None,
           co[t].at \in {"staged", "prepare", "commit", "abort"}, faults' \in Nat,
           UNCHANGED <<disk, status, nextId, rec, taken, calls, wait, inbox, snap, streams, outcome>>
    PROVE  CommitInv'
<1>0. TypeOK /\ inbox[t] = None
    BY IdleFact DEF CommitInv
<1>1. /\ co' \in [Tx -> [at : Active \cup {"staged", "ok", "err", "gone"}, held : Seq(Part)]]
      /\ co'[t].at = "err"
      /\ \A u \in Tx : u # t => co'[u] = co[u]
    BY <1>0, GotoFact
<1>2. PhaseOK(t)'
    BY <1>1 DEF PhaseOK
<1>3. /\ wait' \in [Caller -> Call \cup {None}]
      /\ inbox' \in [Caller -> AnswerRec \cup {None}]
    BY <1>0 DEF TypeOK
<1>4. co[t].at \in Active \cup {"staged"} /\ co[t].at # "clear"
    BY DEF Active
<1> QED
    BY <1>0, <1>1, <1>2, <1>3, <1>4, MoveStep

\* The actions by which a commit ends without a decision of its own.
LEMMA EndingSteps ==
    ASSUME CommitInv, ProofHypotheses, NEW t \in Tx,
           RollbackTx(t) \/ PrepareUnreached(t) \/ AbortDone(t)
    PROVE  CommitInv'
<1>0. TypeOK /\ faults \in Nat
    BY DEF CommitInv, TypeOK
<1>1. CASE RollbackTx(t)
    <2>1. wait[t] = None
        BY <1>1, IdleFact DEF RollbackTx
    <2> QED
        BY <1>0, <1>1, <2>1, GiveUpStep DEF RollbackTx
<1>2. CASE PrepareUnreached(t)
    <2>1. faults' \in Nat
        BY <1>0, <1>2 DEF PrepareUnreached, Fault
    <2> QED
        BY <1>2, <2>1, GiveUpStep DEF PrepareUnreached, Preparing
<1>3. CASE AbortDone(t)
    <2>1. wait[t] = None
        BY <1>3, IdleFact DEF AbortDone, Held
    <2> QED
        BY <1>0, <1>3, <2>1, GiveUpStep DEF AbortDone
<1> QED
    BY <1>1, <1>2, <1>3

\* The caller takes its answer off.
LEMMA AnsweredFact ==
    ASSUME TypeOK, NEW c \in Caller, Answered(c)
    PROVE  /\ wait' \in [Caller -> Call \cup {None}] /\ inbox' \in [Caller -> AnswerRec \cup {None}]
           /\ wait'[c] = None /\ inbox'[c] = None /\ inbox[c] # None /\ inbox[c] \in AnswerRec
           /\ \A d \in Caller : d # c => wait'[d] = wait[d] /\ inbox'[d] = inbox[d]
<1>1. wait \in [Caller -> Call \cup {None}] /\ inbox \in [Caller -> AnswerRec \cup {None}]
    BY DEF TypeOK
<1> QED
    BY <1>1 DEF Answered

\* The loop over the batches goes on, or the thread gives up.
LEMMA NextHeldFact ==
    ASSUME TypeOK, NEW t \in Tx, NEW ok \in BOOLEAN, NextHeld(t, ok),
           co[t].at \in {"commit", "abort"}, co[t].held # <<>>
    PROVE  /\ co' \in [Tx -> [at : Active \cup {"staged", "ok", "err", "gone"}, held : Seq(Part)]]
           /\ \A u \in Tx : u # t => co'[u] = co[u]
           /\ ok \/ co[t].at = "abort" => co'[t].at = co[t].at /\ co'[t].held = Tail(co[t].held)
           /\ ~ok /\ co[t].at = "commit" => co'[t].at = "err"
<1>1. co \in [Tx -> [at : Active \cup {"staged", "ok", "err", "gone"}, held : Seq(Part)]]
    BY DEF TypeOK
<1>2. co[t].held \in Seq(Part) /\ Tail(co[t].held) \in Seq(Part)
    BY <1>1, FirstFact
<1> DEFINE new == IF ok \/ co[t].at = "abort" THEN [at |-> co[t].at, held |-> Tail(co[t].held)]
                  ELSE [at |-> "err", held |-> co[t].held]
<1>3. new \in [at : Active \cup {"staged", "ok", "err", "gone"}, held : Seq(Part)]
    BY <1>2 DEF Active
<1>4. co' = [co EXCEPT ![t] = new]
    BY <1>1 DEF NextHeld
<1>5. /\ ok \/ co[t].at = "abort" => new.at = co[t].at /\ new.held = Tail(co[t].held)
      /\ ~ok /\ co[t].at = "commit" => new.at = "err"
    OBVIOUS
<1> HIDE DEF new
<1>6. co'[t] = new
    BY <1>1, <1>4
<1> QED
    BY <1>1, <1>3, <1>4, <1>5, <1>6

\* A batch is done: what is left of the loop is in order.
LEMMA TailPhase ==
    ASSUME CommitInv, Monotone, NEW t \in Tx, co[t].at \in {"commit", "abort"}, co[t].held # <<>>,
           co'[t].at = co[t].at, co'[t].held = Tail(co[t].held), UNCHANGED outcome,
           co[t].at = "commit" => t \in applied'[Head(co[t].held).at]
    PROVE  PhaseOK(t)'
<1>1. PhaseOK(t) /\ co[t].held \in Seq(Part)
    BY DEF CommitInv, TypeOK
<1>2. PICK h \in Seq(Part), r \in Seq(Part) : h = co[t].held /\ r = Tail(h) /\ h # <<>>
    BY <1>1, FirstFact
<1>3. \A i \in DOMAIN r : i + 1 \in DOMAIN h /\ r[i] = h[i + 1] /\ r[i] \in Part
    BY <1>2, FirstFact
<1>4. \A i \in DOMAIN h : i = 1 \/ (i - 1 \in DOMAIN r /\ h[i] = r[i - 1])
    BY <1>2, FirstFact
<1>5. CASE co[t].at = "abort"
    <2>1. \A i \in DOMAIN h : Mine(t, h[i])
        BY <1>1, <1>2, <1>5 DEF PhaseOK
    <2>2. \A i \in DOMAIN r : Mine(t, r[i])'
        BY <1>3, <2>1 DEF Monotone
    <2> QED
        BY <1>1, <1>2, <1>5, <2>2 DEF PhaseOK
<1>6. CASE co[t].at = "commit"
    <2>1. /\ \A i \in DOMAIN h : Backed(t, h[i])
          /\ outcome[t] = "commit" /\ \A p \in Participants(t) : t \in applied[p] \/ Names(h, p)
        BY <1>1, <1>2, <1>6 DEF PhaseOK
    <2>2. \A i \in DOMAIN r : Backed(t, r[i])'
        BY <1>3, <2>1 DEF Monotone
    <2>3. \A p \in Participants(t) : t \in applied'[p] \/ Names(r, p)
        <3> TAKE p \in Participants(t)
        <3>1. CASE t \in applied[p]
            BY <3>1, ActorFacts DEF Monotone
        <3>2. CASE Names(h, p)
            <4>1. PICK i \in DOMAIN h : h[i].at = p
                BY <3>2 DEF Names
            <4>2. CASE i = 1
                <5>1. h[1] = Head(co[t].held)
                    BY <1>2, FirstFact
                <5> QED
                    BY <1>6, <4>1, <4>2, <5>1
            <4>3. CASE i # 1
                BY <1>4, <4>1, <4>3 DEF Names
            <4> QED
                BY <4>2, <4>3
        <3> QED
            BY <2>1, <3>1, <3>2
    <2> QED
        BY <1>1, <1>2, <1>6, <2>1, <2>2, <2>3 DEF PhaseOK
<1> QED
    BY <1>5, <1>6

\* The stream is gone: the abort loop goes on, the commit loop ends.
LEMMA StreamBrokenStep ==
    ASSUME CommitInv, ProofHypotheses, NEW t \in Tx, StreamBroken(t)
    PROVE  CommitInv'
<1>0. /\ TypeOK /\ wait[t] = None /\ inbox[t] = None
      /\ co[t].at \in {"commit", "abort"} /\ co[t].held # <<>> /\ NextHeld(t, FALSE)
    BY IdleFact DEF CommitInv, StreamBroken, Finishing, Held
<1>1. /\ co' \in [Tx -> [at : Active \cup {"staged", "ok", "err", "gone"}, held : Seq(Part)]]
      /\ \A u \in Tx : u # t => co'[u] = co[u]
      /\ co[t].at = "abort" => co'[t].at = co[t].at /\ co'[t].held = Tail(co[t].held)
      /\ co[t].at = "commit" => co'[t].at = "err"
    BY <1>0, NextHeldFact
<1>2. UNCHANGED <<disk, status, nextId, rec, taken, calls, wait, inbox, snap, streams, faults, outcome>>
    BY DEF StreamBroken
<1>3. Monotone => PhaseOK(t)'
    <2> HAVE Monotone
    <2>1. CASE co[t].at = "commit"
        BY <1>1, <2>1 DEF PhaseOK
    <2>2. CASE co[t].at = "abort"
        BY <1>0, <1>1, <1>2, <2>2, TailPhase
    <2> QED
        BY <1>0, <2>1, <2>2
<1>4. /\ faults' \in Nat /\ wait' \in [Caller -> Call \cup {None}]
      /\ inbox' \in [Caller -> AnswerRec \cup {None}]
    BY <1>0, <1>2 DEF TypeOK
<1>5. /\ co[t].at \in Active \cup {"staged"} /\ co[t].at # "clear" /\ co'[t].at # "clear"
      /\ co'[t].at \notin {"staged", "prepare"}
    BY <1>0, <1>1 DEF Active
<1> QED
    BY <1>0, <1>1, <1>2, <1>3, <1>4, <1>5, MoveStep

\* The participant has answered: a batch that was applied is done.
LEMMA FinishAnswerStep ==
    ASSUME CommitInv, ProofHypotheses, NEW t \in Tx, FinishAnswer(t)
    PROVE  CommitInv'
<1>0. /\ TypeOK /\ t \in Caller /\ co[t].at \in {"commit", "abort"} /\ Answered(t)
      /\ NextHeld(t, inbox[t].res = "ok") /\ WaitOK(t) /\ AnswerOK(t) /\ t \notin Server /\ Home(t) = Coord(t)
    BY IdleFact DEF CommitInv, FinishAnswer
<1>1. UNCHANGED <<disk, status, nextId, rec, taken, calls, snap, streams, faults, outcome>>
    BY DEF FinishAnswer
<1>2. /\ wait[t] # None /\ wait[t].kind = co[t].at /\ co[t].held # <<>> /\ wait[t].to = Head(co[t].held).at
      /\ inbox[t] # None
    BY <1>0 DEF WaitOK, AnswerOK, TxWaits, Answered
<1>3. PICK ok \in BOOLEAN : ok = (inbox[t].res = "ok")
    OBVIOUS
<1>4. /\ co' \in [Tx -> [at : Active \cup {"staged", "ok", "err", "gone"}, held : Seq(Part)]]
      /\ \A u \in Tx : u # t => co'[u] = co[u]
      /\ ok \/ co[t].at = "abort" => co'[t].at = co[t].at /\ co'[t].held = Tail(co[t].held)
      /\ ~ok /\ co[t].at = "commit" => co'[t].at = "err"
    BY <1>0, <1>2, <1>3, NextHeldFact
<1>5. Monotone => PhaseOK(t)'
    <2> HAVE Monotone
    <2>1. CASE ~ok /\ co[t].at = "commit"
        BY <1>4, <2>1 DEF PhaseOK
    <2>2. CASE ok \/ co[t].at = "abort"
        <3>1. co[t].at = "commit" => t \in applied[Head(co[t].held).at]
            BY <1>0, <1>2, <1>3, <2>2 DEF AnswerOK
        <3> QED
            BY <1>0, <1>1, <1>2, <1>4, <2>2, <3>1, TailPhase DEF disk
    <2> QED
        BY <1>0, <2>1, <2>2
<1>6. /\ wait' \in [Caller -> Call \cup {None}] /\ inbox' \in [Caller -> AnswerRec \cup {None}]
      /\ wait'[t] = None /\ inbox'[t] = None
      /\ \A d \in Caller : d # t => wait'[d] = wait[d] /\ inbox'[d] = inbox[d]
    BY <1>0, AnsweredFact
<1>7. /\ co[t].at \in Active \cup {"staged"} /\ co[t].at # "clear" /\ co'[t].at # "clear"
      /\ co'[t].at \notin {"staged", "prepare"}
    BY <1>0, <1>4 DEF Active
<1>8. faults' \in Nat
    BY <1>0, <1>1 DEF TypeOK
<1> QED
    BY <1>1, <1>4, <1>5, <1>6, <1>7, <1>8, MoveStep

\* A decision is recorded: the log was empty, and the decision stands for the
\* batches that are held.
LEMMA RecordFact ==
    ASSUME CommitInv, ProofHypotheses, NEW t \in Tx, co[t].at = "prepare", outcome[t] = "open",
           NEW d \in {"commit", "abort"}, Record(Coord(t), t, d), NEW h \in Seq(Part), h = co[t].held,
           UNCHANGED <<prepared, nextId, applied, taken, rec>>,
           outcome' = [outcome EXCEPT ![t] = d],
           d = "commit" => Len(co[t].held) = Len(Targets(t))
    PROVE  /\ Monotone /\ decisions' \in [Server -> Seq(Decision)]
           /\ outcome' \in [Tx -> {"open", "commit", "abort"}] /\ outcome'[t] = d
           /\ \A u \in Tx : u # t => outcome'[u] = outcome[u]
           /\ \A i \in DOMAIN h : Backed(t, h[i])'
           /\ d = "commit" => \A p \in Participants(t) : Names(h, p)
           /\ \A s \in Server : LogOK(s)'
           /\ ClearedMeansReached'
<1>0. /\ TypeOK /\ PhaseOK(t) /\ Coord(t) \in Server /\ co[t].held \in Seq(Part)
      /\ outcome \in [Tx -> {"open", "commit", "abort"}] /\ decisions \in [Server -> Seq(Decision)]
    BY ActorFacts DEF CommitInv, TypeOK
<1>1. PICK r \in Decision, s \in Server :
          /\ s = Coord(t) /\ r.tx = t /\ r.decision = d /\ r.parts = h
          /\ decisions' = [decisions EXCEPT ![s] = Append(@, r)]
    <2>1. [tx |-> t, decision |-> d, parts |-> co[t].held] \in Decision
        BY <1>0 DEF Decision
    <2> QED
        BY <1>0, <2>1 DEF Record, Held
<1>2. outcome'[t] = d /\ \A u \in Tx : u # t => outcome'[u] = outcome[u]
    BY <1>0
<1>3. Monotone
    BY <1>2, MonotoneFrame
<1>4. decisions[s] = <<>>
    <2> SUFFICES ASSUME decisions[s] # <<>>
                 PROVE  FALSE
        OBVIOUS
    <2>1. decisions[s] \in Seq(Decision)
        BY <1>0
    <2>2. 1 \in DOMAIN decisions[s] /\ decisions[s][1] \in Decision
        BY <2>1
    <2>3. DecisionOK(s, decisions[s][1]) /\ decisions[s][1].tx \in Tx
          /\ decisions[s][1].decision \in {"commit", "abort"}
        BY <2>2, FieldFacts DEF CommitInv, LogOK
    <2>4. decisions[s][1].tx = t
        BY <1>1, <2>3 DEF DecisionOK, ProofHypotheses, OneTxEach
    <2> QED
        BY <2>3, <2>4 DEF DecisionOK
<1>5. decisions' \in [Server -> Seq(Decision)] /\ decisions'[s] = <<r>>
      /\ \A q \in Server : q # s => decisions'[q] = decisions[q]
    BY <1>0, <1>1, <1>4
<1>6. \A i \in DOMAIN h : h[i] \in Part /\ h[i].at = Targets(t)[i] /\ Stored(t, h[i])
    BY <1>0, <1>1 DEF PhaseOK
<1>7. \A i \in DOMAIN h : Backed(t, h[i])'
    BY <1>3, <1>6 DEF Monotone, Stored, Backed
<1>8. d = "commit" => \A p \in Participants(t) : Names(h, p)
    <2> SUFFICES ASSUME d = "commit", NEW p \in Participants(t)
                 PROVE  Names(h, p)
        OBVIOUS
    <2>1. PICK i \in DOMAIN Targets(t) : p = Targets(t)[i]
        BY DEF Participants
    <2>2. i \in DOMAIN h
        BY <1>0, <1>1, <2>1, ActorFacts
    <2> QED
        BY <1>6, <2>1, <2>2 DEF Names
<1>9. DecisionOK(s, r)'
    BY <1>1, <1>2, <1>7, <1>8 DEF DecisionOK
<1>10. \A q \in Server : LogOK(q)'
    <2> TAKE q \in Server
    <2>1. CASE q # s
        BY <1>3, <1>5, <2>1, LogFrame
    <2>2. CASE q = s
        <3>1. /\ LogOK(s) /\ rec[s].todo \in Seq(Decision) /\ rec[s].done \subseteq Tx
            BY <1>0 DEF CommitInv, TypeOK
        <3>2. \A i \in DOMAIN rec[s].todo : DecisionOK(s, rec[s].todo[i])'
            BY <1>3, <3>1, DecisionFrame DEF LogOK
        <3>3. \A u \in rec[s].done : outcome'[u] # "open" /\ (outcome'[u] = "commit" => ReachedAll(u)')
            BY <1>3, <3>1, ReachedFrame DEF LogOK, Monotone
        <3>4. \A i \in DOMAIN decisions'[s] : decisions'[s][i] = r
            BY <1>5
        <3>5. Len(decisions'[s]) <= 1
            BY <1>5
        <3>6. \A i \in DOMAIN decisions'[s] : DecisionOK(s, decisions[s][i])'
            BY <1>9, <3>4
        <3> QED
            BY <2>2, <3>2, <3>3, <3>5, <3>6 DEF LogOK
    <2> QED
        BY <2>1, <2>2
<1>11. ClearedMeansReached'
    <2> SUFFICES ASSUME NEW u \in Tx, outcome'[u] = "commit", ~OnRecord(u)'
                 PROVE  \A p \in Participants(u) : u \in Reached(p)'
        BY DEF ClearedMeansReached
    <2>1. u # t
        <3>1. 1 \in DOMAIN decisions'[s] /\ decisions'[s][1] = r
            BY <1>5
        <3> QED
            BY <1>1, <1>2, <3>1 DEF OnRecord
    <2>2. decisions'[Coord(u)] = decisions[Coord(u)] /\ outcome[u] = "commit"
        BY <1>1, <1>2, <1>5, <2>1, ActorFacts DEF ProofHypotheses, OneTxEach
    <2>3. ~OnRecord(u)
        BY <2>2 DEF OnRecord
    <2>4. ReachedAll(u)
        BY <2>2, <2>3 DEF CommitInv, ClearedMeansReached, ReachedAll
    <2> QED
        BY <1>3, <2>4, ReachedFrame DEF ReachedAll
<1>12. outcome' \in [Tx -> {"open", "commit", "abort"}]
    BY <1>0
<1> QED
    BY <1>1, <1>2, <1>3, <1>5, <1>7, <1>8, <1>10, <1>11, <1>12

\* record_commit_decision, when every batch is held.
LEMMA DecideStep ==
    ASSUME CommitInv, ProofHypotheses, NEW t \in Tx, Decide(t)
    PROVE  CommitInv'
<1>0. /\ TypeOK /\ Quiet /\ t \in Caller /\ t \notin Server /\ co[t].at = "prepare" /\ wait[t] = None /\ inbox[t] = None
      /\ snap[t] = None /\ co[t].held \in Seq(Part) /\ Len(co[t].held) = Len(Targets(t)) /\ Coord(t) \in Server
      /\ Record(Coord(t), t, "commit") /\ Goto(t, "commit") /\ outcome' = [outcome EXCEPT ![t] = "commit"]
    BY IdleFact DEF CommitInv, Decide, Held, TypeOK
<1>1. UNCHANGED <<prepared, applied, status, nextId, rec, taken, calls, wait, inbox, snap, streams, faults>>
    BY DEF Decide
<1>2. outcome[t] = "open" /\ snap[Coord(t)] = None
    BY <1>0 DEF CommitInv, PhaseOK, Quiet
<1>3. PICK h \in Seq(Part) : h = co[t].held
    BY <1>0
<1>4. /\ Monotone /\ decisions' \in [Server -> Seq(Decision)]
      /\ outcome' \in [Tx -> {"open", "commit", "abort"}] /\ outcome'[t] = "commit"
      /\ \A u \in Tx : u # t => outcome'[u] = outcome[u]
      /\ \A i \in DOMAIN h : Backed(t, h[i])'
      /\ \A p \in Participants(t) : Names(h, p)
      /\ \A s \in Server : LogOK(s)'
      /\ ClearedMeansReached'
    BY <1>0, <1>1, <1>2, <1>3, RecordFact
<1>5. /\ co' \in [Tx -> [at : Active \cup {"staged", "ok", "err", "gone"}, held : Seq(Part)]]
      /\ co'[t].at = "commit" /\ co'[t].held = co[t].held
      /\ \A u \in Tx : u # t => co'[u] = co[u]
    <2>1. "commit" \in Active
        BY DEF Active
    <2> QED
        BY <1>0, <2>1, GotoFact
<1>6. PhaseOK(t)'
    BY <1>3, <1>4, <1>5 DEF PhaseOK
<1>7. TypeOK'
    BY <1>0, <1>1, <1>4, <1>5 DEF TypeOK
<1>8. LoadOK(t)'
    BY <1>0, <1>1 DEF LoadOK
<1>9. co[t].at \in Active
    BY <1>0 DEF Active
<1> QED
    BY <1>0, <1>1, <1>2, <1>4, <1>5, <1>6, <1>7, <1>8, <1>9, CoordFrame

\* The answer to a prepare: one more batch is held, or the commit ends, with an
\* abort on record if a batch is held.
LEMMA PrepareAnswerStep ==
    ASSUME CommitInv, ProofHypotheses, NEW t \in Tx, PrepareAnswer(t)
    PROVE  CommitInv'
<1>0. /\ TypeOK /\ Quiet /\ t \in Caller /\ t \notin Server /\ co[t].at = "prepare" /\ Answered(t)
      /\ snap[t] = None /\ co[t].held \in Seq(Part) /\ Coord(t) \in Server /\ PhaseOK(t)
      /\ WaitOK(t) /\ AnswerOK(t) /\ co[t].at \in Active
    BY IdleFact DEF CommitInv, PrepareAnswer, TypeOK, Active
<1>1. UNCHANGED <<prepared, applied, status, nextId, rec, taken, calls, snap, streams, faults>>
    BY DEF PrepareAnswer
<1>2. outcome[t] = "open" /\ snap[Coord(t)] = None
    BY <1>0 DEF PhaseOK, Quiet
<1>3. /\ wait' \in [Caller -> Call \cup {None}] /\ inbox' \in [Caller -> AnswerRec \cup {None}]
      /\ wait'[t] = None /\ inbox'[t] = None /\ inbox[t] # None /\ inbox[t] \in AnswerRec
      /\ \A d \in Caller : d # t => wait'[d] = wait[d] /\ inbox'[d] = inbox[d]
    BY <1>0, AnsweredFact
<1>4. /\ wait[t] # None /\ wait[t] \in Call /\ wait[t].kind = "prepare"
      /\ Len(co[t].held) < Len(Targets(t)) /\ wait[t].to = Targets(t)[Len(co[t].held) + 1]
    BY <1>0, <1>3 DEF WaitOK, AnswerOK, TxWaits, TypeOK
<1>5. faults' \in Nat
    BY <1>0, <1>1 DEF TypeOK
<1>6. PICK h \in Seq(Part) : h = co[t].held
    BY <1>0
<1>7. CASE inbox[t].res = "ok"
    <2>1. PICK q \in Part : q.at = wait[t].to /\ q.id = inbox[t].id /\ q = [at |-> wait[t].to, id |-> inbox[t].id]
        <3>1. wait[t].to \in Server /\ inbox[t].id \in Nat
            BY <1>3, <1>4 DEF Call, AnswerRec
        <3>2. [at |-> wait[t].to, id |-> inbox[t].id] \in Part
            BY <3>1 DEF Part
        <3> QED
            BY <3>2
    <2>2. co' = [co EXCEPT ![t].held = Append(@, q)] /\ UNCHANGED <<decisions, outcome>>
        BY <1>7, <2>1 DEF PrepareAnswer
    <2>3. /\ co' \in [Tx -> [at : Active \cup {"staged", "ok", "err", "gone"}, held : Seq(Part)]]
          /\ co'[t].at = "prepare" /\ co'[t].held = Append(h, q)
          /\ \A u \in Tx : u # t => co'[u] = co[u]
        <3>1. co \in [Tx -> [at : Active \cup {"staged", "ok", "err", "gone"}, held : Seq(Part)]]
            BY <1>0 DEF TypeOK
        <3>2. Append(h, q) \in Seq(Part)
            BY <1>6
        <3> QED
            BY <1>0, <1>6, <2>2, <3>1, <3>2
    <2>4. PICK g \in Seq(Part) : g = Append(h, q) /\ Len(g) = Len(h) + 1 /\ Len(g) <= Len(Targets(t))
        <3>1. Append(h, q) \in Seq(Part) /\ Len(Append(h, q)) = Len(h) + 1
            BY <1>6
        <3>2. Len(h) \in Nat /\ Len(Targets(t)) \in Nat
            BY <1>6, ActorFacts
        <3>3. Len(h) + 1 <= Len(Targets(t))
            BY <1>4, <1>6, <3>2
        <3> QED
            BY <3>1, <3>3
    <2>5. \A i \in DOMAIN g : (i \in DOMAIN h /\ g[i] = h[i]) \/ (i = Len(h) + 1 /\ g[i] = q)
        BY <2>4
    <2>6. Monotone => PhaseOK(t)'
        <3> HAVE Monotone
        <3>1. Stored(t, q)
            BY <1>0, <1>3, <1>4, <1>7, <2>1 DEF AnswerOK
        <3>2. \A i \in DOMAIN h : h[i] \in Part /\ Stored(t, h[i]) /\ h[i].at = Targets(t)[i]
            BY <1>0, <1>6 DEF PhaseOK
        <3>3. \A i \in DOMAIN g : Stored(t, g[i])' /\ g[i].at = Targets(t)[i]
            BY <1>2, <1>4, <1>6, <2>1, <2>5, <3>1, <3>2 DEF Monotone
        <3> QED
            BY <1>2, <2>2, <2>3, <2>4, <3>3 DEF PhaseOK
    <2>7. UNCHANGED <<disk, taken, nextId, status, rec, calls, snap, streams, outcome>>
        BY <1>1, <2>2 DEF disk
    <2> QED
        BY <1>0, <1>3, <1>5, <2>3, <2>6, <2>7, MoveStep
<1>8. CASE inbox[t].res # "ok" /\ co[t].held = <<>>
    <2>1. Goto(t, "err") /\ UNCHANGED <<decisions, outcome>>
        BY <1>8 DEF PrepareAnswer, Held
    <2>2. /\ co' \in [Tx -> [at : Active \cup {"staged", "ok", "err", "gone"}, held : Seq(Part)]]
          /\ co'[t].at = "err"
          /\ \A u \in Tx : u # t => co'[u] = co[u]
        BY <1>0, <2>1, GotoFact
    <2>3. PhaseOK(t)'
        BY <2>2 DEF PhaseOK
    <2>4. UNCHANGED <<disk, taken, nextId, status, rec, calls, snap, streams, outcome>>
        BY <1>1, <2>1 DEF disk
    <2> QED
        BY <1>0, <1>3, <1>5, <2>2, <2>3, <2>4, MoveStep
<1>9. CASE inbox[t].res # "ok" /\ co[t].held # <<>>
    <2>1. Goto(t, "abort") /\ Record(Coord(t), t, "abort") /\ outcome' = [outcome EXCEPT ![t] = "abort"]
        BY <1>9 DEF PrepareAnswer, Held
    <2>2. /\ Monotone /\ decisions' \in [Server -> Seq(Decision)]
          /\ outcome' \in [Tx -> {"open", "commit", "abort"}] /\ outcome'[t] = "abort"
          /\ \A u \in Tx : u # t => outcome'[u] = outcome[u]
          /\ \A i \in DOMAIN h : Backed(t, h[i])'
          /\ \A s \in Server : LogOK(s)'
          /\ ClearedMeansReached'
        BY <1>0, <1>1, <1>2, <1>6, <2>1, RecordFact
    <2>3. /\ co' \in [Tx -> [at : Active \cup {"staged", "ok", "err", "gone"}, held : Seq(Part)]]
          /\ co'[t].at = "abort" /\ co'[t].held = co[t].held
          /\ \A u \in Tx : u # t => co'[u] = co[u]
        <3>1. "abort" \in Active
            BY DEF Active
        <3> QED
            BY <1>0, <2>1, <3>1, GotoFact
    <2>4. PhaseOK(t)'
        BY <1>6, <2>2, <2>3 DEF PhaseOK, Backed
    <2>5. TypeOK'
        BY <1>0, <1>1, <1>3, <2>2, <2>3 DEF TypeOK
    <2>6. LoadOK(t)'
        BY <1>0, <1>1 DEF LoadOK
    <2> QED
        BY <1>0, <1>1, <1>2, <1>3, <2>2, <2>3, <2>4, <2>5, <2>6, CoordFrame
<1> QED
    BY <1>7, <1>8, <1>9

\* A log of at most one record loses it or not.
LEMMA KeptFact ==
    ASSUME NEW ds \in Seq(Decision), Len(ds) <= 1, NEW ids
    PROVE  /\ Kept(ds, ids) \in Seq(Decision)
           /\ KeptAt(ds, ids) = DOMAIN ds => Kept(ds, ids) = ds
           /\ KeptAt(ds, ids) # DOMAIN ds => Kept(ds, ids) = <<>> /\ KeptAt(ds, ids) = {}
<1>1. DOMAIN ds = 1..Len(ds) /\ Len(ds) \in Nat /\ KeptAt(ds, ids) \subseteq DOMAIN ds
    BY DEF KeptAt
<1>2. CASE KeptAt(ds, ids) = {}
    <2>1. Cardinality(KeptAt(ds, ids)) = 0
        BY <1>2, FS_EmptySet
    <2>2. Kept(ds, ids) = <<>>
        BY <2>1 DEF Kept
    <2>3. DOMAIN ds = {} => ds = <<>>
        BY <1>1
    <2>4. <<>> \in Seq(Decision)
        OBVIOUS
    <2> QED
        BY <1>2, <2>2, <2>3, <2>4
<1>3. CASE KeptAt(ds, ids) # {}
    <2>1. Len(ds) = 1 /\ KeptAt(ds, ids) = {1}
        BY <1>1, <1>3
    <2>2. Cardinality({1}) = 1
        BY FS_Singleton
    <2>3. {j \in {1} : j <= 1} = {1}
        OBVIOUS
    <2>4. (CHOOSE i \in {1} : Cardinality({j \in {1} : j <= i}) = 1) = 1
        BY <2>2, <2>3
    <2>5. Kept(ds, ids) = [k \in 1..1 |-> ds[CHOOSE i \in {1} : Cardinality({j \in {1} : j <= i}) = k]]
        BY <2>1, <2>2 DEF Kept
    <2>6. \A k \in 1..1 : ds[CHOOSE i \in {1} : Cardinality({j \in {1} : j <= i}) = k] = ds[k]
        <3> TAKE k \in 1..1
        <3>1. k = 1
            OBVIOUS
        <3> QED
            BY <2>4, <3>1, Zenon
    <2>7. ds = [k \in 1..1 |-> ds[k]]
        BY <2>1
    <2>8. Kept(ds, ids) = ds
        BY <2>5, <2>6, <2>7
    <2> QED
        BY <1>1, <2>1, <2>8
<1> QED
    BY <1>2, <1>3

\* What remove_tx_ids loads, when each record it leaves out has reached all
\* participants.
LEMMA RemovalFact ==
    ASSUME CommitInv, NEW s \in Server, NEW ids,
           \A t \in Tx : Coord(t) = s /\ t \in ids /\ outcome[t] = "commit" => ReachedAll(t)
    PROVE  Removal(s, ids) \in Loaded /\ LoadedOK(s, Removal(s, ids))
<1> DEFINE ds == decisions[s]
           keep == Kept(ds, ids)
<1>0. ds \in Seq(Decision) /\ Len(ds) <= 1 /\ \A i \in DOMAIN ds : DecisionOK(s, ds[i])
    BY DEF CommitInv, TypeOK, LogOK
<1>1. /\ keep \in Seq(Decision)
      /\ KeptAt(ds, ids) = DOMAIN ds => keep = ds
      /\ KeptAt(ds, ids) # DOMAIN ds => keep = <<>> /\ KeptAt(ds, ids) = {}
    BY <1>0, KeptFact
<1>2. /\ Removal(s, ids) \in Loaded /\ Removal(s, ids).keep = keep
      /\ Removal(s, ids).write => keep = <<>>
    BY <1>1 DEF Removal, Loaded
<1> HIDE DEF keep
<1>3. Len(keep) <= 1 /\ \A i \in DOMAIN keep : DecisionOK(s, keep[i])
    BY <1>0, <1>1
<1>4. ASSUME NEW t \in Tx, Coord(t) = s, outcome[t] = "commit", ~ReachedAll(t)
      PROVE  \E i \in DOMAIN keep : keep[i].tx = t /\ keep[i].decision = "commit"
    <2>1. OnRecord(t)
        BY <1>4 DEF CommitInv, ClearedMeansReached, ReachedAll
    <2>2. PICK i \in DOMAIN ds : ds[i].tx = t /\ ds[i].decision = "commit"
        BY <1>4, <2>1 DEF OnRecord
    <2>3. i \in KeptAt(ds, ids)
        BY <1>4, <2>2 DEF KeptAt
    <2>4. keep = ds
        BY <1>1, <2>3
    <2> QED
        BY <2>2, <2>4
<1> QED
    BY <1>2, <1>3, <1>4 DEF LoadedOK

\* clear_transaction_decision loads the log when every batch has been applied.
LEMMA ClearLoadStep ==
    ASSUME CommitInv, ProofHypotheses, NEW t \in Tx, ClearLoad(t)
    PROVE  CommitInv'
<1>0. /\ TypeOK /\ t \in Caller /\ t \notin Server /\ co[t].at = "commit" /\ co[t].held = <<>>
      /\ wait[t] = None /\ inbox[t] = None /\ Coord(t) \in Server /\ Home(t) = Coord(t) /\ PhaseOK(t)
      /\ Goto(t, "clear") /\ snap' = [snap EXCEPT ![t] = Removal(Coord(t), {t})]
    BY IdleFact DEF CommitInv, ClearLoad, Held
<1>1. UNCHANGED <<disk, status, nextId, rec, taken, calls, wait, inbox, streams, faults, outcome>>
    BY DEF ClearLoad
<1>2. outcome[t] = "commit" /\ AppliedEverywhere(t)
    BY <1>0 DEF PhaseOK, Names, AppliedEverywhere
<1>3. ReachedAll(t)
    BY <1>2 DEF AppliedEverywhere, ReachedAll, Reached
<1>4. PICK l \in Loaded : l = Removal(Coord(t), {t}) /\ LoadedOK(Coord(t), l)
    BY <1>0, <1>3, RemovalFact
<1>5. Monotone
    BY <1>1, MonotoneFrame DEF disk
<1>6. /\ co' \in [Tx -> [at : Active \cup {"staged", "ok", "err", "gone"}, held : Seq(Part)]]
      /\ co'[t].at = "clear" /\ \A u \in Tx : u # t => co'[u] = co[u]
    <2>1. "clear" \in Active
        BY DEF Active
    <2> QED
        BY <1>0, <2>1, GotoFact
<1>7. /\ snap' \in [Caller -> Loaded \cup {None}] /\ snap'[t] = l /\ l # None
      /\ \A c \in Caller : c # t => snap'[c] = snap[c]
    <2>1. snap \in [Caller -> Loaded \cup {None}]
        BY <1>0 DEF TypeOK
    <2> QED
        BY <1>0, <1>4, <2>1, NoneAssumption
<1>8. TypeOK'
    BY <1>0, <1>1, <1>6, <1>7 DEF TypeOK, disk
<1>9. PhaseOK(t)'
    <2>1. AppliedEverywhere(t)'
        BY <1>2, <1>5, ReachedFrame
    <2> QED
        BY <1>1, <1>2, <1>6, <2>1 DEF PhaseOK
<1>10. LoadOK(t)'
    <2>1. LoadedOK(Coord(t), l)'
        BY <1>0, <1>1, <1>4, <1>5, LoadedFrame
    <2> QED
        BY <1>0, <1>6, <1>7, <2>1 DEF LoadOK
<1>11. (\A s \in Server : LogOK(s)') /\ ClearedMeansReached'
    BY <1>1, <1>5, LogFrame, ClearedFrame DEF disk
<1>12. /\ UNCHANGED <<prepared, applied, taken, nextId, status, rec, calls>>
       /\ \A u \in Tx : u # t => co'[u] = co[u] /\ outcome'[u] = outcome[u]
       /\ \A c \in Caller : c # t => wait'[c] = wait[c] /\ inbox'[c] = inbox[c] /\ snap'[c] = snap[c]
       /\ outcome'[t] = outcome[t] /\ wait'[t] = None /\ inbox'[t] = None /\ co[t].at \in Active
    BY <1>0, <1>1, <1>6, <1>7 DEF disk, Active
<1> QED
    BY <1>5, <1>6, <1>7, <1>8, <1>9, <1>10, <1>11, <1>12, CoordFrame

\* The loaded log is written back: no decision that is needed is lost.
LEMMA RewriteFact ==
    ASSUME CommitInv, Monotone, NEW s \in Server, NEW c \in Caller, Home(c) = s, snap[c] # None,
           Rewrite(s, c), UNCHANGED outcome
    PROVE  /\ decisions' \in [Server -> Seq(Decision)] /\ snap' \in [Caller -> Loaded \cup {None}]
           /\ snap'[c] = None /\ \A d \in Caller : d # c => snap'[d] = snap[d]
           /\ \A q \in Server : q # s => decisions'[q] = decisions[q]
           /\ Len(decisions'[s]) <= 1
           /\ \A i \in DOMAIN decisions'[s] : DecisionOK(s, decisions[s][i])'
           /\ ClearedMeansReached'
<1>0. /\ TypeOK /\ LoadOK(c) /\ LogOK(s) /\ decisions \in [Server -> Seq(Decision)]
      /\ snap \in [Caller -> Loaded \cup {None}]
    BY DEF CommitInv, TypeOK
<1>1. PICK l \in Loaded : l = snap[c] /\ LoadedOK(s, l) /\ l.keep \in Seq(Decision) /\ l.write \in BOOLEAN
    BY <1>0 DEF LoadOK, Loaded
<1>2. PICK ds \in Seq(Decision) : ds = decisions'[s] /\ (ds = decisions[s] \/ ds = l.keep)
    BY <1>0, <1>1 DEF Rewrite
<1>3. /\ decisions' \in [Server -> Seq(Decision)]
      /\ \A q \in Server : q # s => decisions'[q] = decisions[q]
    BY <1>0, <1>1 DEF Rewrite
<1>4. /\ snap' \in [Caller -> Loaded \cup {None}]
      /\ snap'[c] = None /\ \A d \in Caller : d # c => snap'[d] = snap[d]
    BY <1>0 DEF Rewrite
<1>5. Len(ds) <= 1 /\ \A i \in DOMAIN ds : ds[i] \in Decision /\ DecisionOK(s, ds[i])
    BY <1>0, <1>1, <1>2 DEF LogOK, LoadedOK
<1>6. \A i \in DOMAIN ds : DecisionOK(s, ds[i])'
    BY <1>5, DecisionFrame
<1>7. ClearedMeansReached'
    <2> SUFFICES ASSUME NEW u \in Tx, outcome[u] = "commit", ~OnRecord(u)'
                 PROVE  ReachedAll(u)'
        BY DEF ClearedMeansReached, ReachedAll
    <2>1. CASE decisions'[Coord(u)] = decisions[Coord(u)]
        <3>1. ~OnRecord(u)
            BY <2>1 DEF OnRecord
        <3>2. ReachedAll(u)
            BY <3>1 DEF CommitInv, ClearedMeansReached, ReachedAll
        <3> QED
            BY <3>2, ReachedFrame
    <2>2. CASE decisions'[Coord(u)] # decisions[Coord(u)]
        <3>1. Coord(u) = s /\ ds = l.keep
            BY <1>2, <1>3, <2>2, ActorFacts
        <3>2. ~\E i \in DOMAIN ds : ds[i].tx = u /\ ds[i].decision = "commit"
            BY <1>2, <3>1 DEF OnRecord
        <3>3. ReachedAll(u)
            BY <1>1, <3>1, <3>2 DEF LoadedOK
        <3> QED
            BY <3>3, ReachedFrame
    <2> QED
        BY <2>1, <2>2
<1> QED
    BY <1>2, <1>3, <1>4, <1>5, <1>6, <1>7

\* The decision is removed and the client hears OK.
LEMMA ClearSaveStep ==
    ASSUME CommitInv, ProofHypotheses, NEW t \in Tx, ClearSave(t)
    PROVE  CommitInv'
<1>0. /\ TypeOK /\ Quiet /\ t \in Caller /\ t \notin Server /\ co[t].at = "clear"
      /\ wait[t] = None /\ inbox[t] = None /\ Coord(t) \in Server /\ Home(t) = Coord(t) /\ PhaseOK(t)
      /\ Goto(t, "ok") /\ Rewrite(Coord(t), t)
    BY IdleFact DEF CommitInv, ClearSave
<1>1. UNCHANGED <<prepared, applied, status, nextId, rec, taken, calls, wait, inbox, streams, faults, outcome>>
    BY DEF ClearSave
<1>2. snap[t] # None /\ outcome[t] = "commit" /\ AppliedEverywhere(t)
    BY <1>0 DEF Quiet, PhaseOK
<1>3. Monotone
    BY <1>1, MonotoneFrame
<1>4. /\ decisions' \in [Server -> Seq(Decision)] /\ snap' \in [Caller -> Loaded \cup {None}]
      /\ snap'[t] = None /\ \A d \in Caller : d # t => snap'[d] = snap[d]
      /\ \A q \in Server : q # Coord(t) => decisions'[q] = decisions[q]
      /\ Len(decisions'[Coord(t)]) <= 1
      /\ \A i \in DOMAIN decisions'[Coord(t)] : DecisionOK(Coord(t), decisions[Coord(t)][i])'
      /\ ClearedMeansReached'
    BY <1>0, <1>1, <1>2, <1>3, RewriteFact
<1>5. /\ co' \in [Tx -> [at : Active \cup {"staged", "ok", "err", "gone"}, held : Seq(Part)]]
      /\ co'[t].at = "ok" /\ \A u \in Tx : u # t => co'[u] = co[u]
    BY <1>0, GotoFact
<1>6. TypeOK'
    BY <1>0, <1>1, <1>4, <1>5 DEF TypeOK
<1>7. \A s \in Server : LogOK(s)'
    <2> TAKE s \in Server
    <2>1. CASE s # Coord(t)
        BY <1>1, <1>3, <1>4, <2>1, LogFrame
    <2>2. CASE s = Coord(t)
        <3>1. LogOK(s) /\ rec[s].todo \in Seq(Decision) /\ rec[s].done \subseteq Tx
            BY <1>0 DEF CommitInv, TypeOK
        <3>2. \A i \in DOMAIN rec[s].todo : DecisionOK(s, rec[s].todo[i])'
            BY <1>1, <1>3, <3>1, DecisionFrame DEF LogOK
        <3>3. \A u \in rec[s].done : outcome'[u] # "open" /\ (outcome'[u] = "commit" => ReachedAll(u)')
            BY <1>3, <3>1, ReachedFrame DEF LogOK, Monotone
        <3> QED
            BY <1>1, <1>4, <2>2, <3>2, <3>3 DEF LogOK
    <2> QED
        BY <2>1, <2>2
<1>8. PhaseOK(t)'
    <2>1. AppliedEverywhere(t)'
        BY <1>2, <1>3, ReachedFrame
    <2> QED
        BY <1>1, <1>2, <1>5, <2>1 DEF PhaseOK
<1>9. LoadOK(t)'
    BY <1>4 DEF LoadOK
<1>10. /\ \A u \in Tx : u # t => co'[u] = co[u] /\ outcome'[u] = outcome[u]
       /\ \A c \in Caller : c # t => wait'[c] = wait[c] /\ inbox'[c] = inbox[c] /\ snap'[c] = snap[c]
       /\ outcome'[t] = outcome[t] /\ wait'[t] = None /\ inbox'[t] = None /\ co[t].at \in Active
    BY <1>0, <1>1, <1>4, <1>5 DEF Active
<1> QED
    BY <1>1, <1>3, <1>4, <1>5, <1>6, <1>7, <1>8, <1>9, <1>10, CoordFrame

-----------------------------------------------------------------------------
(* The replay of decisions.                                                *)

\* A replay waits, and has loaded the log, only at certain points.
LEMMA ReplayIdle ==
    ASSUME CommitInv, NEW s \in Server
    PROVE  /\ wait[s] = None => inbox[s] = None
           /\ ~Replaying(s) \/ Current(s).parts = <<>> => wait[s] = None
           /\ ~rec[s].on \/ Replaying(s) => snap[s] = None
           /\ s \in Caller /\ s \notin Tx /\ Home(s) = s
           /\ rec \in [Server -> [on : BOOLEAN, todo : Seq(Decision), done : SUBSET Tx, failed : BOOLEAN]]
           /\ rec[s] \in [on : BOOLEAN, todo : Seq(Decision), done : SUBSET Tx, failed : BOOLEAN]
<1>1. s \in Caller /\ s \notin Tx /\ Home(s) = s
    BY ActorAssumption, ActorFacts DEF Caller
<1>2. rec \in [Server -> [on : BOOLEAN, todo : Seq(Decision), done : SUBSET Tx, failed : BOOLEAN]]
    BY DEF CommitInv, TypeOK
<1>3. LoadOK(s) /\ WaitOK(s) /\ AnswerOK(s)
    BY <1>1 DEF CommitInv
<1> QED
    BY <1>1, <1>2, <1>3 DEF WaitOK, AnswerOK, LoadOK, ReplayWaits, Replaying

\* A step of the replay of s that leaves what is decided, the log and what is
\* loaded alone.
LEMMA ReplayFrame ==
    ASSUME CommitInv, NEW s \in Server, faults' \in Nat, Monotone,
           UNCHANGED <<disk, status, nextId, co, taken, calls, snap, streams, outcome>>,
           wait' \in [Caller -> Call \cup {None}], inbox' \in [Caller -> AnswerRec \cup {None}],
           \A c \in Caller : c # s => wait'[c] = wait[c] /\ inbox'[c] = inbox[c],
           wait'[s] = None, inbox'[s] = None, snap[s] = None, status[s] # "down",
           rec' \in [Server -> [on : BOOLEAN, todo : Seq(Decision), done : SUBSET Tx, failed : BOOLEAN]],
           \A q \in Server : q # s => rec'[q] = rec[q],
           \A i \in DOMAIN rec'[s].todo : DecisionOK(s, rec[s].todo[i])',
           \A t \in rec'[s].done : outcome[t] # "open" /\ (outcome[t] = "commit" => ReachedAll(t)),
           rec[s].on \/ decisions[s] # <<>>, ProofHypotheses
    PROVE  CommitInv'
<1>0. /\ TypeOK /\ Quiet /\ LogOK(s) /\ s \in Caller /\ s \notin Tx
      /\ decisions[s] \in Seq(Decision) /\ rec'[s].done \subseteq Tx
    BY ReplayIdle DEF CommitInv, TypeOK
<1>1. TypeOK'
    BY <1>0 DEF TypeOK, disk
<1>2. (\A q \in Server : BatchOK(q)') /\ ClearedMeansReached'
    BY BatchFrame, ClearedFrame DEF disk
<1>3. \A q \in Server : LogOK(q)'
    <2> TAKE q \in Server
    <2>1. CASE q # s
        BY <2>1, LogFrame DEF disk
    <2>2. CASE q = s
        <3>1. \A i \in DOMAIN decisions[s] : DecisionOK(s, decisions[s][i])'
            BY <1>0, DecisionFrame DEF LogOK, disk
        <3>2. \A t \in rec'[s].done : outcome'[t] # "open" /\ (outcome'[t] = "commit" => ReachedAll(t)')
            BY <1>0, ReachedFrame
        <3> QED
            BY <1>0, <2>2, <3>1, <3>2 DEF LogOK, disk
    <2> QED
        BY <2>1, <2>2
<1>4. \A t \in Tx : PhaseOK(t)'
    BY PhaseFrame
<1>5. \A call \in calls' : QueuedOK(call)'
    BY QueuedFrame
<1>6. \A c \in Caller : LoadOK(c)' /\ WaitOK(c)' /\ AnswerOK(c)'
    <2> TAKE c \in Caller
    <2>1. CASE c = s
        BY <2>1 DEF LoadOK, WaitOK, AnswerOK
    <2>2. CASE c # s
        BY <2>2, LoadFrame, WaitFrame, AnswerFrame
    <2> QED
        BY <2>1, <2>2
<1>7. \A t \in Tx : co[t].at \in {"staged", "prepare"} => Coord(t) # s
    <2> SUFFICES ASSUME NEW t \in Tx, co[t].at \in {"staged", "prepare"}, Coord(t) = s
                 PROVE  FALSE
        OBVIOUS
    <2>1. outcome[t] = "open" /\ ~rec[s].on
        BY <1>0 DEF CommitInv, PhaseOK, Quiet
    <2>2. 1 \in DOMAIN decisions[s] /\ decisions[s][1] \in Decision
        BY <1>0, <2>1
    <2>3. DecisionOK(s, decisions[s][1])
        BY <1>0, <2>2 DEF LogOK
    <2>4. decisions[s][1].tx = t /\ decisions[s][1].decision # "open"
        BY <2>2, <2>3, FieldFacts DEF DecisionOK, ProofHypotheses, OneTxEach
    <2> QED
        BY <2>1, <2>3, <2>4 DEF DecisionOK
<1>8. Quiet'
    <2>1. \A t \in Tx : co'[t].at \in {"staged", "prepare"} => ~rec'[Coord(t)].on /\ snap'[Coord(t)] = None
        BY <1>0, <1>7, ActorFacts DEF Quiet
    <2> QED
        BY <1>0, <2>1 DEF Quiet
<1> QED
    BY <1>1, <1>2, <1>3, <1>4, <1>5, <1>6, <1>8 DEF CommitInv

\* The periodic replay starts from the log.
LEMMA StartReplayStep ==
    ASSUME CommitInv, ProofHypotheses, NEW s \in Server, StartReplay(s)
    PROVE  CommitInv'
<1>0. /\ TypeOK /\ LogOK(s) /\ status[s] = "serving" /\ ~rec[s].on /\ decisions[s] # <<>>
      /\ decisions[s] \in Seq(Decision) /\ rec' = [rec EXCEPT ![s] = Replay(decisions[s])]
    BY DEF CommitInv, TypeOK, StartReplay
<1>1. UNCHANGED <<disk, status, nextId, co, taken, calls, wait, inbox, snap, streams, faults, outcome>>
    BY DEF StartReplay
<1>2. wait[s] = None /\ inbox[s] = None /\ snap[s] = None
    BY <1>0, ReplayIdle DEF Replaying
<1>3. Monotone
    BY <1>1, MonotoneFrame DEF disk
<1>4. PICK r \in [on : BOOLEAN, todo : Seq(Decision), done : SUBSET Tx, failed : BOOLEAN] :
          r = Replay(decisions[s]) /\ r.todo = decisions[s] /\ r.done = {}
    <2>1. Replay(decisions[s]) \in [on : BOOLEAN, todo : Seq(Decision), done : SUBSET Tx, failed : BOOLEAN]
        BY <1>0 DEF Replay
    <2> QED
        BY <2>1 DEF Replay
<1>5. /\ rec' \in [Server -> [on : BOOLEAN, todo : Seq(Decision), done : SUBSET Tx, failed : BOOLEAN]]
      /\ rec'[s] = r /\ \A q \in Server : q # s => rec'[q] = rec[q]
    BY <1>0, <1>4, ReplayIdle
<1>6. \A i \in DOMAIN r.todo : r.todo[i] \in Decision /\ DecisionOK(s, r.todo[i])
    BY <1>0, <1>4 DEF LogOK
<1>7. \A i \in DOMAIN r.todo : DecisionOK(s, r.todo[i])'
    BY <1>3, <1>6, DecisionFrame
<1>8. \A i \in DOMAIN rec'[s].todo : DecisionOK(s, rec[s].todo[i])'
    BY <1>5, <1>7
<1>9. /\ faults' \in Nat /\ wait' \in [Caller -> Call \cup {None}] /\ inbox' \in [Caller -> AnswerRec \cup {None}]
    BY <1>0, <1>1 DEF TypeOK
<1>10. \A t \in rec'[s].done : outcome[t] # "open" /\ (outcome[t] = "commit" => ReachedAll(t))
    BY <1>4, <1>5
<1> QED
    BY <1>0, <1>1, <1>2, <1>3, <1>5, <1>8, <1>9, <1>10, ReplayFrame

\* A participant that cannot be reached ends the replay.
LEMMA ReplayUnreachedStep ==
    ASSUME CommitInv, ProofHypotheses, NEW s \in Server, ReplayUnreached(s)
    PROVE  CommitInv'
<1>0. /\ TypeOK /\ LogOK(s) /\ Quiet /\ Replaying(s) /\ wait[s] = None /\ inbox[s] = None /\ snap[s] = None
      /\ rec' = [rec EXCEPT ![s].failed = TRUE]
    BY ReplayIdle DEF CommitInv, ReplayUnreached, Asking
<1>1. UNCHANGED <<disk, status, nextId, co, taken, calls, wait, inbox, snap, streams, outcome>>
    BY DEF ReplayUnreached
<1>2. rec[s].on /\ status[s] # "down"
    BY <1>0 DEF Replaying, Quiet
<1>3. Monotone
    BY <1>1, MonotoneFrame DEF disk
<1>4. PICK todo \in Seq(Decision), done \in SUBSET Tx : todo = rec[s].todo /\ done = rec[s].done
    BY ReplayIdle
<1>5. /\ rec' \in [Server -> [on : BOOLEAN, todo : Seq(Decision), done : SUBSET Tx, failed : BOOLEAN]]
      /\ rec'[s].todo = todo /\ rec'[s].done = done /\ \A q \in Server : q # s => rec'[q] = rec[q]
    BY <1>0, <1>4, ReplayIdle
<1>6. \A i \in DOMAIN todo : DecisionOK(s, todo[i])'
    BY <1>0, <1>3, <1>4, DecisionFrame DEF LogOK
<1>7. \A i \in DOMAIN rec'[s].todo : DecisionOK(s, rec[s].todo[i])'
    BY <1>5, <1>6
<1>8. /\ faults' \in Nat /\ wait' \in [Caller -> Call \cup {None}] /\ inbox' \in [Caller -> AnswerRec \cup {None}]
    BY <1>0, <1>1 DEF TypeOK, ReplayUnreached, Fault
<1>9. \A t \in rec'[s].done : outcome[t] # "open" /\ (outcome[t] = "commit" => ReachedAll(t))
    BY <1>0, <1>4, <1>5 DEF LogOK
<1> QED
    BY <1>0, <1>1, <1>2, <1>3, <1>5, <1>7, <1>8, <1>9, ReplayFrame

\* A part is done when its participant has applied it, has taken it, or took it
\* for an earlier call.
LEMMA ReplayAnswerStep ==
    ASSUME CommitInv, ProofHypotheses, NEW s \in Server, ReplayAnswer(s)
    PROVE  CommitInv'
<1>0. /\ TypeOK /\ LogOK(s) /\ Quiet /\ Replaying(s) /\ Answered(s) /\ snap[s] = None /\ s \in Caller
      /\ WaitOK(s) /\ AnswerOK(s) /\ Home(s) = s
    BY ReplayIdle DEF CommitInv, ReplayAnswer
<1>1. UNCHANGED <<disk, status, nextId, co, taken, calls, snap, streams, faults, outcome>>
    BY DEF ReplayAnswer
<1>2. rec[s].on /\ status[s] # "down"
    BY <1>0 DEF Replaying, Quiet
<1>3. Monotone
    BY <1>1, MonotoneFrame DEF disk
<1>4. PICK todo \in Seq(Decision), done \in SUBSET Tx :
          todo = rec[s].todo /\ done = rec[s].done /\ todo # <<>>
    BY <1>0, ReplayIdle DEF Replaying
<1>5. /\ wait' \in [Caller -> Call \cup {None}] /\ inbox' \in [Caller -> AnswerRec \cup {None}]
      /\ wait'[s] = None /\ inbox'[s] = None /\ inbox[s] # None /\ inbox[s] \in AnswerRec
      /\ \A d \in Caller : d # s => wait'[d] = wait[d] /\ inbox'[d] = inbox[d]
    BY <1>0, AnsweredFact
<1>6. faults' \in Nat
    BY <1>0, <1>1 DEF TypeOK
<1>7. /\ \A i \in DOMAIN todo : todo[i] \in Decision /\ DecisionOK(s, todo[i]) /\ DecisionOK(s, todo[i])'
    BY <1>0, <1>3, <1>4, DecisionFrame DEF LogOK
<1>8. \A t \in done : outcome[t] # "open" /\ (outcome[t] = "commit" => ReachedAll(t))
    BY <1>0, <1>4 DEF LogOK
<1>9. CASE inbox[s].res \notin {"ok", "unknown"}
    <2>1. /\ rec' \in [Server -> [on : BOOLEAN, todo : Seq(Decision), done : SUBSET Tx, failed : BOOLEAN]]
          /\ rec'[s].todo = todo /\ rec'[s].done = done /\ \A q \in Server : q # s => rec'[q] = rec[q]
        <3>1. rec' = [rec EXCEPT ![s].failed = TRUE]
            BY <1>9 DEF ReplayAnswer
        <3>2. rec \in [Server -> [on : BOOLEAN, todo : Seq(Decision), done : SUBSET Tx, failed : BOOLEAN]]
            BY ReplayIdle
        <3> QED
            BY <1>4, <3>1, <3>2
    <2>2. \A i \in DOMAIN rec'[s].todo : DecisionOK(s, rec[s].todo[i])'
        BY <1>7, <2>1
    <2>3. \A t \in rec'[s].done : outcome[t] # "open" /\ (outcome[t] = "commit" => ReachedAll(t))
        BY <1>8, <2>1
    <2> QED
        BY <1>0, <1>1, <1>2, <1>3, <1>5, <1>6, <2>1, <2>2, <2>3, ReplayFrame
<1>10. CASE inbox[s].res \in {"ok", "unknown"}
    <2>1. PICK d \in Decision, rest \in Seq(Decision) :
              /\ d = Head(todo) /\ d = Current(s) /\ d = todo[1] /\ 1 \in DOMAIN todo
              /\ rest = <<NextPart(Head(todo))>> \o Tail(todo) /\ d.parts # <<>>
              /\ rest # <<>> /\ Head(rest) = NextPart(d)
              /\ \A i \in DOMAIN rest : rest[i] = NextPart(d) \/ (i \in DOMAIN todo /\ rest[i] = todo[i])
        <3>1. wait[s] # None /\ Current(s).parts # <<>>
            BY <1>0, <1>5, ReplayIdle DEF AnswerOK
        <3>2. Head(todo) \in Decision /\ Head(todo) = todo[1] /\ 1 \in DOMAIN todo /\ Head(todo) = Current(s)
            BY <1>4 DEF Current
        <3>3. PICK rest : rest = <<NextPart(Head(todo))>> \o Tail(todo)
            OBVIOUS
        <3>4. /\ rest \in Seq(Decision) /\ rest # <<>>
              /\ Head(rest) = NextPart(Head(todo))
              /\ \A i \in DOMAIN rest : rest[i] = Head(rest) \/ (i \in DOMAIN todo /\ rest[i] = todo[i])
            <4>1. todo # <<>> /\ Head(todo).parts # <<>>
                BY <1>4, <3>1, <3>2
            <4> QED
                BY <3>3, <4>1, PopFact
        <3> QED
            BY <3>1, <3>2, <3>3, <3>4
    <2>2. /\ wait[s] # None /\ wait[s].kind = d.decision /\ wait[s].to = Head(d.parts).at
        BY <1>0, <1>5, <2>1 DEF WaitOK, AnswerOK, ReplayWaits
    <2>3. /\ rec' \in [Server -> [on : BOOLEAN, todo : Seq(Decision), done : SUBSET Tx, failed : BOOLEAN]]
          /\ rec'[s].todo = rest /\ rec'[s].done = done /\ \A q \in Server : q # s => rec'[q] = rec[q]
        <3>1. rec' = [rec EXCEPT ![s].todo = rest]
            BY <1>4, <1>10, <2>1, ReplayIdle DEF ReplayAnswer
        <3> QED
            BY <1>4, <3>1, ReplayIdle
    <2>4. PICK e \in Decision : e = NextPart(d) /\ e.tx = d.tx /\ e.decision = d.decision /\ e.parts = Tail(d.parts)
        <3>1. NextPart(d) \in Decision
            BY <2>1
        <3> QED
            BY <3>1 DEF NextPart
    <2>5. DecisionOK(s, d)' /\ DecisionOK(s, d) /\ d.tx \in Tx /\ d.parts \in Seq(Part)
        BY <1>7, <2>1, FieldFacts
    <2>6. /\ \A i \in DOMAIN e.parts : i + 1 \in DOMAIN d.parts /\ e.parts[i] = d.parts[i + 1]
          /\ \A i \in DOMAIN d.parts : i = 1 \/ (i - 1 \in DOMAIN e.parts /\ d.parts[i] = e.parts[i - 1])
          /\ Head(d.parts) = d.parts[1]
        BY <2>1, <2>4, <2>5, FirstFact
    <2>7. DecisionOK(s, e)'
        <3>1. \A i \in DOMAIN e.parts : Backed(e.tx, e.parts[i])'
            BY <2>4, <2>5, <2>6 DEF DecisionOK
        <3>2. ASSUME e.decision = "commit", NEW p \in Participants(e.tx)
              PROVE  e.tx \in Reached(p)' \/ Names(e.parts, p)
            <4>1. d.tx \in Reached(p)' \/ Names(d.parts, p)
                BY <2>4, <2>5, <3>2 DEF DecisionOK
            <4>2. ASSUME Names(d.parts, p), ~Names(e.parts, p)
                  PROVE  d.tx \in Reached(p)
                <5>1. PICK i \in DOMAIN d.parts : d.parts[i].at = p
                    BY <4>2 DEF Names
                <5>2. i = 1
                    BY <2>6, <4>2, <5>1 DEF Names
                <5>3. wait[s].to = p /\ wait[s].kind = "commit" /\ Coord(d.tx) = Home(s)
                    BY <1>0, <2>2, <2>4, <2>5, <2>6, <3>2, <5>1, <5>2 DEF DecisionOK
                <5> QED
                    BY <1>0, <1>5, <1>10, <2>5, <5>3 DEF AnswerOK, Reached
            <4>3. p \in Server
                BY <2>4, <2>5, <3>2, ActorFacts
            <4> QED
                BY <1>3, <2>4, <2>5, <4>1, <4>2, <4>3 DEF Monotone
        <3> QED
            BY <2>4, <2>5, <3>1, <3>2 DEF DecisionOK
    <2>8. \A i \in DOMAIN rest : DecisionOK(s, rest[i])'
        BY <1>7, <2>1, <2>4, <2>7
    <2>9. \A i \in DOMAIN rec'[s].todo : DecisionOK(s, rec[s].todo[i])'
        BY <2>3, <2>8
    <2>10. \A t \in rec'[s].done : outcome[t] # "open" /\ (outcome[t] = "commit" => ReachedAll(t))
        BY <1>8, <2>3
    <2> QED
        BY <1>0, <1>1, <1>2, <1>3, <1>5, <1>6, <2>3, <2>9, <2>10, ReplayFrame
<1> QED
    BY <1>9, <1>10

\* A decision of which no part is left has reached all participants.
LEMMA ReplayedDecisionStep ==
    ASSUME CommitInv, ProofHypotheses, NEW s \in Server, ReplayedDecision(s)
    PROVE  CommitInv'
<1>0. /\ TypeOK /\ LogOK(s) /\ Quiet /\ Replaying(s) /\ Current(s).parts = <<>>
      /\ wait[s] = None /\ inbox[s] = None /\ snap[s] = None
    BY ReplayIdle DEF CommitInv, ReplayedDecision
<1>1. UNCHANGED <<disk, status, nextId, co, taken, calls, wait, inbox, snap, streams, faults, outcome>>
    BY DEF ReplayedDecision
<1>2. rec[s].on /\ status[s] # "down"
    BY <1>0 DEF Replaying, Quiet
<1>3. Monotone
    BY <1>1, MonotoneFrame DEF disk
<1>4. PICK todo \in Seq(Decision), done \in SUBSET Tx :
          todo = rec[s].todo /\ done = rec[s].done /\ todo # <<>>
    BY <1>0, ReplayIdle DEF Replaying
<1>5. PICK d \in Decision, rest \in Seq(Decision) :
          /\ d = Current(s) /\ d = todo[1] /\ 1 \in DOMAIN todo /\ rest = Tail(todo)
          /\ \A i \in DOMAIN rest : i + 1 \in DOMAIN todo /\ rest[i] = todo[i + 1]
    <2>1. Head(todo) \in Decision /\ 1 \in DOMAIN todo /\ Head(todo) = todo[1] /\ Tail(todo) \in Seq(Decision)
        BY <1>4, FirstFact
    <2>2. \A i \in DOMAIN Tail(todo) : i + 1 \in DOMAIN todo /\ Tail(todo)[i] = todo[i + 1]
        BY <1>4, FirstFact
    <2> QED
        BY <1>4, <2>1, <2>2 DEF Current
<1>6. d.tx \in Tx /\ d.decision \in {"commit", "abort"} /\ DecisionOK(s, d)
    BY <1>0, <1>4, <1>5, FieldFacts DEF LogOK
<1>7. outcome[d.tx] # "open" /\ (outcome[d.tx] = "commit" => ReachedAll(d.tx))
    BY <1>0, <1>5, <1>6 DEF DecisionOK, ReachedAll, Names
<1>8. /\ rec' \in [Server -> [on : BOOLEAN, todo : Seq(Decision), done : SUBSET Tx, failed : BOOLEAN]]
      /\ rec'[s].todo = rest /\ rec'[s].done = done \cup {d.tx} /\ \A q \in Server : q # s => rec'[q] = rec[q]
    <2>1. rec' = [rec EXCEPT ![s].done = @ \cup {d.tx}, ![s].todo = Tail(@)]
        BY <1>5 DEF ReplayedDecision
    <2> QED
        BY SMTT(30), <1>4, <1>5, <1>6, <2>1, ReplayIdle
<1>9. \A i \in DOMAIN rest : rest[i] \in Decision /\ DecisionOK(s, rest[i])
    BY <1>0, <1>4, <1>5 DEF LogOK
<1>10. \A i \in DOMAIN rest : DecisionOK(s, rest[i])'
    BY <1>3, <1>9, DecisionFrame
<1>11. \A i \in DOMAIN rec'[s].todo : DecisionOK(s, rec[s].todo[i])'
    BY <1>8, <1>10
<1>12. \A t \in rec'[s].done : outcome[t] # "open" /\ (outcome[t] = "commit" => ReachedAll(t))
    BY <1>0, <1>4, <1>7, <1>8 DEF LogOK
<1>13. faults' \in Nat /\ wait' \in [Caller -> Call \cup {None}] /\ inbox' \in [Caller -> AnswerRec \cup {None}]
    BY <1>0, <1>1 DEF TypeOK
<1> QED
    BY <1>0, <1>1, <1>2, <1>3, <1>8, <1>11, <1>12, <1>13, ReplayFrame

\* A replay that is done, or has failed, loads the log without the decisions it
\* has seen through.
LEMMA ReplayLoadStep ==
    ASSUME CommitInv, ProofHypotheses, NEW s \in Server, ReplayLoad(s)
    PROVE  CommitInv'
<1>0. /\ TypeOK /\ LogOK(s) /\ Quiet /\ s \in Caller /\ s \notin Tx /\ Home(s) = s
      /\ rec[s].on /\ (rec[s].failed \/ rec[s].todo = <<>>)
      /\ snap' = [snap EXCEPT ![s] = Removal(s, rec[s].done)]
      /\ snap \in [Caller -> Loaded \cup {None}]
    BY ReplayIdle DEF CommitInv, ReplayLoad, TypeOK
<1>1. UNCHANGED <<disk, status, nextId, co, rec, taken, calls, wait, inbox, streams, faults, outcome>>
    BY DEF ReplayLoad
<1>2. Monotone
    BY <1>1, MonotoneFrame DEF disk
<1>3. PICK l \in Loaded : l = Removal(s, rec[s].done) /\ LoadedOK(s, l)
    <2>1. \A t \in rec[s].done : outcome[t] = "commit" => ReachedAll(t)
        BY <1>0 DEF LogOK
    <2> QED
        BY <2>1, RemovalFact
<1>4. /\ snap' \in [Caller -> Loaded \cup {None}] /\ snap'[s] = l
      /\ \A c \in Caller : c # s => snap'[c] = snap[c]
    BY <1>0, <1>3
<1>5. TypeOK'
    BY <1>0, <1>1, <1>4 DEF TypeOK, disk
<1>6. (\A q \in Server : BatchOK(q)' /\ LogOK(q)') /\ ClearedMeansReached'
    BY <1>1, <1>2, StoresFrame DEF disk
<1>7. (\A t \in Tx : PhaseOK(t)') /\ \A call \in calls' : QueuedOK(call)'
    BY <1>1, <1>2, PhaseFrame, QueuedFrame
<1>8. \A c \in Caller : WaitOK(c)' /\ AnswerOK(c)'
    BY <1>1, <1>2, WaitFrame, AnswerFrame
<1>9. \A c \in Caller : LoadOK(c)'
    <2> TAKE c \in Caller
    <2>1. CASE c # s
        BY <1>1, <1>2, <1>4, <2>1, LoadFrame
    <2>2. CASE c = s
        <3>1. LoadedOK(s, l)'
            BY <1>1, <1>2, <1>3, LoadedFrame
        <3> QED
            BY <1>0, <1>1, <1>4, <2>2, <3>1 DEF LoadOK
    <2> QED
        BY <2>1, <2>2
<1>10. Quiet'
    <2>1. \A t \in Tx : t \in Caller /\ t # s /\ Coord(t) \in Caller
        BY <1>0, ActorFacts DEF Caller
    <2>2. \A t \in Tx : co[t].at \in {"staged", "prepare"} => Coord(t) # s
        BY <1>0 DEF Quiet
    <2> QED
        BY <1>0, <1>1, <1>4, <2>1, <2>2 DEF Quiet
<1> QED
    BY <1>5, <1>6, <1>7, <1>8, <1>9, <1>10 DEF CommitInv

\* The replay writes the log back; a start-up ends, well or not.
LEMMA ReplaySaveStep ==
    ASSUME CommitInv, ProofHypotheses, NEW s \in Server, ReplaySave(s)
    PROVE  CommitInv'
<1>0. /\ TypeOK /\ Quiet /\ s \in Caller /\ s \notin Tx /\ Home(s) = s /\ LoadOK(s) /\ snap[s] # None
      /\ Rewrite(s, s) /\ rec' = [rec EXCEPT ![s] = NoReplay]
      /\ status \in [Server -> {"down", "starting", "serving"}]
      /\ status' = [status EXCEPT ![s] = IF @ = "starting" /\ rec[s].failed THEN "down" ELSE "serving"]
    BY ReplayIdle DEF CommitInv, ReplaySave, TypeOK
<1>1. UNCHANGED <<prepared, applied, nextId, co, taken, calls, wait, inbox, streams, faults, outcome>>
    BY DEF ReplaySave
<1>2. rec[s].on /\ status[s] # "down" /\ wait[s] = None /\ inbox[s] = None
    BY <1>0, ReplayIdle DEF LoadOK, Replaying, Quiet
<1>3. Monotone
    BY <1>1, MonotoneFrame
<1>4. /\ decisions' \in [Server -> Seq(Decision)] /\ snap' \in [Caller -> Loaded \cup {None}]
      /\ snap'[s] = None /\ \A d \in Caller : d # s => snap'[d] = snap[d]
      /\ \A q \in Server : q # s => decisions'[q] = decisions[q]
      /\ Len(decisions'[s]) <= 1
      /\ \A i \in DOMAIN decisions'[s] : DecisionOK(s, decisions[s][i])'
      /\ ClearedMeansReached'
    BY <1>0, <1>1, <1>3, RewriteFact
<1>5. /\ rec' \in [Server -> [on : BOOLEAN, todo : Seq(Decision), done : SUBSET Tx, failed : BOOLEAN]]
      /\ rec'[s].todo = <<>> /\ rec'[s].done = {} /\ ~rec'[s].on
      /\ \A q \in Server : q # s => rec'[q] = rec[q]
    BY <1>0, ReplayIdle DEF NoReplay
<1>6. /\ status' \in [Server -> {"down", "starting", "serving"}]
      /\ \A q \in Server : q # s => status'[q] = status[q]
      /\ status[s] = "serving" => status'[s] = "serving"
    BY <1>0
<1>7. TypeOK'
    BY <1>0, <1>1, <1>4, <1>5, <1>6 DEF TypeOK
<1>8. \A q \in Server : BatchOK(q)'
    BY <1>1, <1>3, BatchFrame
<1>9. \A q \in Server : LogOK(q)'
    <2> TAKE q \in Server
    <2>1. CASE q # s
        BY <1>3, <1>4, <1>5, <2>1, LogFrame
    <2>2. CASE q = s
        BY <1>4, <1>5, <2>2 DEF LogOK
    <2> QED
        BY <2>1, <2>2
<1>10. \A t \in Tx : PhaseOK(t)'
    BY <1>1, <1>3, PhaseFrame
<1>11. \A call \in calls' : QueuedOK(call)'
    <2> TAKE call \in calls'
    <2>1. call \in calls /\ call \in Call /\ call.to \in Server /\ QueuedOK(call)
        BY <1>0, <1>1 DEF CommitInv, TypeOK, Call
    <2>2. call.kind = "prepare" => status'[call.to] = status[call.to]
        BY <1>6, <2>1 DEF QueuedOK
    <2> QED
        BY <1>3, <2>1, <2>2, QueuedFrame
<1>12. \A c \in Caller : LoadOK(c)' /\ WaitOK(c)' /\ AnswerOK(c)'
    <2> TAKE c \in Caller
    <2>1. CASE c # s
        <3>1. LoadOK(c)'
            BY <1>1, <1>3, <1>4, <1>5, <2>1, LoadFrame
        <3>2. WaitOK(c)'
            BY <1>1, <1>3, <1>5, <2>1, WaitFrame
        <3>3. AnswerOK(c)'
            BY <1>1, <1>3, AnswerFrame
        <3> QED
            BY <3>1, <3>2, <3>3
    <2>2. CASE c = s
        BY <1>1, <1>2, <1>4, <2>2 DEF LoadOK, WaitOK, AnswerOK
    <2> QED
        BY <2>1, <2>2
<1>13. Quiet'
    <2>1. \A t \in Tx : t \in Caller /\ t # s /\ Coord(t) \in Caller /\ Coord(t) \in Server
        BY <1>0, ActorFacts DEF Caller
    <2>2. \A t \in Tx : co'[t].at \in {"staged", "prepare"} => ~rec'[Coord(t)].on /\ snap'[Coord(t)] = None
        <3> SUFFICES ASSUME NEW t \in Tx, co'[t].at \in {"staged", "prepare"}
                     PROVE  ~rec'[Coord(t)].on /\ snap'[Coord(t)] = None
            OBVIOUS
        <3>1. ~rec[Coord(t)].on /\ snap[Coord(t)] = None
            BY <1>0, <1>1 DEF Quiet
        <3>2. CASE Coord(t) = s
            BY <1>4, <1>5, <3>2
        <3>3. CASE Coord(t) # s
            BY <1>4, <1>5, <2>1, <3>1, <3>3
        <3> QED
            BY <3>2, <3>3
    <2>3. \A t \in Tx : co'[t].at = "clear" => snap'[t] # None
        BY <1>0, <1>1, <1>4, <2>1 DEF Quiet
    <2>4. \A t \in Tx : co'[t].at \in Active \cup {"staged"} => status'[Coord(t)] = "serving"
        BY <1>0, <1>1, <1>6, <2>1 DEF Quiet
    <2>5. \A q \in Server : (q \notin Crasher => status'[q] = "serving") /\ (status'[q] = "down" => ~rec'[q].on)
        BY <1>0, <1>5, <1>6 DEF Quiet
    <2> QED
        BY <2>2, <2>3, <2>4, <2>5 DEF Quiet
<1> QED
    BY <1>4, <1>7, <1>8, <1>9, <1>10, <1>11, <1>12, <1>13 DEF CommitInv

\* The highest of a non-empty set of ids.
LEMMA HighestId ==
    ASSUME NEW b \in Nat, NEW S \in SUBSET (1..b), S # {}
    PROVE  \E i \in S : \A j \in S : j <= i
<1> DEFINE R == {p \in Nat \X Nat : p[1] < p[2]}
           D == {d \in Nat : b - d \in S}
<1>0. R = OpToRel(<, Nat)
    BY DEF OpToRel
<1>1. IsWellFoundedOn(R, Nat)
    BY <1>0, NatLessThanWellFounded
<1>2. PICK s \in S : TRUE
    OBVIOUS
<1>3. b - s \in D
    BY <1>2
<1>4. D \subseteq Nat /\ D # {}
    BY <1>3
<1> HIDE DEF R, D
<1>5. PICK d \in D : \A y \in D : ~(<<y, d>> \in R)
    BY <1>1, <1>4, WFMin
<1>6. ASSUME NEW j \in S PROVE j <= b - d
    <2>1. j \in Int /\ j <= b /\ 1 <= j
        OBVIOUS
    <2>2. b - (b - j) = j /\ b - j \in Nat
        BY <2>1
    <2>3. b - j \in D
        BY <2>2 DEF D
    <2>4. <<b - j, d>> \in Nat \X Nat
        BY <2>2, <1>4
    <2>5. ~(<<b - j, d>>[1] < <<b - j, d>>[2])
        BY <1>5, <2>3, <2>4 DEF R
    <2>6. d \in Nat
        BY <1>4
    <2> QED
        BY <2>1, <2>2, <2>5, <2>6
<1>7. b - d \in S
    BY <1>5 DEF D
<1> QED
    BY <1>6, <1>7

\* A restarted server: its ids go on after the highest one that is stored, and
\* it replays its log before it serves.
LEMMA OpenStep ==
    ASSUME CommitInv, ProofHypotheses, NEW s \in Server, Open(s)
    PROVE  CommitInv'
<1>0. /\ TypeOK /\ Quiet /\ LogOK(s) /\ s \in Caller /\ s \notin Tx /\ Home(s) = s /\ status[s] = "down"
      /\ rec' = [rec EXCEPT ![s] = Replay(decisions[s])] /\ decisions[s] \in Seq(Decision)
      /\ status \in [Server -> {"down", "starting", "serving"}] /\ nextId \in [Server -> Nat]
      /\ status' = [status EXCEPT ![s] = "starting"]
    BY ReplayIdle DEF CommitInv, Open, TypeOK
<1>1. UNCHANGED <<disk, co, taken, calls, wait, inbox, snap, streams, faults, outcome>>
    BY DEF Open
<1>2. s \in Crasher /\ ~rec[s].on /\ wait[s] = None /\ inbox[s] = None /\ snap[s] = None
    BY <1>0, ReplayIdle DEF Replaying, Quiet
<1>3. PICK n \in Nat : nextId' = [nextId EXCEPT ![s] = n] /\ \A i \in DOMAIN prepared[s] : i <= n
    <2>0. DOMAIN prepared[s] \in SUBSET (1..nextId[s]) /\ nextId[s] \in Nat
        BY <1>0 DEF TypeOK
    <2>1. CASE DOMAIN prepared[s] = {}
        BY <1>0, <2>1 DEF Open
    <2>2. CASE DOMAIN prepared[s] # {}
        <3> DEFINE S == DOMAIN prepared[s]
                   m == CHOOSE i \in S : \A j \in S : j <= i
        <3>1. \E i \in S : \A j \in S : j <= i
            BY <2>0, <2>2, HighestId
        <3>2. m \in S /\ \A j \in S : j <= m
            BY <3>1
        <3>3. m \in Nat
            BY <2>0, <3>2
        <3>4. nextId' = [nextId EXCEPT ![s] = m]
            BY <2>2 DEF Open
        <3> QED
            BY <3>2, <3>3, <3>4
    <2> QED
        BY <2>1, <2>2
<1>4. /\ nextId' \in [Server -> Nat] /\ nextId'[s] = n
      /\ \A q \in Server : q # s => nextId'[q] = nextId[q]
    BY <1>0, <1>3
<1>5. Monotone
    <2>1. \A t \in Tx, part \in Part : Mine(t, part) => Mine(t, part)'
        BY <1>1, <1>2, <1>4, FieldFacts DEF Mine, disk
    <2>2. \A t \in Tx, part \in Part : Stored(t, part) => Stored(t, part)'
        BY <1>1, <2>1 DEF Stored, disk
    <2>3. \A t \in Tx, part \in Part : Backed(t, part) => Backed(t, part)'
        BY <1>1, <2>1 DEF Backed, disk, Reached
    <2> QED
        BY <1>1, <2>1, <2>2, <2>3 DEF Monotone, disk, Reached
<1>6. PICK r \in [on : BOOLEAN, todo : Seq(Decision), done : SUBSET Tx, failed : BOOLEAN] :
          r = Replay(decisions[s]) /\ r.todo = decisions[s] /\ r.done = {}
    <2>1. Replay(decisions[s]) \in [on : BOOLEAN, todo : Seq(Decision), done : SUBSET Tx, failed : BOOLEAN]
        BY <1>0 DEF Replay
    <2> QED
        BY <2>1 DEF Replay
<1>7. /\ rec' \in [Server -> [on : BOOLEAN, todo : Seq(Decision), done : SUBSET Tx, failed : BOOLEAN]]
      /\ rec'[s] = r /\ \A q \in Server : q # s => rec'[q] = rec[q]
    BY <1>0, <1>6, ReplayIdle
<1>8. /\ status' \in [Server -> {"down", "starting", "serving"}] /\ status'[s] = "starting"
      /\ \A q \in Server : q # s => status'[q] = status[q]
    BY <1>0
<1>9. TypeOK'
    <2>1. \A q \in Server : \A i \in DOMAIN prepared'[q] : prepared'[q][i] \in Tx /\ i \in 1..nextId'[q]
        <3> SUFFICES ASSUME NEW q \in Server, NEW i \in DOMAIN prepared[q]
                     PROVE  prepared[q][i] \in Tx /\ i \in 1..nextId'[q]
            BY <1>1 DEF disk
        <3>1. prepared[q][i] \in Tx /\ i \in 1..nextId[q] /\ nextId[q] \in Nat
            BY <1>0 DEF TypeOK
        <3> QED
            BY <1>3, <1>4, <3>1
    <2> QED
        BY <1>0, <1>1, <1>4, <1>7, <1>8, <2>1 DEF TypeOK, disk
<1>10. (\A q \in Server : BatchOK(q)') /\ ClearedMeansReached'
    BY <1>1, <1>5, BatchFrame, ClearedFrame DEF disk
<1>11. \A q \in Server : LogOK(q)'
    <2> TAKE q \in Server
    <2>1. CASE q # s
        BY <1>1, <1>5, <1>7, <2>1, LogFrame DEF disk
    <2>2. CASE q = s
        <3>1. PICK ds \in Seq(Decision) : ds = decisions[s]
            BY <1>0
        <3>2. Len(ds) <= 1 /\ \A i \in DOMAIN ds : DecisionOK(s, ds[i])'
            BY <1>0, <1>5, <3>1, DecisionFrame DEF LogOK
        <3> QED
            BY <1>1, <1>6, <1>7, <2>2, <3>1, <3>2 DEF LogOK, disk
    <2> QED
        BY <2>1, <2>2
<1>12. \A t \in Tx : PhaseOK(t)'
    BY <1>1, <1>5, PhaseFrame
<1>13. \A call \in calls' : QueuedOK(call)'
    <2> TAKE call \in calls'
    <2>1. call \in calls /\ call \in Call /\ call.to \in Server /\ QueuedOK(call)
        BY <1>0, <1>1 DEF CommitInv, TypeOK, Call
    <2>2. call.kind = "prepare" => status'[call.to] = status[call.to]
        BY <1>0, <1>8, <2>1 DEF QueuedOK
    <2> QED
        BY <1>5, <2>1, <2>2, QueuedFrame
<1>14. \A c \in Caller : LoadOK(c)' /\ WaitOK(c)' /\ AnswerOK(c)'
    <2> TAKE c \in Caller
    <2>1. CASE c # s
        <3>1. LoadOK(c)'
            BY <1>1, <1>5, <1>7, <2>1, LoadFrame
        <3>2. WaitOK(c)'
            BY <1>1, <1>5, <1>7, <2>1, WaitFrame
        <3>3. AnswerOK(c)'
            BY <1>1, <1>5, AnswerFrame
        <3> QED
            BY <3>1, <3>2, <3>3
    <2>2. CASE c = s
        BY <1>1, <1>2, <2>2 DEF LoadOK, WaitOK, AnswerOK
    <2> QED
        BY <2>1, <2>2
<1>15. Quiet'
    <2>1. \A t \in Tx : co[t].at \in Active \cup {"staged"} => Coord(t) # s
        BY <1>0 DEF Quiet
    <2>2. \A t \in Tx : Coord(t) \in Server
        BY ActorFacts
    <2>3. \A t \in Tx : co'[t].at \in {"staged", "prepare"} => ~rec'[Coord(t)].on /\ snap'[Coord(t)] = None
        BY <1>0, <1>1, <1>7, <2>1, <2>2 DEF Quiet, Active
    <2>4. \A t \in Tx : co'[t].at \in Active \cup {"staged"} => status'[Coord(t)] = "serving"
        BY <1>0, <1>1, <1>8, <2>1, <2>2 DEF Quiet
    <2>5. \A q \in Server : (q \notin Crasher => status'[q] = "serving") /\ (status'[q] = "down" => ~rec'[q].on)
        BY <1>0, <1>2, <1>7, <1>8 DEF Quiet
    <2> QED
        BY <1>0, <1>1, <2>3, <2>4, <2>5 DEF Quiet
<1> QED
    BY <1>9, <1>10, <1>11, <1>12, <1>13, <1>14, <1>15 DEF CommitInv

-----------------------------------------------------------------------------
\* A process dies: what it has on disk stays, nothing of it was being applied,
\* and what others wait for is not changed by it.
LEMMA CrashStep ==
    ASSUME CommitInv, ProofHypotheses, NEW s \in Server, Crash(s)
    PROVE  CommitInv'
<1>0. /\ TypeOK /\ Quiet /\ s \in Caller /\ s \notin Tx /\ Home(s) = s /\ s \in Crasher /\ taken[s] = {}
      /\ status \in [Server -> {"down", "starting", "serving"}] /\ calls \subseteq Call
      /\ taken \in [Server -> SUBSET [call : Call, batch : Tx]]
      /\ rec' = [rec EXCEPT ![s] = NoReplay] /\ status' = [status EXCEPT ![s] = "down"]
      /\ taken' = [taken EXCEPT ![s] = {}] /\ calls' = {c \in calls : c.to # s}
    BY ReplayIdle DEF CommitInv, Crash, TypeOK, ProofHypotheses
<1>1. UNCHANGED <<disk, nextId, outcome>>
    BY DEF Crash
<1>2. taken' = taken
    BY <1>0
<1>3. Monotone
    BY <1>1, <1>2, MonotoneFrame DEF disk
<1>4. /\ rec' \in [Server -> [on : BOOLEAN, todo : Seq(Decision), done : SUBSET Tx, failed : BOOLEAN]]
      /\ rec'[s].todo = <<>> /\ rec'[s].done = {} /\ ~rec'[s].on
      /\ \A q \in Server : q # s => rec'[q] = rec[q]
    BY <1>0, ReplayIdle DEF NoReplay
<1>5. /\ status' \in [Server -> {"down", "starting", "serving"}]
      /\ \A q \in Server : q # s => status'[q] = status[q]
    BY <1>0
<1>6. /\ co' \in [Tx -> [at : Active \cup {"staged", "ok", "err", "gone"}, held : Seq(Part)]]
      /\ \A t \in Tx : co'[t] = co[t] \/ co'[t].at = "gone"
      /\ \A t \in Tx : Coord(t) # s => co'[t] = co[t]
      /\ \A t \in Tx : Coord(t) = s => co'[t].at \in {"ok", "err", "gone"}
    <2>1. co \in [Tx -> [at : Active \cup {"staged", "ok", "err", "gone"}, held : Seq(Part)]]
        BY <1>0 DEF TypeOK
    <2>2. co' = [t \in Tx |-> IF Coord(t) = s /\ co[t].at \notin {"ok", "err"}
                              THEN [at |-> "gone", held |-> <<>>] ELSE co[t]]
        BY DEF Crash
    <2>3. [at |-> "gone", held |-> <<>>] \in [at : Active \cup {"staged", "ok", "err", "gone"}, held : Seq(Part)]
        OBVIOUS
    <2> QED
        BY <2>1, <2>2, <2>3
<1>7. /\ wait' \in [Caller -> Call \cup {None}] /\ inbox' \in [Caller -> AnswerRec \cup {None}]
      /\ snap' \in [Caller -> Loaded \cup {None}]
      /\ \A c \in Caller : Home(c) = s => wait'[c] = None /\ inbox'[c] = None /\ snap'[c] = None
      /\ \A c \in Caller : Home(c) # s => wait'[c] = wait[c] /\ inbox'[c] = inbox[c] /\ snap'[c] = snap[c]
    BY <1>0 DEF TypeOK, Crash
<1>8. streams' \in [Tx -> SUBSET Server] /\ faults' \in Nat
    BY <1>0 DEF TypeOK, Crash, Fault
<1>9. TypeOK'
    BY <1>0, <1>1, <1>2, <1>4, <1>5, <1>6, <1>7, <1>8 DEF TypeOK, disk
<1>10. (\A q \in Server : BatchOK(q)') /\ ClearedMeansReached'
    BY <1>1, <1>2, <1>3, BatchFrame, ClearedFrame DEF disk
<1>11. \A q \in Server : LogOK(q)'
    <2> TAKE q \in Server
    <2>1. CASE q # s
        BY <1>1, <1>3, <1>4, <2>1, LogFrame DEF disk
    <2>2. CASE q = s
        <3>1. PICK ds \in Seq(Decision) : ds = decisions[s]
            BY <1>0 DEF TypeOK
        <3>2. Len(ds) <= 1 /\ \A i \in DOMAIN ds : DecisionOK(s, ds[i])'
            BY <1>3, <3>1, DecisionFrame DEF LogOK, CommitInv
        <3> QED
            BY <1>1, <1>4, <2>2, <3>1, <3>2 DEF LogOK, disk
    <2> QED
        BY <2>1, <2>2
<1>12. \A t \in Tx : PhaseOK(t)'
    <2> TAKE t \in Tx
    <2>1. CASE co'[t] = co[t]
        BY <1>1, <1>3, <2>1, PhaseFrame
    <2>2. CASE co'[t].at = "gone"
        BY <2>2 DEF PhaseOK
    <2> QED
        BY <1>6, <2>1, <2>2
<1>13. \A call \in calls' : QueuedOK(call)'
    <2> TAKE call \in calls'
    <2>1. call \in calls /\ call.to \in Server /\ call.to # s
        BY <1>0 DEF Call
    <2> QED
        BY <1>3, <1>5, <2>1, QueuedFrame
<1>14. \A c \in Caller : LoadOK(c)' /\ WaitOK(c)' /\ AnswerOK(c)'
    <2> TAKE c \in Caller
    <2>1. CASE Home(c) # s
        <3>0. /\ c \in Tx => co'[c] = co[c]
              /\ c \in Server => rec'[c] = rec[c]
              /\ wait'[c] = wait[c] /\ inbox'[c] = inbox[c] /\ snap'[c] = snap[c]
            BY <1>4, <1>6, <1>7, <2>1, ActorFacts
        <3>1. LoadOK(c)'
            BY <1>1, <1>3, <3>0, LoadFrame
        <3>2. WaitOK(c)'
            BY <1>3, <3>0, WaitFrame
        <3>3. AnswerOK(c)'
            BY <1>3, <3>0, AnswerFrame
        <3> QED
            BY <3>1, <3>2, <3>3
    <2>2. CASE Home(c) = s
        BY <1>7, <2>2 DEF LoadOK, WaitOK, AnswerOK
    <2> QED
        BY <2>1, <2>2
<1>15. Quiet'
    <2>1. \A t \in Tx : co'[t].at \in Active \cup {"staged"} => Coord(t) # s /\ co'[t] = co[t]
        BY <1>6 DEF Active
    <2>2. \A t \in Tx : /\ Coord(t) \in Server /\ Coord(t) \in Caller /\ t \in Caller
                        /\ Home(t) = Coord(t) /\ Home(Coord(t)) = Coord(t)
        BY ActorFacts DEF Caller
    <2>3. \A t \in Tx : co'[t].at \in {"staged", "prepare"} => ~rec'[Coord(t)].on /\ snap'[Coord(t)] = None
        BY <1>0, <1>4, <1>7, <2>1, <2>2 DEF Quiet, Active
    <2>4. \A t \in Tx : co'[t].at \in Active \cup {"staged"} => status'[Coord(t)] = "serving"
        BY <1>0, <1>5, <2>1, <2>2 DEF Quiet
    <2>5. \A t \in Tx : co'[t].at = "clear" => snap'[t] # None
        BY <1>0, <1>7, <2>1, <2>2 DEF Quiet, Active
    <2>6. \A q \in Server : (q \notin Crasher => status'[q] = "serving") /\ (status'[q] = "down" => ~rec'[q].on)
        BY <1>0, <1>4, <1>5 DEF Quiet
    <2> QED
        BY <2>3, <2>4, <2>5, <2>6 DEF Quiet
<1> QED
    BY <1>9, <1>10, <1>11, <1>12, <1>13, <1>14, <1>15 DEF CommitInv

-----------------------------------------------------------------------------
\* Nothing has happened yet.
LEMMA InitCommit == Init => CommitInv
<1> SUFFICES ASSUME Init PROVE CommitInv
    OBVIOUS
<1>1. TypeOK
    <2>1. /\ [at |-> "staged", held |-> <<>>] \in [at : Active \cup {"staged", "ok", "err", "gone"}, held : Seq(Part)]
          /\ NoReplay \in [on : BOOLEAN, todo : Seq(Decision), done : SUBSET Tx, failed : BOOLEAN]
        BY DEF NoReplay
    <2> QED
        BY <2>1 DEF Init, TypeOK
<1>2. \A t \in Tx : Coord(t) \in Server /\ Coord(t) \in Caller
    BY ActorFacts DEF Caller
<1>3. Quiet
    BY <1>2 DEF Init, Quiet, NoReplay, Active
<1>4. \A s \in Server : BatchOK(s) /\ LogOK(s)
    BY DEF Init, BatchOK, LogOK, NoReplay
<1>5. \A t \in Tx : PhaseOK(t)
    <2>1. \A t \in Tx : Len(Targets(t)) \in Nat
        BY ActorFacts
    <2> QED
        BY <2>1 DEF Init, PhaseOK
<1>6. (\A call \in calls : QueuedOK(call)) /\ \A c \in Caller : LoadOK(c) /\ WaitOK(c) /\ AnswerOK(c)
    BY DEF Init, LoadOK, WaitOK, AnswerOK
<1>7. ClearedMeansReached
    BY DEF Init, ClearedMeansReached
<1> QED
    BY <1>1, <1>3, <1>4, <1>5, <1>6, <1>7 DEF CommitInv

\* A step in which nothing happens.
LEMMA StutterStep ==
    ASSUME CommitInv, UNCHANGED vars
    PROVE  CommitInv'
<1>1. Monotone
    BY MonotoneFrame DEF vars
<1>2. (\A s \in Server : BatchOK(s)' /\ LogOK(s)') /\ ClearedMeansReached'
    BY <1>1, StoresFrame DEF vars
<1>3. (\A t \in Tx : PhaseOK(t)') /\ (\A c \in Caller : LoadOK(c)') /\ Quiet'
    BY <1>1, ThreadsFrame DEF vars
<1>4. (\A call \in calls' : QueuedOK(call)') /\ \A c \in Caller : WaitOK(c)' /\ AnswerOK(c)'
    BY <1>1, QueuedFrame, WaitFrame, AnswerFrame DEF vars
<1>5. TypeOK'
    BY DEF vars, CommitInv, TypeOK
<1> QED
    BY <1>2, <1>3, <1>4, <1>5 DEF CommitInv

\* Every step of a coordinator, a participant, a replay or a caller, and every
\* death of a process, preserves the invariant.
LEMMA CommitInductive ==
    ASSUME CommitInv, ProofHypotheses, [Next]_vars
    PROVE  CommitInv'
<1>1. ASSUME NEW t \in Tx, CommitTx(t) \/ RollbackTx(t) \/ CoordStep(t)
      PROVE  CommitInv'
    BY <1>1, CommitTxStep, EndingSteps, AskPrepareStep, PrepareAnswerStep, DecideStep, AskFinishStep,
       StreamBrokenStep, FinishAnswerStep, ClearLoadStep, ClearSaveStep DEF CoordStep
<1>2. ASSUME NEW s \in Server, ReplayStep(s) \/ Crash(s)
      PROVE  CommitInv'
    BY <1>2, StartReplayStep, OpenStep, AskReplayStep, ReplayUnreachedStep, ReplayAnswerStep,
       ReplayedDecisionStep, ReplayLoadStep, ReplaySaveStep, CrashStep DEF ReplayStep
<1>3. ASSUME NEW call \in calls, Serve(call)
      PROVE  CommitInv'
    BY <1>3, PrepareStep, RefusePrepareStep, TakeToCommitStep, TakeToAbortStep DEF Serve
<1>4. ASSUME NEW s \in Server, NEW b \in taken[s], Execute(s, b)
      PROVE  CommitInv'
    BY <1>4, ExecuteStep
<1>5. ASSUME NEW c \in Caller, LoseCall(c)
      PROVE  CommitInv'
    BY <1>5, LoseCallStep
<1>6. CASE UNCHANGED vars
    BY <1>6, StutterStep
<1> QED
    BY <1>1, <1>2, <1>3, <1>4, <1>5, <1>6 DEF Next

\* The commit protocol keeps what it promised: a commit decision leaves
\* decisions.log only when every participant has applied its batch or is
\* applying it, and OK means applied everywhere.
THEOREM CommitSafety ==
    ASSUME ProofHypotheses
    PROVE  Spec => []CommitInv
<1>1. CommitInv /\ [Next]_vars => CommitInv'
    BY CommitInductive
<1> QED
    BY <1>1, InitCommit, PTL DEF Spec

\* The two promises of a commit, for any number of servers and transactions:
\* to the client by OK, to the coordinator's successor by the record.
THEOREM CommitsHoldTheorem ==
    ASSUME ProofHypotheses
    PROVE  Spec => []CommitsHold
<1>1. CommitInv => CommitsHold
    BY DEF CommitInv, CommitsHold, OkMeansApplied, PhaseOK
<1> QED
    BY <1>1, CommitSafety, PTL

-----------------------------------------------------------------------------
(* AtomicCommit is implemented: each step is one of its steps or none.     *)

\* A step that changes no decision, no record, no reach and no client's
\* answer is none of the abstract protocol.
LEMMA AbstractStutter ==
    ASSUME UNCHANGED <<outcome, decisions>>, \A s \in Server : Reached(s)' = Reached(s),
           \A t \in Tx : (co'[t].at = "ok") <=> (co[t].at = "ok")
    PROVE  UNCHANGED Atomic!absVars
<1>1. [s \in Server |-> Reached(s)]' = [s \in Server |-> Reached(s)]
    OBVIOUS
<1>2. {t \in Tx : OnRecord(t)}' = {t \in Tx : OnRecord(t)}
    BY DEF OnRecord
<1>3. {t \in Tx : co[t].at = "ok"}' = {t \in Tx : co[t].at = "ok"}
    OBVIOUS
<1> QED
    BY <1>1, <1>2, <1>3 DEF Atomic!absVars

\* Taking a batch to commit it is the participant's commit.
LEMMA TakeApplies ==
    ASSUME CommitInv, ProofHypotheses, NEW call \in calls, TakeToCommit(call)
    PROVE  Atomic!ANext \/ UNCHANGED Atomic!absVars
<1>0. TypeOK /\ call \in Call /\ call.kind = "commit" /\ CallOK(call) /\ call.to \in Server /\ call.id \in Nat
    BY DEF CommitInv, TypeOK, TakeToCommit, QueuedOK, Call
<1>1. UNCHANGED <<decisions, applied, outcome, co>>
    BY DEF TakeToCommit
<1>2. CASE call.id \notin DOMAIN prepared[call.to]
    <2>1. taken' = taken
        BY <1>2 DEF TakeToCommit
    <2>2. \A s \in Server : Reached(s)' = Reached(s)
        BY <1>1, <2>1 DEF Reached
    <2> QED
        BY <1>1, <2>2, AbstractStutter
<1>3. CASE call.id \in DOMAIN prepared[call.to]
    <2>1. PICK p \in Server, t \in Tx :
              /\ p = call.to /\ outcome[t] = "commit" /\ p \in Participants(t) /\ prepared[p][call.id] = t
        BY <1>0, <1>3 DEF CallOK, Backed, Mine
    <2>2. taken' = [taken EXCEPT ![p] = @ \cup {[call |-> call, batch |-> t]}]
        BY <1>3, <2>1 DEF TakeToCommit
    <2>3. taken'[p] = taken[p] \cup {[call |-> call, batch |-> t]} /\ \A s \in Server : s # p => taken'[s] = taken[s]
        BY <1>0, <2>2 DEF TypeOK
    <2>4. Reached(p)' = Reached(p) \cup {t} /\ \A s \in Server : s # p => Reached(s)' = Reached(s)
        <3>0. [call |-> call, batch |-> t] \in [call : Call, batch : Tx]
            BY <1>0
        <3>1. PICK b \in [call : Call, batch : Tx] : b = [call |-> call, batch |-> t] /\ b.batch = t
            BY <3>0
        <3>2. taken'[p] = taken[p] \cup {b}
            BY <2>3, <3>1
        <3>3. {c.batch : c \in taken[p] \cup {b}} = {c.batch : c \in taken[p]} \cup {t}
            BY <3>1
        <3>4. \A s \in Server : s # p => Reached(s)' = Reached(s)
            BY <1>1, <2>3 DEF Reached
        <3> QED
            BY <1>1, <3>2, <3>3, <3>4 DEF Reached
    <2>5. CASE t \in Reached(p)
        <3>1. \A s \in Server : Reached(s)' = Reached(s)
            BY <2>4, <2>5
        <3> QED
            BY <1>1, <3>1, AbstractStutter
    <2>6. CASE t \notin Reached(p)
        <3>1. [s \in Server |-> Reached(s)]' = [[s \in Server |-> Reached(s)] EXCEPT ![p] = @ \cup {t}]
            BY <2>4
        <3>2. {u \in Tx : OnRecord(u)}' = {u \in Tx : OnRecord(u)} /\ {u \in Tx : co[u].at = "ok"}' = {u \in Tx : co[u].at = "ok"}
            BY <1>1 DEF OnRecord
        <3>3. Atomic!ApplyAt(t, p)
            BY <1>1, <2>1, <2>6, <3>1, <3>2 DEF Atomic!ApplyAt
        <3> QED
            BY <3>3 DEF Atomic!ANext
    <2> QED
        BY <2>5, <2>6
<1> QED
    BY <1>2, <1>3

\* Recording a decision is deciding.
LEMMA RecordDecides ==
    ASSUME CommitInv, ProofHypotheses, NEW t \in Tx, Decide(t) \/ PrepareAnswer(t)
    PROVE  Atomic!ANext \/ UNCHANGED Atomic!absVars
<1>0. /\ TypeOK /\ co[t].at = "prepare" /\ outcome[t] = "open" /\ Coord(t) \in Server
      /\ decisions \in [Server -> Seq(Decision)] /\ co[t].held \in Seq(Part)
      /\ outcome \in [Tx -> {"open", "commit", "abort"}]
    BY ActorFacts DEF CommitInv, TypeOK, PhaseOK, Decide, PrepareAnswer
<1>1. UNCHANGED <<applied, taken>>
    BY DEF Decide, PrepareAnswer
<1>2. \A s \in Server : Reached(s)' = Reached(s)
    BY <1>1 DEF Reached
<1>3. [s \in Server |-> Reached(s)]' = [s \in Server |-> Reached(s)]
    BY <1>2
<1>4. ASSUME NEW at \in {"err", "commit", "abort"}, Goto(t, at)
      PROVE  \A u \in Tx : (co'[u].at = "ok") <=> (co[u].at = "ok")
    <2>1. at \in Active \cup {"staged", "ok", "err", "gone"}
        BY <1>4 DEF Active
    <2>2. co'[t].at = at /\ \A u \in Tx : u # t => co'[u] = co[u]
        BY <1>0, <1>4, <2>1, GotoFact
    <2> QED
        BY <1>0, <2>2
<1>5. ASSUME NEW d \in {"commit", "abort"}, Record(Coord(t), t, d)
      PROVE  /\ \A u \in Tx : u # t => (OnRecord(u)' <=> OnRecord(u))
             /\ d = "commit" => OnRecord(t)'
             /\ d = "abort" => (OnRecord(t)' <=> OnRecord(t))
    <2>1. PICK r \in Decision, s \in Server :
              /\ s = Coord(t) /\ r.tx = t /\ r.decision = d
              /\ decisions' = [decisions EXCEPT ![s] = Append(@, r)]
        <3>1. [tx |-> t, decision |-> d, parts |-> co[t].held] \in Decision
            BY <1>0 DEF Decision
        <3> QED
            BY <1>0, <1>5, <3>1 DEF Record, Held
    <2>2. PICK ds \in Seq(Decision) : ds = decisions[s]
        BY <1>0
    <2>3. decisions'[s] = Append(ds, r) /\ \A q \in Server : q # s => decisions'[q] = decisions[q]
        BY <1>0, <2>1, <2>2
    <2>4. /\ DOMAIN Append(ds, r) = DOMAIN ds \cup {Len(ds) + 1} /\ Append(ds, r)[Len(ds) + 1] = r
          /\ \A i \in DOMAIN ds : Append(ds, r)[i] = ds[i]
        BY <2>2
    <2>5. \A u \in Tx : u # t => Coord(u) \in Server /\ Coord(u) # s
        BY <2>1, ActorFacts DEF ProofHypotheses, OneTxEach
    <2>6. \A u \in Tx : u # t => (OnRecord(u)' <=> OnRecord(u))
        BY <2>3, <2>5 DEF OnRecord
    <2>7. OnRecord(t)' <=> (OnRecord(t) \/ d = "commit")
        <3>1. OnRecord(t) <=> \E i \in DOMAIN ds : ds[i].tx = t /\ ds[i].decision = "commit"
            BY <2>1, <2>2 DEF OnRecord
        <3>2. OnRecord(t)' <=> \E i \in DOMAIN Append(ds, r) :
                                  Append(ds, r)[i].tx = t /\ Append(ds, r)[i].decision = "commit"
            BY <2>1, <2>3 DEF OnRecord
        <3> QED
            BY <2>1, <2>4, <3>1, <3>2
    <2> QED
        BY <2>6, <2>7
<1>6. CASE Decide(t)
    <2>1. /\ Record(Coord(t), t, "commit") /\ Goto(t, "commit")
          /\ outcome' = [outcome EXCEPT ![t] = "commit"]
        BY <1>6 DEF Decide
    <2>2. {u \in Tx : OnRecord(u)}' = {u \in Tx : OnRecord(u)} \cup {t}
        BY <1>5, <2>1
    <2>3. {u \in Tx : co[u].at = "ok"}' = {u \in Tx : co[u].at = "ok"}
        BY <1>4, <2>1
    <2>4. Atomic!DecideCommit(t)
        BY <1>0, <1>3, <2>1, <2>2, <2>3 DEF Atomic!DecideCommit
    <2> QED
        BY <2>4 DEF Atomic!ANext
<1>7. CASE PrepareAnswer(t) /\ inbox[t].res # "ok" /\ Held(t) # <<>>
    <2>1. /\ Record(Coord(t), t, "abort") /\ Goto(t, "abort")
          /\ outcome' = [outcome EXCEPT ![t] = "abort"]
        BY <1>7 DEF PrepareAnswer
    <2>2. {u \in Tx : OnRecord(u)}' = {u \in Tx : OnRecord(u)}
        BY <1>5, <2>1
    <2>3. {u \in Tx : co[u].at = "ok"}' = {u \in Tx : co[u].at = "ok"}
        BY <1>4, <2>1
    <2>4. Atomic!DecideAbort(t)
        BY <1>0, <1>3, <2>1, <2>2, <2>3 DEF Atomic!DecideAbort
    <2> QED
        BY <2>4 DEF Atomic!ANext
<1>8. CASE PrepareAnswer(t) /\ inbox[t].res # "ok" /\ Held(t) = <<>>
    <2>1. Goto(t, "err") /\ UNCHANGED <<decisions, outcome>>
        BY <1>8 DEF PrepareAnswer
    <2>2. \A u \in Tx : (co'[u].at = "ok") <=> (co[u].at = "ok")
        BY <1>4, <2>1
    <2> QED
        BY <1>2, <2>1, <2>2, AbstractStutter
<1>9. CASE PrepareAnswer(t) /\ inbox[t].res = "ok"
    <2>1. /\ UNCHANGED <<decisions, outcome>>
          /\ co' = [co EXCEPT ![t].held = Append(@, [at |-> wait[t].to, id |-> inbox[t].id])]
        BY <1>9 DEF PrepareAnswer
    <2>2. \A u \in Tx : co'[u].at = co[u].at
        BY <1>0, <2>1 DEF TypeOK
    <2> QED
        BY <1>2, <2>1, <2>2, AbstractStutter
<1> QED
    BY <1>6, <1>7, <1>8, <1>9

\* Writing the log back forgets decisions that have reached all participants.
LEMMA RewriteForgets ==
    ASSUME CommitInv, NEW s \in Server, NEW c \in Caller, Home(c) = s, snap[c] # None, Rewrite(s, c)
    PROVE  /\ \A t \in Tx : Coord(t) # s => (OnRecord(t)' <=> OnRecord(t))
           /\ \A t \in Tx : OnRecord(t)' => OnRecord(t)
           /\ \A t \in Tx : OnRecord(t) /\ ~OnRecord(t)' => ReachedAll(t)
<1>0. /\ LoadOK(c) /\ LogOK(s) /\ decisions \in [Server -> Seq(Decision)] /\ snap[c] \in Loaded
    BY DEF CommitInv, TypeOK
<1>1. CASE ~snap[c].write
    <2>1. decisions' = decisions
        BY <1>1 DEF Rewrite
    <2> QED
        BY <2>1 DEF OnRecord
<1>2. CASE snap[c].write
    <2>1. LoadedOK(s, snap[c]) /\ snap[c].keep = <<>>
        BY <1>0, <1>2 DEF LoadOK, LoadedOK
    <2>2. decisions'[s] = <<>> /\ \A q \in Server : q # s => decisions'[q] = decisions[q]
        BY <1>0, <1>2, <2>1 DEF Rewrite
    <2>3. \A t \in Tx : Coord(t) # s => (OnRecord(t)' <=> OnRecord(t))
        BY <2>2, ActorFacts DEF OnRecord
    <2>4. \A t \in Tx : Coord(t) = s => ~OnRecord(t)'
        BY <2>2 DEF OnRecord
    <2>5. ASSUME NEW t \in Tx, Coord(t) = s, OnRecord(t)
          PROVE  ReachedAll(t)
        <3>1. PICK i \in DOMAIN decisions[s] : decisions[s][i].tx = t /\ decisions[s][i].decision = "commit"
            BY <2>5 DEF OnRecord
        <3>2. outcome[t] = "commit"
            BY <1>0, <3>1 DEF LogOK, DecisionOK
        <3> QED
            BY <2>1, <2>5, <3>2 DEF LoadedOK
    <2> QED
        BY <2>3, <2>4, <2>5
<1> QED
    BY <1>1, <1>2

\* Clearing the decision answers the client.
LEMMA ClearAnswers ==
    ASSUME CommitInv, ProofHypotheses, NEW t \in Tx, ClearSave(t)
    PROVE  Atomic!ANext
<1>0. /\ TypeOK /\ Quiet /\ t \in Caller /\ Home(t) = Coord(t) /\ Coord(t) \in Server /\ PhaseOK(t)
      /\ co[t].at = "clear" /\ Rewrite(Coord(t), t) /\ Goto(t, "ok")
    BY IdleFact DEF CommitInv, ClearSave
<1>1. UNCHANGED <<applied, taken, outcome>>
    BY DEF ClearSave
<1>2. snap[t] # None /\ outcome[t] = "commit" /\ AppliedEverywhere(t)
    BY <1>0 DEF Quiet, PhaseOK
<1>3. [s \in Server |-> Reached(s)]' = [s \in Server |-> Reached(s)]
    BY <1>1 DEF Reached
<1>4. co'[t].at = "ok" /\ \A u \in Tx : u # t => co'[u] = co[u]
    BY <1>0, GotoFact
<1>5. {u \in Tx : co[u].at = "ok"}' = {u \in Tx : co[u].at = "ok"} \cup {t}
    BY <1>4
<1>6. /\ \A u \in Tx : Coord(u) # Coord(t) => (OnRecord(u)' <=> OnRecord(u))
      /\ \A u \in Tx : OnRecord(u)' => OnRecord(u)
    BY <1>0, <1>2, RewriteForgets
<1>7. \A u \in Tx : u # t => (OnRecord(u)' <=> OnRecord(u))
    BY <1>6 DEF ProofHypotheses, OneTxEach
<1>8. {u \in Tx : OnRecord(u)}' \in {{u \in Tx : OnRecord(u)}, {u \in Tx : OnRecord(u)} \ {t}}
    <2>1. CASE OnRecord(t)'
        <3>1. {u \in Tx : OnRecord(u)}' = {u \in Tx : OnRecord(u)}
            BY <1>6, <1>7, <2>1
        <3> QED
            BY <3>1
    <2>2. CASE ~OnRecord(t)'
        <3>1. {u \in Tx : OnRecord(u)}' = {u \in Tx : OnRecord(u)} \ {t}
            BY <1>7, <2>2
        <3> QED
            BY <3>1
    <2> QED
        BY <2>1, <2>2
<1>9. Atomic!AppliedEverywhere(t)
    <2>1. \A p \in Participants(t) : p \in Server /\ t \in Reached(p)
        BY <1>2, ActorFacts DEF AppliedEverywhere, Reached
    <2> QED
        BY <2>1 DEF Atomic!AppliedEverywhere
<1>10. Atomic!Answer(t)
    BY <1>1, <1>2, <1>3, <1>5, <1>8, <1>9 DEF Atomic!Answer
<1> QED
    BY <1>10 DEF Atomic!ANext

\* Replay forgets the decisions it has seen through.
LEMMA ReplayForgets ==
    ASSUME CommitInv, NEW s \in Server, ReplaySave(s)
    PROVE  Atomic!ANext \/ UNCHANGED Atomic!absVars
<1>0. s \in Caller /\ Home(s) = s /\ snap[s] # None /\ Rewrite(s, s)
    BY ReplayIdle DEF ReplaySave
<1>1. UNCHANGED <<applied, taken, outcome, co>>
    BY DEF ReplaySave
<1>2. [q \in Server |-> Reached(q)]' = [q \in Server |-> Reached(q)]
    BY <1>1 DEF Reached
<1>3. {u \in Tx : co[u].at = "ok"}' = {u \in Tx : co[u].at = "ok"}
    BY <1>1
<1>4. /\ \A t \in Tx : OnRecord(t)' => OnRecord(t)
      /\ \A t \in Tx : OnRecord(t) /\ ~OnRecord(t)' => ReachedAll(t)
    BY <1>0, RewriteForgets
<1>5. PICK S \in SUBSET Tx : S = {t \in Tx : OnRecord(t) /\ ~OnRecord(t)'}
    OBVIOUS
<1>6. {u \in Tx : OnRecord(u)}' = {u \in Tx : OnRecord(u)} \ S
    BY <1>4, <1>5
<1>7. CASE S = {}
    BY <1>1, <1>2, <1>3, <1>6, <1>7 DEF Atomic!absVars
<1>8. CASE S # {}
    <2>1. \A t \in S : Atomic!AppliedEverywhere(t)
        BY <1>4, <1>5, ActorFacts DEF Atomic!AppliedEverywhere, ReachedAll
    <2>2. S \subseteq {u \in Tx : OnRecord(u)}
        BY <1>5
    <2>3. Atomic!Forget(S)
        BY <1>1, <1>2, <1>3, <1>6, <1>8, <2>1, <2>2 DEF Atomic!Forget
    <2> QED
        BY <2>3 DEF Atomic!ANext
<1> QED
    BY <1>7, <1>8

\* The other steps of a coordinator tell its client nothing.
LEMMA CoordStutters ==
    ASSUME CommitInv, ProofHypotheses, NEW t \in Tx,
           CommitTx(t) \/ RollbackTx(t) \/ AskPrepare(t) \/ PrepareUnreached(t) \/ AskFinish(t)
             \/ StreamBroken(t) \/ FinishAnswer(t) \/ AbortDone(t) \/ ClearLoad(t)
    PROVE  UNCHANGED Atomic!absVars
<1>0. TypeOK
    BY DEF CommitInv
<1>1. UNCHANGED <<outcome, decisions, applied, taken>>
    BY DEF CommitTx, RollbackTx, AskPrepare, PrepareUnreached, AskFinish, StreamBroken, FinishAnswer,
           AbortDone, ClearLoad, disk
<1>2. \A s \in Server : Reached(s)' = Reached(s)
    BY <1>1 DEF Reached
<1>3. \A u \in Tx : (co'[u].at = "ok") <=> (co[u].at = "ok")
    <2>1. CASE AskPrepare(t) \/ AskFinish(t)
        BY <2>1 DEF AskPrepare, AskFinish
    <2>2. ASSUME NEW at \in {"prepare", "err", "clear"}, Goto(t, at), co[t].at # "ok"
          PROVE  \A u \in Tx : (co'[u].at = "ok") <=> (co[u].at = "ok")
        <3>1. at \in Active \cup {"staged", "ok", "err", "gone"}
            BY <2>2 DEF Active
        <3>2. co'[t].at = at /\ \A u \in Tx : u # t => co'[u] = co[u]
            BY <1>0, <2>2, <3>1, GotoFact
        <3> QED
            BY <2>2, <3>2
    <2>3. CASE CommitTx(t) \/ RollbackTx(t) \/ PrepareUnreached(t) \/ AbortDone(t) \/ ClearLoad(t)
        BY <2>2, <2>3 DEF CommitTx, RollbackTx, PrepareUnreached, Preparing, AbortDone, ClearLoad
    <2>4. ASSUME NEW ok \in BOOLEAN, NextHeld(t, ok), co[t].at \in {"commit", "abort"}, co[t].held # <<>>
          PROVE  \A u \in Tx : (co'[u].at = "ok") <=> (co[u].at = "ok")
        <3>1. co'[t].at # "ok" /\ \A u \in Tx : u # t => co'[u] = co[u]
            BY <1>0, <2>4, NextHeldFact
        <3> QED
            BY <2>4, <3>1
    <2>5. CASE StreamBroken(t)
        BY <2>4, <2>5 DEF StreamBroken, Finishing, Held
    <2>6. CASE FinishAnswer(t)
        <3>1. co[t].held # <<>> /\ co[t].at \in {"commit", "abort"}
            <4>1. co[t].at \in {"commit", "abort"} /\ inbox[t] # None
                BY <2>6 DEF FinishAnswer, Answered
            <4> QED
                BY <4>1, IdleFact
        <3>2. PICK ok \in BOOLEAN : ok = (inbox[t].res = "ok")
            OBVIOUS
        <3>3. NextHeld(t, ok)
            BY <2>6, <3>2 DEF FinishAnswer
        <3> QED
            BY <2>4, <3>1, <3>3
    <2> QED
        BY <2>1, <2>3, <2>5, <2>6
<1> QED
    BY <1>1, <1>2, <1>3, AbstractStutter

\* The other steps of servers and callers decide nothing and reach nobody.
LEMMA ServerStutters ==
    ASSUME CommitInv, ProofHypotheses, NEW s \in Server,
           StartReplay(s) \/ Open(s) \/ AskReplay(s) \/ ReplayUnreached(s) \/ ReplayAnswer(s)
             \/ ReplayedDecision(s) \/ ReplayLoad(s)
    PROVE  UNCHANGED Atomic!absVars
<1>1. UNCHANGED <<outcome, decisions, applied, taken, co>>
    BY DEF StartReplay, Open, AskReplay, ReplayUnreached, ReplayAnswer, ReplayedDecision, ReplayLoad, disk
<1>2. \A q \in Server : Reached(q)' = Reached(q)
    BY <1>1 DEF Reached
<1> QED
    BY <1>1, <1>2, AbstractStutter

\* A death takes nothing back: no batch was between take and apply, and a
\* client that was told OK stays told.
LEMMA CrashStutters ==
    ASSUME CommitInv, ProofHypotheses, NEW s \in Server, Crash(s)
    PROVE  UNCHANGED Atomic!absVars
<1>1. UNCHANGED <<outcome, decisions, applied>> /\ taken' = taken
    <2>1. taken[s] = {} /\ taken \in [Server -> SUBSET [call : Call, batch : Tx]]
        BY DEF Crash, CommitInv, TypeOK, ProofHypotheses
    <2> QED
        BY <2>1 DEF Crash, disk
<1>2. \A q \in Server : Reached(q)' = Reached(q)
    BY <1>1 DEF Reached
<1>3. \A u \in Tx : (co'[u].at = "ok") <=> (co[u].at = "ok")
    BY DEF Crash
<1> QED
    BY <1>1, <1>2, <1>3, AbstractStutter

\* A batch that is applied was reached when it was taken; a prepared, refused
\* or aborted batch reaches nobody, nor does a lost call.
LEMMA ParticipantStutters ==
    ASSUME CommitInv, ProofHypotheses,
           \/ \E call \in calls : Prepare(call) \/ RefusePrepare(call) \/ TakeToAbort(call)
           \/ \E s \in Server : \E b \in taken[s] : Execute(s, b)
           \/ \E c \in Caller : LoseCall(c)
    PROVE  UNCHANGED Atomic!absVars
<1>1. CASE \E s \in Server : \E b \in taken[s] : Execute(s, b)
    <2>1. PICK s \in Server : \E b \in taken[s] : Execute(s, b)
        BY <1>1
    <2>2. PICK b \in taken[s] : Execute(s, b)
        BY <2>1
    <2>3. /\ applied' = [applied EXCEPT ![s] = @ \cup {b.batch}] /\ taken' = [taken EXCEPT ![s] = @ \ {b}]
          /\ UNCHANGED <<outcome, decisions, co>>
        BY <2>2 DEF Execute, ProofHypotheses
    <2>4. /\ applied'[s] = applied[s] \cup {b.batch} /\ taken'[s] = taken[s] \ {b}
          /\ \A r \in Server : r # s => applied'[r] = applied[r] /\ taken'[r] = taken[r]
        BY <2>3 DEF CommitInv, TypeOK
    <2>5. \A r \in Server : Reached(r)' = Reached(r)
        <3> TAKE r \in Server
        <3>1. CASE r # s
            BY <2>4, <3>1 DEF Reached
        <3>2. CASE r = s
            BY <2>2, <2>4, <3>2 DEF Reached
        <3> QED
            BY <3>1, <3>2
    <2> QED
        BY <2>3, <2>5, AbstractStutter
<1>2. CASE \/ \E call \in calls : Prepare(call) \/ RefusePrepare(call) \/ TakeToAbort(call)
           \/ \E c \in Caller : LoseCall(c)
    <2>1. UNCHANGED <<outcome, decisions, applied, taken, co>>
        BY <1>2 DEF Prepare, RefusePrepare, TakeToAbort, LoseCall, disk
    <2>2. \A q \in Server : Reached(q)' = Reached(q)
        BY <2>1 DEF Reached
    <2> QED
        BY <2>1, <2>2, AbstractStutter
<1> QED
    BY <1>1, <1>2

\* Each step of the protocol is a step of AtomicCommit or leaves it alone.
LEMMA StepImplements ==
    ASSUME CommitInv, ProofHypotheses, [Next]_vars
    PROVE  [Atomic!ANext]_(Atomic!absVars)
<1>1. ASSUME NEW t \in Tx, CommitTx(t) \/ RollbackTx(t) \/ CoordStep(t)
      PROVE  Atomic!ANext \/ UNCHANGED Atomic!absVars
    BY <1>1, CoordStutters, RecordDecides, ClearAnswers DEF CoordStep
<1>2. ASSUME NEW s \in Server, ReplayStep(s) \/ Crash(s)
      PROVE  Atomic!ANext \/ UNCHANGED Atomic!absVars
    BY <1>2, ServerStutters, ReplayForgets, CrashStutters DEF ReplayStep
<1>3. ASSUME NEW call \in calls, Serve(call)
      PROVE  Atomic!ANext \/ UNCHANGED Atomic!absVars
    BY <1>3, TakeApplies, ParticipantStutters DEF Serve
<1>4. ASSUME \/ \E s \in Server : \E b \in taken[s] : Execute(s, b)
             \/ \E c \in Caller : LoseCall(c)
      PROVE  Atomic!ANext \/ UNCHANGED Atomic!absVars
    BY <1>4, ParticipantStutters
<1>5. CASE UNCHANGED vars
    <2>1. \A s \in Server : Reached(s)' = Reached(s)
        BY <1>5 DEF vars, Reached
    <2> QED
        BY <1>5, <2>1, AbstractStutter DEF vars
<1> QED
    BY <1>1, <1>2, <1>3, <1>4, <1>5 DEF Next

\* Nothing is decided, recorded, applied or answered at first.
LEMMA InitImplements == Init => Atomic!AInit
<1> SUFFICES ASSUME Init PROVE Atomic!AInit
    OBVIOUS
<1>1. \A s \in Server : Reached(s) = {}
    BY DEF Init, Reached
<1>2. [s \in Server |-> Reached(s)] = [s \in Server |-> {}]
    BY <1>1
<1>3. {t \in Tx : OnRecord(t)} = {}
    BY ActorFacts DEF Init, OnRecord
<1>4. {t \in Tx : co[t].at = "ok"} = {}
    BY DEF Init
<1> QED
    BY <1>2, <1>3, <1>4 DEF Init, Atomic!AInit

\* The commit of a read-write transaction is atomic: one decision, made once,
\* no batch committed before a commit decision, OK and the removal of the
\* record only when every participant has its batch, through lost answers,
\* late calls, retries by replay and deaths of servers.
THEOREM ImplementsAtomicCommitTheorem ==
    ASSUME ProofHypotheses
    PROVE  Spec => ImplementsAtomicCommit
<1>1. CommitInv /\ [Next]_vars => [Atomic!ANext]_(Atomic!absVars)
    BY StepImplements
<1> QED
    BY <1>1, InitImplements, CommitSafety, PTL DEF Spec, ImplementsAtomicCommit, Atomic!ASpec
=============================================================================
