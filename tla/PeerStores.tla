----------------------------- MODULE PeerStores -----------------------------
(***************************************************************************)
(* The four peer tables of one server: the query peers, the gossip nodes,  *)
(* the replication peers and the identities the replication peers gave in  *)
(* their hello.  Each table is a map behind a mutex with a file of its     *)
(* own; a change takes the mutex, edits the map, copies it, gives the      *)
(* mutex back and only then writes the copy to the file.  A request edits  *)
(* several tables one after the other, so requests of two workers and the  *)
(* gossip thread interleave between any two of those steps.                *)
(*                                                                         *)
(* Remote servers announce themselves with a number that grows; the        *)
(* network may lose, repeat and reorder the announcements.                 *)
(***************************************************************************)
EXTENDS Naturals, Sequences, FiniteSets

CONSTANTS
    PsServer,       \* server ids, positive numbers
    PsLocal,        \* the id of this server
    PsAddr,         \* addresses, strings
    PsWorker,       \* threads that may run a request
    PsConf,         \* instances explored: which requests, kills, token
    MaxMembership,  \* bound on the membership version
    MaxClock        \* bound on the millisecond clock

PsRequest == {"gossip", "refresh", "negotiate", "query", "peer"}

ASSUME PsAssumption ==
    /\ PsServer \subseteq Nat \ {0} /\ IsFiniteSet(PsServer) /\ PsLocal \in PsServer
    /\ PsAddr # {}
    /\ MaxMembership \in Nat \ {0} /\ MaxClock \in Nat
    /\ PsConf \subseteq [ops : SUBSET PsRequest, peers : SUBSET PsServer, workers : Nat,
                        kills : Nat, token : BOOLEAN, ttl : Nat]
    /\ \A c \in PsConf : 1..c.workers \subseteq PsWorker

VARIABLES
    psConf,         \* the instance: requests, workers, kills, token, ttl, peers
    psMem,          \* the tables in memory and the endpoints of the database
    psDisk,         \* the four files
    psWork,         \* worker -> what is left of its request
    psNet,          \* announcements on the network
    psMember,       \* version and nodes of the cluster membership
    psClock,        \* the clock, in units of the gossip interval
    psHeard         \* history: announcements this server has processed

psVars == <<psConf, psMem, psDisk, psWork, psNet, psMember, psClock, psHeard>>

None == "none"

-----------------------------------------------------------------------------
(* The tables.                                                             *)

NoNode == [addr |-> None, inc |-> 0, ttl |-> 0, seen |-> 0]

NoIdentity == [addr |-> None, node |-> 0]

\* A file is the set of its lines: one for each entry.  The column of a node id
\* is <<n>> for the digits of n, and <<>> for the "-" of an identity without one.
SavePeerStore(peers) == {<<s, peers[s]>> : s \in {t \in PsServer : peers[t] # None}}

LoadPeerStore(lines) ==
    [s \in PsServer |-> IF \E l \in lines : l[1] = s
                       THEN (CHOOSE l \in lines : l[1] = s)[2] ELSE None]

EncodeGossipNode(s, r) == <<s, r.addr, r.inc, r.ttl, r.seen>>

DecodeGossipNode(l) == [addr |-> l[2], inc |-> l[3], ttl |-> l[4], seen |-> l[5]]

SaveGossipNodes(nodes) ==
    {EncodeGossipNode(s, nodes[s]) : s \in {t \in PsServer : nodes[t] # NoNode}}

LoadGossipNodes(lines) ==
    [s \in PsServer |-> IF \E l \in lines : l[1] = s
                       THEN DecodeGossipNode(CHOOSE l \in lines : l[1] = s) ELSE NoNode]

EncodeIdentity(s, i) == <<s, i.addr, IF i.node = 0 THEN <<>> ELSE <<i.node>>>>

DecodeIdentity(l) == [addr |-> l[2], node |-> IF l[3] = <<>> THEN 0 ELSE l[3][1]]

SaveIdentities(identities) ==
    {EncodeIdentity(s, identities[s]) : s \in {t \in PsServer : identities[t] # NoIdentity}}

LoadIdentities(lines) ==
    [s \in PsServer |-> IF \E l \in lines : l[1] = s
                       THEN DecodeIdentity(CHOOSE l \in lines : l[1] = s) ELSE NoIdentity]

EmptyFiles == [query |-> {}, gossip |-> {}, repl |-> {}, ident |-> {}]

Lines(file, table) ==
    CASE file = "gossip" -> SaveGossipNodes(table)
      [] file = "ident" -> SaveIdentities(table)
      [] OTHER -> SavePeerStore(table)

\* The endpoints the database sends to, as they are registered at open: one
\* for each replication peer in the file, at the address its identity gives.
EndpointsAtOpen(stores) ==
    [s \in PsServer |->
        IF stores.repl[s] = None THEN None
        ELSE IF stores.ident[s] = NoIdentity THEN stores.repl[s]
        ELSE stores.ident[s].addr]

OpenPeerStores(files) ==
    LET stores == [query |-> LoadPeerStore(files.query), gossip |-> LoadGossipNodes(files.gossip),
                   repl |-> LoadPeerStore(files.repl), ident |-> LoadIdentities(files.ident)]
    IN  [query |-> stores.query, gossip |-> stores.gossip, repl |-> stores.repl,
         ident |-> stores.ident, endpoint |-> EndpointsAtOpen(stores)]

IsAliveAt(record, now) == record.ttl = 0 \/ now - record.seen <= record.ttl

SupersedesMutant(record, old) == TRUE

\* upsert keeps a record unless a newer incarnation is already there.
Supersedes(record, old) == old = NoNode \/ record.inc >= old.inc

\* The walk of would_create_cycle: from node along the node ids on record,
\* until a server repeats or the chain ends.  After as many steps as there
\* are servers the walk has either ended or repeated.
ChainEnd(ident, start, node) ==
    LET walk[n \in 0..Cardinality(PsServer)] ==
            IF n = 0 THEN [seen |-> {start}, at |-> node]
            ELSE LET w == walk[n - 1] IN
                 IF w.at = 0 \/ w.at \in w.seen THEN w
                 ELSE [seen |-> w.seen \cup {w.at}, at |-> ident[w.at].node]
    IN  walk[Cardinality(PsServer)].at

WouldCreateCycleMutant(ident, s, node) ==
    node # 0 /\ node # s /\ ChainEnd(ident, PsLocal, node) # 0

WouldCreateCycle(ident, s, node) ==
    node # 0 /\ node # s /\ ChainEnd(ident, s, node) # 0

ValidateIdentity(s, node) == s # PsLocal /\ node # PsLocal

-----------------------------------------------------------------------------
(* A worker: the steps its request still has to take, and the copy of a    *)
(* table it has yet to write.                                              *)

NoWork == [todo |-> <<>>, file |-> None, copy |-> 0]

Put(file, s, value) == [do |-> "put", file |-> file, server |-> s, value |-> value]

Upsert(s, record) == [do |-> "upsert", file |-> "gossip", server |-> s, value |-> record]

Endpoint(s, addr) == [do |-> "endpoint", file |-> None, server |-> s, value |-> addr]

Negotiate(s, addr) == [do |-> "hello", file |-> None, server |-> s, value |-> addr]

Idle(w) == psWork[w] = NoWork

NextIs(w, do) == psWork[w].file = None /\ psWork[w].todo # <<>> /\ Head(psWork[w].todo).do = do

PeerRequest(w, steps) ==
    /\ Idle(w)
    /\ psWork' = [psWork EXCEPT ![w].todo = steps]

\* Edit one table under its mutex, keeping the copy that will be saved.
Edit(w, file, table, rest) ==
    /\ psMem' = [psMem EXCEPT ![file] = table]
    /\ psWork' = [psWork EXCEPT ![w] = [todo |-> rest, file |-> file, copy |-> table]]

\* register and unregister of the peer and identity tables.
PutStep(w) ==
    /\ NextIs(w, "put")
    /\ LET op == Head(psWork[w].todo) IN
       Edit(w, op.file, [psMem[op.file] EXCEPT ![op.server] = op.value], Tail(psWork[w].todo))
    /\ UNCHANGED <<psConf, psDisk, psNet, psMember, psClock, psHeard>>

\* upsert of the gossip table; an accepted record then goes to the query
\* peers, a refused one changes nothing and writes nothing.
UpsertStep(w) ==
    /\ NextIs(w, "upsert")
    /\ LET op == Head(psWork[w].todo)
           rest == Tail(psWork[w].todo)
       IN  /\ psHeard' = psHeard \cup {[server |-> op.server, inc |-> op.value.inc, addr |-> op.value.addr]}
           /\ IF Supersedes(op.value, psMem.gossip[op.server])
              THEN Edit(w, "gossip", [psMem.gossip EXCEPT ![op.server] = op.value],
                        <<Put("query", op.server, op.value.addr)>> \o rest)
              ELSE /\ psWork' = [psWork EXCEPT ![w].todo = rest]
                   /\ UNCHANGED psMem
    /\ UNCHANGED <<psConf, psDisk, psNet, psMember, psClock>>

\* The copy replaces the file (temporary file, sync, rename).
SaveStep(w) ==
    /\ psWork[w].file # None
    /\ psDisk' = [psDisk EXCEPT ![psWork[w].file] = Lines(psWork[w].file, psWork[w].copy)]
    /\ psWork' = [psWork EXCEPT ![w].file = None, ![w].copy = 0]
    /\ UNCHANGED <<psConf, psMem, psNet, psMember, psClock, psHeard>>

EndpointStep(w) ==
    /\ NextIs(w, "endpoint")
    /\ LET op == Head(psWork[w].todo) IN
       psMem' = [psMem EXCEPT !.endpoint[op.server] = op.value]
    /\ psWork' = [psWork EXCEPT ![w].todo = Tail(@)]
    /\ UNCHANGED <<psConf, psDisk, psNet, psMember, psClock, psHeard>>

RegisterSteps(s, addr, node) ==
    <<Endpoint(s, addr), Put("repl", s, addr), Put("ident", s, [addr |-> addr, node |-> node])>>

\* One negotiation: the server that answers the hello gives its own id as
\* both its server id and its node id.  No answer, and the answer of another
\* server, end it; either way the other candidates of a gossip negotiation
\* follow.  psConf.peers are the other servers of the routing table.
HelloStep(w) ==
    /\ NextIs(w, "hello")
    /\ LET op == Head(psWork[w].todo)
           rest == Tail(psWork[w].todo)
       IN  \/ psWork' = [psWork EXCEPT ![w].todo = rest]
           \/ /\ op.server \in psConf.peers
              /\ ValidateIdentity(op.server, op.server)
              /\ ~WouldCreateCycle(psMem.ident, op.server, op.server)
              /\ psWork' = [psWork EXCEPT ![w].todo = RegisterSteps(op.server, op.value, op.server) \o rest]
    /\ UNCHANGED <<psConf, psMem, psDisk, psNet, psMember, psClock, psHeard>>

-----------------------------------------------------------------------------
(* Gossip.                                                                 *)

\* The ids of a table in the order a map is walked.
InOrder(ids) ==
    {order \in [1..Cardinality(ids) -> ids] :
        \A i, j \in 1..Cardinality(ids) : i < j => order[i] < order[j]}

GossipedStates == {"negotiating", "joining", "active", "draining", "leaving"}

\* A remote server sends its record to this one; its number is the larger of
\* the membership version and the clock, so it grows from one round to the
\* next.  A clock in milliseconds is beyond every membership version.  A server
\* that does not hold the cluster's token sends a wrong one.
Announce(s, addr, token) ==
    /\ "gossip" \in psConf.ops
    /\ s # PsLocal
    /\ LET inc == IF psMember.version > psClock THEN psMember.version ELSE psClock IN
       /\ \A m \in psNet : m.server = s => m.inc < inc
       /\ psNet' = psNet \cup {[server |-> s, addr |-> addr, inc |-> inc, token |-> token]}
    /\ UNCHANGED <<psConf, psMem, psDisk, psWork, psMember, psClock, psHeard>>

ValidServerToken(m) == ~psConf.token \/ m.token

\* apply_gossip_node: a delivery, maybe late, maybe a repetition.
ApplyGossipNode(w, m) ==
    /\ ValidServerToken(m)
    /\ PeerRequest(w, <<Upsert(m.server, [addr |-> m.addr, inc |-> m.inc, ttl |-> psConf.ttl, seen |-> psClock])>>)
    /\ UNCHANGED <<psConf, psMem, psDisk, psNet, psMember, psClock, psHeard>>

\* fanout_gossip_once, the part that concerns this server: its own record.
FanoutGossipOnce(w, addr) ==
    /\ "gossip" \in psConf.ops
    /\ PeerRequest(w, <<Upsert(PsLocal, [addr |-> addr, inc |-> psClock, ttl |-> psConf.ttl, seen |-> psClock])>>)
    /\ psMem.gossip[PsLocal].inc < psClock
    /\ UNCHANGED <<psConf, psMem, psDisk, psNet, psMember, psClock, psHeard>>

RefreshGossipFromMembership(w) ==
    /\ "refresh" \in psConf.ops
    /\ \E nodes \in InOrder({s \in PsServer : psMember.state[s] \in GossipedStates}) :
         PeerRequest(w, [i \in DOMAIN nodes |->
             Upsert(nodes[i], [addr |-> psMember.addr[nodes[i]], inc |-> psMember.version,
                               ttl |-> 1, seen |-> psClock])])
    /\ UNCHANGED <<psConf, psMem, psDisk, psNet, psMember, psClock, psHeard>>

\* The membership changes under the gossip: a node gets a new address or a
\* new state, and the version grows.
ChangeMembership(s, addr, state) ==
    /\ "refresh" \in psConf.ops
    /\ psMember.version < MaxMembership
    /\ psMember' = [version |-> psMember.version + 1,
                    addr |-> [psMember.addr EXCEPT ![s] = addr],
                    state |-> [psMember.state EXCEPT ![s] = state]]
    /\ UNCHANGED <<psConf, psMem, psDisk, psWork, psNet, psClock, psHeard>>

NegotiateGossipReplicationPeers(w) ==
    /\ "negotiate" \in psConf.ops
    /\ \E nodes \in InOrder({s \in PsServer \ {PsLocal} :
                        /\ psMem.gossip[s] # NoNode
                        /\ IsAliveAt(psMem.gossip[s], psClock)
                        /\ psMem.repl[s] = None}) :
           /\ nodes # <<>>
           /\ PeerRequest(w, [i \in DOMAIN nodes |-> Negotiate(nodes[i], psMem.gossip[nodes[i]].addr)])
    /\ UNCHANGED <<psConf, psMem, psDisk, psNet, psMember, psClock, psHeard>>

Tick ==
    /\ psClock < MaxClock
    /\ psClock' = psClock + 1
    /\ UNCHANGED <<psConf, psMem, psDisk, psWork, psNet, psMember, psHeard>>

-----------------------------------------------------------------------------
(* Requests of an administrator.                                           *)

RegisterQueryPeer(w, s, addr) ==
    /\ "query" \in psConf.ops
    /\ PeerRequest(w, <<Put("query", s, addr)>>)
    /\ UNCHANGED <<psConf, psMem, psDisk, psNet, psMember, psClock, psHeard>>

UnregisterQueryPeer(w, s) ==
    /\ "query" \in psConf.ops
    /\ psMem.query[s] # None
    /\ PeerRequest(w, <<Put("query", s, None)>>)
    /\ UNCHANGED <<psConf, psMem, psDisk, psNet, psMember, psClock, psHeard>>

RegisterReplicationPeerEndpoint(w, s, addr, node) ==
    /\ "peer" \in psConf.ops
    /\ ValidateIdentity(s, node)
    /\ ~WouldCreateCycle(psMem.ident, s, node)
    /\ PeerRequest(w, RegisterSteps(s, addr, node))
    /\ UNCHANGED <<psConf, psMem, psDisk, psNet, psMember, psClock, psHeard>>

NegotiateReplicationPeer(w, s, addr) ==
    /\ "peer" \in psConf.ops
    /\ s # PsLocal
    /\ PeerRequest(w, <<Negotiate(s, addr)>>)
    /\ UNCHANGED <<psConf, psMem, psDisk, psNet, psMember, psClock, psHeard>>

UnregisterReplicationPeer(w, s) ==
    /\ "peer" \in psConf.ops
    /\ psMem.repl[s] # None
    /\ PeerRequest(w, <<Endpoint(s, None), Put("repl", s, None), Put("ident", s, NoIdentity)>>)
    /\ UNCHANGED <<psConf, psMem, psDisk, psNet, psMember, psClock, psHeard>>

\* The process is killed and opened again from its files.
ReopenPeerStores ==
    /\ psConf.kills > 0
    /\ psConf' = [psConf EXCEPT !.kills = @ - 1]
    /\ psMem' = OpenPeerStores(psDisk)
    /\ psWork' = [w \in PsWorker |-> NoWork]
    /\ UNCHANGED <<psDisk, psNet, psMember, psClock, psHeard>>

-----------------------------------------------------------------------------

PeerInit ==
    /\ psConf \in PsConf
    /\ psMem = OpenPeerStores(EmptyFiles)
    /\ psDisk = EmptyFiles
    /\ psWork = [w \in PsWorker |-> NoWork]
    /\ psNet = {}
    /\ psMember = [version |-> 1, addr |-> [s \in PsServer |-> CHOOSE a \in PsAddr : TRUE],
                   state |-> [s \in PsServer |-> "active"]]
    /\ psClock = MaxMembership + 1
    /\ psHeard = {}

PeerNext ==
    \/ \E s \in psConf.peers, a \in PsAddr, t \in {TRUE, ~psConf.token} : Announce(s, a, t)
    \/ \E s \in psConf.peers, a \in PsAddr, st \in {"active", "removed"} : ChangeMembership(s, a, st)
    \/ Tick
    \/ ReopenPeerStores
    \/ \E w \in 1..psConf.workers :
         \/ \E m \in psNet : ApplyGossipNode(w, m)
         \/ FanoutGossipOnce(w, CHOOSE a \in PsAddr : TRUE)
         \/ RefreshGossipFromMembership(w)
         \/ NegotiateGossipReplicationPeers(w)
         \/ \E s \in psConf.peers, a \in PsAddr :
              \/ RegisterQueryPeer(w, s, a)
              \/ NegotiateReplicationPeer(w, s, a)
              \/ \E node \in {0} \cup PsServer : RegisterReplicationPeerEndpoint(w, s, a, node)
         \/ \E s \in psConf.peers : UnregisterQueryPeer(w, s) \/ UnregisterReplicationPeer(w, s)
         \/ PutStep(w) \/ UpsertStep(w) \/ SaveStep(w) \/ EndpointStep(w) \/ HelloStep(w)

PeerSpec == PeerInit /\ [][PeerNext]_psVars

-----------------------------------------------------------------------------
(* Properties.                                                             *)

Quiet == \A w \in PsWorker : Idle(w)

\* However late, repeated or reordered the announcements of a server arrive,
\* and whatever a refresh from the membership adds between them, queries are
\* sent to the address of its newest announcement processed so far, and an
\* announcement with a wrong token never gets there.
QueriesGoToNewest ==
    Quiet =>
        \A m \in psHeard :
            (\A n \in psHeard : n.server = m.server => n.inc <= m.inc)
                => psMem.query[m.server] = m.addr

\* The node ids the replication peers registered with never form a loop of
\* two or more servers, in memory or in what a restart would load.
NoIdentityCycle ==
    \A stores \in {psMem.ident, LoadIdentities(psDisk.ident)} : \A s \in PsServer :
        LET next == stores[s].node IN
        next # 0 /\ next # s =>
            LET hop[n \in 0..Cardinality(PsServer)] ==
                    IF n = 0 THEN {next}
                    ELSE hop[n - 1] \cup {stores[t].node : t \in hop[n - 1] \ {0}}
            IN  s \notin hop[Cardinality(PsServer)]

=============================================================================
