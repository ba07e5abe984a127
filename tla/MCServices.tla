----------------------------- MODULE MCServices -----------------------------
(***************************************************************************)
(* The parts through which servers and clients talk, each explored by      *)
(* itself: peer tables and gossip, static-primary proposals and replication*)
(* channels, replication streams, native sessions, the client with the     *)
(* text protocol, and reads over all shards.  A behaviour belongs to one   *)
(* of them; the others keep their initial state, so the state spaces add.  *)
(***************************************************************************)
EXTENDS PeerStores, Channels, MCReplicationStream, MCNativeSessions, MCNativeClient,
        DistributedRead

VARIABLE svPart

svVars == <<svPart, psVars, chVars, rqVars, nsVars, ncVars, drVars>>

-----------------------------------------------------------------------------
PsSetting(ops, peers, workers, kills, token, ttl) ==
    [ops |-> ops, peers |-> peers, workers |-> workers, kills |-> kills, token |-> token,
     ttl |-> ttl]
PsQueryPeers == PsSetting({"query"}, {2}, 1, 1, FALSE, 1)
const_PsConf ==
    {PsQueryPeers,
     PsSetting({"gossip", "refresh"}, {2}, 1, 0, FALSE, 1),
     PsSetting({"gossip"}, {2}, 1, 0, TRUE, 0),
     PsSetting({"gossip", "negotiate"}, {2}, 1, 0, FALSE, 1),
     PsSetting({"peer"}, {2, 3}, 1, 1, FALSE, 1)}

\* A host with one RDMA device, and a peer whose name resolves twice.
ChRdma ==
    [devices |-> 1, rping |-> TRUE, port |-> 7174,
     address |-> [host |-> "b", port |-> 0, v6 |-> TRUE, brackets |-> FALSE],
     resolved |-> <<[host |-> "b", port |-> 1], [host |-> "b", port |-> 7174]>>]
ChSetting(preferred, offered, needs, attempts, faulty, ops) ==
    [rdma |-> ChRdma, threads |-> IF faulty > 0 THEN {1} ELSE {1, 2}, pieces |-> 1,
     preferred |-> preferred, offered |-> offered, needs |-> needs, attempts |-> attempts,
     faults |-> faulty, ops |-> ops, used |-> {}]
ChUnconnected == ChSetting(<<"udp">>, {"udp"}, ReliableStream, 1, 0, {"propose"})
const_ChConf ==
    {ChUnconnected,
     ChSetting(<<"tcp">>, {"tcp", "udp"}, ReliableStream, 2, 1, {"propose"}),
     ChSetting(<<"udp", "rdma">>, {"rdma", "udp"}, ReliableStream, 3, 2, {"propose", "heartbeat"}),
     [ChSetting(<<"rdma">>, {"rdma"}, ReliableStream, 2, 0, {"propose"}) EXCEPT !.rdma.devices = 0],
     ChSetting(<<"udp">>, {"udp"}, NegotiateOnly, 1, 0, {"append", "vote", "preVote", "snapshot"}),
     ChSetting(<<"udp">>, {"udp"}, NegotiateOnly, 1, 0, {"propose"})}

\* Server 1 reads three shards, of which it holds the first.
DrSetting ==
    [path |-> "gather", rows |-> <<1, 2, 1>>, staged |-> {}, prefer |-> "primary",
     primary |-> <<1, 2, 3>>, replicas |-> <<<<3>>, <<3>>, <<2>>>>, peers |-> {2, 3},
     held |-> <<{1}, {2, 3}, {1, 2, 3}>>, faults |-> {"open"}, limit |-> 9]
const_DrConf ==
    {DrSetting,
     [DrSetting EXCEPT !.path = "cursor", !.prefer = "replica"],
     [DrSetting EXCEPT !.path = "tx"],
     [DrSetting EXCEPT !.path = "staged", !.staged = {1, 2}],
     [DrSetting EXCEPT !.prefer = "replica", !.peers = {2}, !.held[2] = {2}],
     [DrSetting EXCEPT !.path = "cursor", !.limit = 4]}

-----------------------------------------------------------------------------
ServicesInit ==
    /\ svPart \in {"peers", "channels", "stream", "sessions", "client", "read"}
    /\ PeerInit
    /\ ChannelInit
    /\ StreamInit
    /\ SessionsInit
    /\ NcInit
    /\ ReadInit
    /\ svPart # "peers" => psConf = PsQueryPeers
    /\ svPart # "channels" => chConf = ChUnconnected
    /\ svPart # "stream" => rqConf.resnapshot # <<>>
    /\ svPart # "sessions" => nsConf.breaks = 1
    /\ svPart # "client" => ncConf.redirects
    /\ svPart # "read" => drConf = DrSetting

ServicesNext ==
    /\ UNCHANGED svPart
    /\ \/ /\ svPart = "peers" /\ PeerNext
          /\ UNCHANGED <<chVars, rqVars, nsVars, ncVars, drVars>>
       \/ /\ svPart = "channels" /\ ChannelNext
          /\ UNCHANGED <<psVars, rqVars, nsVars, ncVars, drVars>>
       \/ /\ svPart = "stream" /\ StreamNext
          /\ UNCHANGED <<psVars, chVars, nsVars, ncVars, drVars>>
       \/ /\ svPart = "sessions" /\ SessionsNext
          /\ UNCHANGED <<psVars, chVars, rqVars, ncVars, drVars>>
       \/ /\ svPart = "client" /\ NcNext
          /\ UNCHANGED <<psVars, chVars, rqVars, nsVars, drVars>>
       \/ /\ svPart = "read" /\ ReadNext
          /\ UNCHANGED <<psVars, chVars, rqVars, nsVars, ncVars>>

ServicesSpec == ServicesInit /\ [][ServicesNext]_svVars
=============================================================================
