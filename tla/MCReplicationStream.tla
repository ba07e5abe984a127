------------------------ MODULE MCReplicationStream ------------------------
(***************************************************************************)
(* Instances of ReplicationStream: every request kind, logs of up to three *)
(* entries on either side, and connections that break once or twice.       *)
(***************************************************************************)
EXTENDS ReplicationStream

RqCommand(i) ==
    IF i % 2 = 1
    THEN [tag |-> 1, args |-> <<i, <<<<4>>>>, {[k |-> <<7>>, v |-> Scalar(ValInt, <<5>>)]}>>]
    ELSE [tag |-> 5, args |-> <<i>>]
RqLog(n) ==
    [i \in 1..n |-> [shard |-> RqShard, term |-> 1, index |-> i, origin |-> 1, config |-> 0,
                     physical |-> 3, logical |-> i, command |-> RqCommand(i)]]
RqSnapshot(x) ==
    [term |-> 2, leader |-> 1, lastTerm |-> 1, lastIndex |-> 3, payload |-> <<x, 1, x>>]

\* Calls, entries of the two logs, cuts, and whether the server's snapshot is
\* replaced while it is fetched.
RqSetting(made, c, s, cuts, replaced) ==
    [calls |-> made, clientLog |-> RqLog(c), serverLog |-> RqLog(s), cuts |-> cuts,
     snapshot |-> <<RqSnapshot(5)>>,
     resnapshot |-> IF replaced THEN <<RqSnapshot(6)>> ELSE <<>>,
     snapshots |-> {RqSnapshot(5), RqSnapshot(6)}]

const_RqConf ==
    {RqSetting({NewCall("replicate", 1, 0, 2), NewCall("append", 2, 0, 2),
                NewCall("append", 3, 0, 1)}, 3, 1, 2, FALSE),
     RqSetting({NewCall("appendOrInstall", 3, 0, 1), NewCall("append", 1, 0, 2)}, 3, 1, 1, FALSE),
     RqSetting({NewCall("appendOrInstall", 3, 0, 1), NewCall("append", 2, 0, 2)}, 3, 0, 1, FALSE),
     RqSetting({NewCall("catchUp", 1, 0, 1), NewCall("catchUp", 2, 2, 1),
                NewCall("catchUp", 1, 1, 1)}, 1, 3, 1, FALSE),
     RqSetting({NewCall(kind, 0, 0, 1) :
                  kind \in {"hello", "vote", "preVote", "transfer", "install"}}, 2, 1, 1, FALSE),
     RqSetting({NewCall("fetchChunks", 0, 0, 1), NewCall("fetch", 0, 0, 1)}, 1, 1, 1, TRUE)}
=============================================================================
