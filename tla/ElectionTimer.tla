--------------------------- MODULE ElectionTimer ---------------------------
(***************************************************************************)
(* The background thread that main/runtime.rs starts beside every Raft     *)
(* database: every 250 ms it sends the server's commit indexes to all      *)
(* peers as heartbeats, and every eighth time it runs an election round if *)
(* the shard has not heard from a leader for the election timeout.  The    *)
(* module counts time in those 250 ms intervals and keeps of RaftCore only *)
(* what a heartbeat or an election changes; all logs are equal.            *)
(***************************************************************************)
EXTENDS Integers, FiniteSets

CONSTANTS Server, Primary, None,
          Timeout,      \* election timeout, in intervals (1500 ms and more: 6)
          Period,       \* election rounds run every Period intervals (8)
          MaxCrashes    \* servers that may stop for good

VARIABLES up,       \* up[s]: s is running
          role, term, vote,
          contact,  \* contact[s]: intervals since leader_contacts was set; None if never
          ticks,    \* ticks[s] modulo Period
          ticked    \* servers whose thread has run in this interval

vars == <<up, role, term, vote, contact, ticks, ticked>>

Init ==
    /\ up = [s \in Server |-> TRUE]
    /\ role = [s \in Server |-> IF s = Primary THEN "Leader" ELSE "Follower"]
    /\ term = [s \in Server |-> IF s = Primary THEN 1 ELSE 0]
    /\ vote = [s \in Server |-> IF s = Primary THEN s ELSE None]
    /\ contact = [s \in Server |-> None]
    /\ ticks = [s \in Server |-> 0]
    /\ ticked = {}

\* should_start_election, after this server's heartbeats went out.
Due(s) == role[s] # "Leader" /\ (contact[s] = None \/ contact[s] >= Timeout)

Majority(S) == 2 * Cardinality(S) > Cardinality(Server)

\* pre_vote and request_vote answered by the peers that are up.
PreVoters(s) == {p \in Server : up[p] /\ term[s] + 1 >= term[p]}
Voters(s) ==
    {p \in Server : /\ up[p]
                    /\ \/ p = s
                       \/ term[p] < term[s] + 1
                       \/ term[p] = term[s] + 1 /\ vote[p] \in {None, s}}

\* A peer takes a heartbeat as a leader's append in the peer's own term,
\* whoever sent it: it becomes follower and notes a leader contact.
HearsFrom(s, p) == up[p] /\ p # s

Elects(s) == Due(s) /\ ticks[s] + 1 = Period /\ Majority(PreVoters(s))

\* One turn of the thread.
Tick(s) ==
    /\ up[s] /\ s \notin ticked
    /\ ticked' = ticked \cup {s}
    /\ ticks' = [ticks EXCEPT ![s] = (@ + 1) % Period]
    /\ contact' = [p \in Server |-> IF HearsFrom(s, p) THEN 0 ELSE contact[p]]
    /\ role' = [p \in Server |->
                  IF p = s /\ Elects(s)
                  THEN IF Majority(Voters(s)) THEN "Leader" ELSE "Candidate"
                  ELSE IF HearsFrom(s, p) THEN "Follower" ELSE role[p]]
    /\ IF Elects(s)
       THEN /\ term' = [p \in Server |-> IF p = s \/ (up[p] /\ term[p] < term[s] + 1)
                                         THEN term[s] + 1 ELSE term[p]]
            /\ vote' = [p \in Server |-> IF p \in Voters(s) THEN s ELSE vote[p]]
       ELSE UNCHANGED <<term, vote>>
    /\ UNCHANGED up

\* 250 ms pass once every running thread had its turn.
Interval ==
    /\ {s \in Server : up[s]} \subseteq ticked
    /\ ticked' = {}
    /\ contact' = [s \in Server |->
                     IF contact[s] = None \/ contact[s] > Timeout THEN contact[s]
                     ELSE contact[s] + 1]
    /\ UNCHANGED <<up, role, term, vote, ticks>>

\* A server stops and stays down; a majority stays up.
Crash(s) ==
    /\ up[s] /\ Cardinality({p \in Server : ~up[p]}) < MaxCrashes
    /\ Majority({p \in Server \ {s} : up[p]})
    /\ up' = [up EXCEPT ![s] = FALSE]
    /\ UNCHANGED <<role, term, vote, contact, ticks, ticked>>

Next == Interval \/ \E s \in Server : Tick(s) \/ Crash(s)

\* The threads never stop and time passes; a crash need not happen.
Fairness == WF_vars(Interval) /\ \A s \in Server : WF_vars(Tick(s))

Spec == Init /\ [][Next]_vars /\ Fairness

Led == \E s \in Server : up[s] /\ role[s] = "Leader"

\* A shard that a majority of its servers can reach does not stay without a
\* leader: a running server becomes its write authority.
LeaderReturns == ~Led ~> Led
=============================================================================
