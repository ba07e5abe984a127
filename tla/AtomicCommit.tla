---------------------------- MODULE AtomicCommit ----------------------------
(***************************************************************************)
(* What a read-write transaction over several shards promises: one         *)
(* decision, made once; no participant applies its batch before the        *)
(* decision is to commit; the client hears OK, and the decision is         *)
(* forgotten, only when every participant has applied it.                  *)
(***************************************************************************)
CONSTANTS Tx, Server, Participants(_)   \* Participants(t): the servers t writes to

VARIABLES outcome,   \* outcome[t]: "open", "commit" or "abort"
          kept,      \* kept: transactions whose commit decision is still on record
          applied,   \* applied[s]: transactions whose batch s has applied
          answered   \* answered: transactions whose client was told OK

absVars == <<outcome, kept, applied, answered>>

AppliedEverywhere(t) == \A p \in Participants(t) : t \in applied[p]

AInit ==
    /\ outcome = [t \in Tx |-> "open"]
    /\ applied = [s \in Server |-> {}]
    /\ kept = {} /\ answered = {}

DecideCommit(t) ==
    /\ outcome[t] = "open"
    /\ outcome' = [outcome EXCEPT ![t] = "commit"]
    /\ kept' = kept \cup {t}
    /\ UNCHANGED <<applied, answered>>

DecideAbort(t) ==
    /\ outcome[t] = "open"
    /\ outcome' = [outcome EXCEPT ![t] = "abort"]
    /\ UNCHANGED <<kept, applied, answered>>

ApplyAt(t, p) ==
    /\ outcome[t] = "commit" /\ p \in Participants(t) /\ t \notin applied[p]
    /\ applied' = [applied EXCEPT ![p] = @ \cup {t}]
    /\ UNCHANGED <<outcome, kept, answered>>

\* Records are removed in one rewrite, several at a time.
Forget(S) ==
    /\ S # {} /\ S \subseteq kept /\ \A t \in S : AppliedEverywhere(t)
    /\ kept' = kept \ S
    /\ UNCHANGED <<outcome, applied, answered>>

\* The client's answer goes out with the removal of the record.
Answer(t) ==
    /\ outcome[t] = "commit" /\ AppliedEverywhere(t)
    /\ answered' = answered \cup {t}
    /\ kept' \in {kept, kept \ {t}}
    /\ UNCHANGED <<outcome, applied>>

ANext ==
    \/ \E t \in Tx : DecideCommit(t) \/ DecideAbort(t) \/ Answer(t)
    \/ \E t \in Tx, p \in Server : ApplyAt(t, p)
    \/ \E S \in SUBSET Tx : Forget(S)

ASpec == AInit /\ [][ANext]_absVars
=============================================================================
