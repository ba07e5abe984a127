---------------------------- MODULE MCRaftShard ----------------------------
(***************************************************************************)
(* Model-checking instances of RaftShard: three servers, one of them the   *)
(* routing-table primary, and the sets the configurations choose from.     *)
(***************************************************************************)
EXTENDS RaftShard, TLC

CONSTANTS s1, s2, s3, v1, v2

const_Server == {s1, s2, s3}
const_Value == {v1, v2}

\* Whose election timer may fire.
NoServer == {}
OneReplica == {s2}

\* The two replicas are interchangeable, and so are the commands.
ValueSymmetry == Permutations({v1, v2})
Symmetry == Permutations({s2, s3}) \cup ValueSymmetry
=============================================================================
