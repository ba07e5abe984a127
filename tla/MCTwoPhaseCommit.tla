-------------------------- MODULE MCTwoPhaseCommit --------------------------
(***************************************************************************)
(* Two transactions that share the participant c.  The coordinator a of t1 *)
(* has no batch of its own; b is a participant of t1 and coordinates t2.   *)
(***************************************************************************)
EXTENDS TwoPhaseCommit

CONSTANTS a, b, c, t1, t2

const_Coord(t) == IF t = t1 THEN a ELSE b
const_Targets(t) == IF t = t1 THEN <<b, c>> ELSE <<c>>
=============================================================================
