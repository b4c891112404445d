---------------------------- MODULE MCJobSystem ----------------------------
(* Small pools: which tasks there are, and how they depend on one another. *)
EXTENDS JobSystem

CONSTANTS a, b, c

\* b depends on a; c is submitted by the body of a job.
ChainTasks == {a, b, c}
ChainDeps == [t \in ChainTasks |-> IF t = b THEN <<a>> ELSE <<>>]
NormalPrio == [t \in ChainTasks |-> 1]

\* c depends on a and b, as EnqueueFanIn of a group of two.
FanInDeps == [t \in ChainTasks |-> IF t = c THEN <<a, b>> ELSE <<>>]

\* Independent tasks.
NoDeps == [t \in ChainTasks |-> <<>>]

\* One job of each of three priorities.
MixedPrio == [t \in ChainTasks |-> IF t = a THEN 1 ELSE IF t = b THEN 2 ELSE 3]

PairTasks == {a, b}
PairDeps == [t \in PairTasks |-> <<>>]
PairChainDeps == [t \in PairTasks |-> IF t = b THEN <<a>> ELSE <<>>]
PairPrio == [t \in PairTasks |-> 1]
=============================================================================
