---------------------------- MODULE MCCheckEngine ----------------------------
(* Instances of CheckEngine for TLC.                                       *)
EXTENDS CheckEngine, TLC

CONSTANTS c1, c2, a1

\* Every check of the instance is on one address: with two, parking and arming
\* act on both rows at once.
OneAddress == [c \in Checks |-> a1]

\* The slots of jobs are interchangeable, and so are the dispatchers.
Interchangeable ==
    Permutations(Jobs) \union Permutations(Dispatchers) \union Permutations(Stamps)
=============================================================================
