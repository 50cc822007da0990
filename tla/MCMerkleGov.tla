---------------------------- MODULE MCMerkleGov ----------------------------
(***************************************************************************)
(* Small instances of MerkleGov.  Account m1 outweighs m2 in one tree and  *)
(* is outweighed in the other.  Rushed delegatecalls a target and gives up *)
(* the exit delay.                                                         *)
(***************************************************************************)
EXTENDS MerkleGov, TLC

CONSTANTS m1, m2, r1, r2, t1

MCLeaves == [r \in Roots |-> IF r = r1 THEN {<<m1, 2>>, <<m2, 1>>}
                             ELSE {<<m1, 1>>, <<m2, 3>>}]
\* One member of three units: enough for a quorum of two quarters, not of four.
MCLeavesOne == [r \in Roots |-> {<<m1, 2>>}]
MCTotalValue == [r \in Roots |-> IF r = r1 THEN 3 ELSE 4]

\* Half the power decides; the exit delay is one block.
MCDefaults == [votingDelay |-> 1, votingPeriod |-> 1, quorum |-> 2,
               executionDelay |-> 1]

Quiet == [delegates |-> {}, settings |-> NoChange]
Rushed == [delegates |-> {t1},
           settings |-> [votingDelay |-> 0, votingPeriod |-> 1, quorum |-> 2,
                         executionDelay |-> 0]]
MCQuiet == {Quiet}
MCRushed == {Rushed}
=============================================================================
