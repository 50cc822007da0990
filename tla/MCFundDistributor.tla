------------------------- MODULE MCFundDistributor -------------------------
(***************************************************************************)
(* The instance TLC checks: two accounts, an honest tree whose shares do   *)
(* not divide evenly and a wrong one whose leaves exceed its total, the    *)
(* native token and one that keeps a unit of each transfer.                *)
(***************************************************************************)
EXTENDS FundDistributor

CONSTANTS a1, a2

HonestTree == [leaves |-> {<<a1, 1>>, <<a2, 2>>}, total |-> 3]
WrongTree  == [leaves |-> {<<a1, 2>>, <<a1, 1>>, <<a2, 2>>}, total |-> 3]

MCAccounts == {a1, a2}
MCTrees    == {HonestTree, WrongTree}

MCDeployments == {<<1, FALSE>>, <<0, TRUE>>}
=============================================================================
