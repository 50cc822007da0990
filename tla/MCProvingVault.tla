--------------------------- MODULE MCProvingVault ---------------------------
(***************************************************************************)
(* Small instances of ProvingVault.  Prices are below EthScale, as 8-digit *)
(* prices are below 10^18, and one USDC unit is worth several USD units.   *)
(***************************************************************************)
EXTENDS ProvingVault, TLC

\* The same logs frozen under either of two verifiers, 1 and 2, and grown, 3.
MCSize == [f \in Frozen |-> IF f = 3 THEN 2 ELSE 1]
MCInputs == [f \in Frozen |-> IF f = 2 THEN 1 ELSE f]
MCBandLimits == <<2, 3, 4>>

\* One snapshot in use, and new ones to migrate to.
CONSTANT s1
MCMaxCheckpoints == [s \in Snapshots |-> IF s = s1 THEN 2 ELSE 0]

\* The community account holds the role on every snapshot.
CONSTANT Community1
MCConstitutional == [s \in Snapshots |-> {Community1}]

MCWithdrawals == {<<3, 6>>}
MCFees == {<<1, 3>>, <<0, 9>>}

MCGasLimits == {<<10, 5>>}

Usable(p) == [answer |-> p, age |-> 0]
Future(p) == [answer |-> p, age |-> -1]

MCFeedsRange == {Usable(3), Usable(MaxEthUsd + 1), Future(2)}

=============================================================================
