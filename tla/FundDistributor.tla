-------------------------- MODULE FundDistributor --------------------------
(***************************************************************************)
(* contracts/src/merkle/MerkleFundDistributor.sol: rounds of funds paid    *)
(* out pro rata to the leaves of the root a snapshot held when each round  *)
(* was funded.                                                             *)
(*                                                                         *)
(* Every action is one transaction (ReentrancyGuard on the three that move *)
(* money).  A root is its tree: the set of <<account, value>> leaves and   *)
(* the total value reported beside it; a Merkle proof is membership.  The  *)
(* snapshot is external and may report any tree, a wrong one included.     *)
(* Every round of a token draws on the one balance the distributor holds.  *)
(***************************************************************************)
EXTENDS Integers, Sequences, FiniteSets, Functions

CONSTANTS
    Accounts,           \* leaves of the trees
    Funders,
    Recipients,         \* who may be named the fee recipient
    Snapshots,
    Trees,              \* what a snapshot may report: [leaves, total]
    NoTree,             \* a snapshot that holds no state yet
    Tokens, Taxed,      \* Taxed: tokens that keep TransferTax of a transfer
    TransferTax,
    Amounts,            \* what a funder may send
    Windows,            \* seconds a funder may leave for claims; 0: no deadline
    FeeCaps,            \* maxFeeAmount a funder may pass
    FEE_RANGE, FEE_INCREASE_DELAY,
    Deployments,        \* <<feePercentage, allowlistEnabled>> of the constructor
    MaxTime,            \* bound: last second
    MaxRounds,          \* bound: rounds funded
    MaxOwnerActs        \* bound: calls the owner makes, unpause() apart

ASSUME DistributorAssumption ==
    /\ FEE_RANGE \in Nat \ {0} /\ FEE_INCREASE_DELAY \in Nat
    /\ TransferTax \in Nat /\ Taxed \subseteq Tokens
    /\ Amounts \subseteq Nat /\ FeeCaps \subseteq Nat /\ Windows \subseteq Nat
    /\ \A a \in Amounts : TransferTax <= a
    /\ \A t \in Trees : /\ t.leaves \subseteq Accounts \X Nat
                        /\ IsFiniteSet(t.leaves)
                        /\ t.total \in Nat
    /\ NoTree \notin Trees
    /\ Deployments \subseteq (0..FEE_RANGE) \X BOOLEAN
    /\ MaxTime \in Nat /\ MaxRounds \in Nat /\ MaxOwnerActs \in Nat

VARIABLES
    merkleSnapshot, latest,             \* the snapshot named, and what each reports
    feeRecipient, feePercentage,
    pendingFeePercentage, pendingFeeEffectiveAt,    \* 0: no increase scheduled
    allowlistEnabled, allowlist,
    distributions,                      \* the rounds, in order
    claimed,                            \* claimed[i][a]: paid to a in round i
    paused, pauseStartedAt, totalPausedDuration,
    balance,                            \* what the distributor holds of each token
    now,
    ownerActs,
    openSeconds,                        \* history: seconds spent unpaused
    noticed                             \* history: since when each rate up to the
                                        \* highest in force or announced has been so

snapshotVars == <<merkleSnapshot, latest>>
feeVars      == <<feeRecipient, feePercentage, pendingFeePercentage,
                  pendingFeeEffectiveAt, noticed>>
allowVars    == <<allowlistEnabled, allowlist>>
roundVars    == <<distributions, claimed, balance>>
pauseVars    == <<paused, pauseStartedAt, totalPausedDuration>>
clockVars    == <<now, openSeconds>>
vars == <<snapshotVars, feeVars, allowVars, roundVars, pauseVars, clockVars,
          ownerActs>>

Rates == 0..FEE_RANGE

(***************************************************************************)
(* What the contract computes.                                             *)
(***************************************************************************)
MulDiv(a, b, c) == (a * b) \div c

FeeOf(amount) == MulDiv(amount, feePercentage, FEE_RANGE)

\* what a transfer of amount adds to the balance
Arrives(token, amount) ==
    IF token \in Taxed THEN amount - TransferTax ELSE amount

\* Faulty variant: books the whole amount of a transfer that kept a part of it.
FundedAsAsked(token, amount) == amount

\* what a round books: msg.value, or the measured change of the balance
Funded(token, amount) == Arrives(token, amount)

TotalDistributable(d) == d.amountFunded - d.feeAmount

RemainingBudget(d) ==
    IF d.amountDistributed >= TotalDistributable(d) THEN 0
    ELSE TotalDistributable(d) - d.amountDistributed

\* the pause in progress included
PausedSoFar == totalPausedDuration + (IF paused THEN now - pauseStartedAt ELSE 0)

EffectiveClaimDeadline(d) == d.claimDeadline + PausedSoFar - d.pausedDuration

ClaimsOpen(d) == d.claimDeadline = 0 \/ now <= EffectiveClaimDeadline(d)

SweepOpen(d) == d.claimDeadline # 0 /\ now > EffectiveClaimDeadline(d)

Share(d, value) == MulDiv(TotalDistributable(d), value, d.tree.total)

(***************************************************************************)
(* Init: the constructor; no snapshot has reported yet.                    *)
(***************************************************************************)
HigherOf(a, b) == IF a >= b THEN a ELSE b

Init ==
    /\ merkleSnapshot \in Snapshots
    /\ latest = [s \in Snapshots |-> NoTree]
    /\ feeRecipient \in Recipients
    /\ \E d \in Deployments : feePercentage = d[1] /\ allowlistEnabled = d[2]
    /\ pendingFeePercentage = 0
    /\ pendingFeeEffectiveAt = 0
    /\ allowlist = {}
    /\ distributions = <<>>
    /\ claimed = <<>>
    /\ paused = FALSE
    /\ pauseStartedAt = 0
    /\ totalPausedDuration = 0
    /\ balance = [t \in Tokens |-> 0]
    /\ now = 1
    /\ ownerActs = 0
    /\ openSeconds = 0
    /\ noticed = [p \in 0..feePercentage |-> 1 - FEE_INCREASE_DELAY]

(***************************************************************************)
(* The owner.                                                              *)
(***************************************************************************)
OwnerActs == ownerActs < MaxOwnerActs /\ ownerActs' = ownerActs + 1

\* the rates in force or announced after the step
Announced ==
    noticed' = [p \in 0..HigherOf(feePercentage', pendingFeePercentage') |->
                   IF p \in DOMAIN noticed THEN noticed[p] ELSE now]

LowerFee(p) ==
    /\ p <= feePercentage
    /\ pendingFeePercentage' = 0
    /\ pendingFeeEffectiveAt' = 0
    /\ feePercentage' = p

\* Faulty variant: an increase announced over a scheduled one inherits its date.
ScheduleFeeIncreaseEarly(p) ==
    /\ p > feePercentage
    /\ pendingFeePercentage' = p
    /\ pendingFeeEffectiveAt' = IF pendingFeeEffectiveAt # 0
                                 THEN pendingFeeEffectiveAt
                                 ELSE now + FEE_INCREASE_DELAY
    /\ UNCHANGED feePercentage

ScheduleFeeIncrease(p) ==
    /\ p > feePercentage
    /\ pendingFeePercentage' = p
    /\ pendingFeeEffectiveAt' = now + FEE_INCREASE_DELAY
    /\ UNCHANGED feePercentage

SetFeePercentage(p) ==
    /\ OwnerActs
    /\ p <= FEE_RANGE
    /\ LowerFee(p) \/ ScheduleFeeIncrease(p)
    /\ Announced
    /\ UNCHANGED <<feeRecipient, snapshotVars, allowVars, roundVars, pauseVars,
                   clockVars>>

\* anyone's
ApplyFeePercentageIncrease ==
    /\ pendingFeeEffectiveAt # 0
    /\ now >= pendingFeeEffectiveAt
    /\ feePercentage' = pendingFeePercentage
    /\ pendingFeePercentage' = 0
    /\ pendingFeeEffectiveAt' = 0
    /\ Announced
    /\ UNCHANGED <<feeRecipient, snapshotVars, allowVars, roundVars, pauseVars,
                   clockVars, ownerActs>>

SetFeeRecipient(r) ==
    /\ OwnerActs
    /\ feeRecipient' = r
    /\ UNCHANGED <<feePercentage, pendingFeePercentage, pendingFeeEffectiveAt,
                   noticed, snapshotVars, allowVars, roundVars, pauseVars,
                   clockVars>>

SetMerkleSnapshot(s) ==
    /\ OwnerActs
    /\ merkleSnapshot' = s
    /\ UNCHANGED <<latest, feeVars, allowVars, roundVars, pauseVars, clockVars>>

SetAllowlistEnabled(enabled) ==
    /\ OwnerActs
    /\ allowlistEnabled' = enabled
    /\ UNCHANGED <<allowlist, snapshotVars, feeVars, roundVars, pauseVars,
                   clockVars>>

UpdateDistributorAllowance(f, canDistribute) ==
    /\ OwnerActs
    /\ allowlist' = IF canDistribute THEN allowlist \cup {f} ELSE allowlist \ {f}
    /\ UNCHANGED <<allowlistEnabled, snapshotVars, feeVars, roundVars, pauseVars,
                   clockVars>>

Pause ==
    /\ OwnerActs
    /\ ~paused
    /\ paused' = TRUE
    /\ pauseStartedAt' = now
    /\ UNCHANGED <<totalPausedDuration, snapshotVars, feeVars, allowVars,
                   roundVars, clockVars>>

Unpause ==
    /\ paused
    /\ paused' = FALSE
    /\ totalPausedDuration' = totalPausedDuration + (now - pauseStartedAt)
    /\ pauseStartedAt' = 0
    /\ UNCHANGED <<snapshotVars, feeVars, allowVars, roundVars, clockVars,
                   ownerActs>>

(***************************************************************************)
(* Rounds.                                                                 *)
(***************************************************************************)
\* Faulty variant: a round funded after a pause is given the pause as well.
NewRoundNoBaseline(f, tree, token, funded, window) ==
    [tree              |-> tree,
     distributor       |-> f,
     token             |-> token,
     amountFunded      |-> funded,
     amountDistributed |-> 0,
     feeAmount         |-> FeeOf(funded),
     timestamp         |-> now,
     claimDeadline     |-> IF window = 0 THEN 0 ELSE now + window,
     sweptAmount       |-> 0,
     pausedDuration    |-> 0,
     openedAt          |-> openSeconds]

\* the round distribute() books once the funds are in
NewRound(f, tree, token, funded, window) ==
    [tree              |-> tree,
     distributor       |-> f,
     token             |-> token,
     amountFunded      |-> funded,
     amountDistributed |-> 0,
     feeAmount         |-> FeeOf(funded),
     timestamp         |-> now,
     claimDeadline     |-> IF window = 0 THEN 0 ELSE now + window,
     sweptAmount       |-> 0,
     pausedDuration    |-> totalPausedDuration,
     openedAt          |-> openSeconds]     \* history

\* window is claimDeadline - block.timestamp: a deadline not in the future reverts
Distribute(f, tree, token, amount, window, maxFeeAmount, expectedFeeRecipient) ==
    LET funded == Funded(token, amount)
    IN  /\ Len(distributions) < MaxRounds
        /\ allowlistEnabled => f \in allowlist
        /\ ~paused
        /\ feeRecipient = expectedFeeRecipient
        /\ FeeOf(amount) <= maxFeeAmount
        /\ latest[merkleSnapshot] = tree
        /\ tree # NoTree /\ tree.leaves # {} /\ tree.total # 0
        /\ distributions' =
              Append(distributions, NewRound(f, tree, token, funded, window))
        /\ claimed' = Append(claimed, [a \in Accounts |-> 0])
        /\ balance' = [balance EXCEPT ![token] = @ + Arrives(token, amount) - FeeOf(funded)]
        /\ UNCHANGED <<snapshotVars, feeVars, allowVars, pauseVars, clockVars,
                       ownerActs>>

\* Faulty variant: a leaf may collect more than once.
ClaimRepeatedly(i, leaf) ==
    LET d       == distributions[i]
        account == leaf[1]
        amount  == Share(d, leaf[2])
    IN  /\ ~paused
        /\ ClaimsOpen(d)
        /\ leaf \in d.tree.leaves
        /\ amount # 0
        /\ amount <= RemainingBudget(d)
        /\ claimed' = [claimed EXCEPT ![i][account] = amount]
        /\ distributions' = [distributions EXCEPT ![i].amountDistributed = @ + amount]
        /\ balance' = [balance EXCEPT ![d.token] = @ - amount]
        /\ UNCHANGED <<snapshotVars, feeVars, allowVars, pauseVars, clockVars,
                       ownerActs>>

\* anyone's, for the account of the leaf
Claim(i, leaf) ==
    LET d       == distributions[i]
        account == leaf[1]
        amount  == Share(d, leaf[2])
    IN  /\ ~paused
        /\ ClaimsOpen(d)
        /\ claimed[i][account] = 0
        /\ leaf \in d.tree.leaves
        /\ amount # 0
        /\ amount <= RemainingBudget(d)
        /\ claimed' = [claimed EXCEPT ![i][account] = amount]
        /\ distributions' = [distributions EXCEPT ![i].amountDistributed = @ + amount]
        /\ balance' = [balance EXCEPT ![d.token] = @ - amount]
        /\ UNCHANGED <<snapshotVars, feeVars, allowVars, pauseVars, clockVars,
                       ownerActs>>

\* anyone's, to the funder of the round; a pause does not stop it
Sweep(i) ==
    LET d == distributions[i]
    IN  /\ SweepOpen(d)
        /\ d.sweptAmount = 0
        /\ d.amountDistributed < TotalDistributable(d)
        /\ distributions' = [distributions EXCEPT
               ![i].sweptAmount = TotalDistributable(d) - d.amountDistributed]
        /\ balance' = [balance EXCEPT
               ![d.token] = @ - (TotalDistributable(d) - d.amountDistributed)]
        /\ UNCHANGED <<claimed, snapshotVars, feeVars, allowVars, pauseVars,
                       clockVars, ownerActs>>

(***************************************************************************)
(* The world: a snapshot reports a tree, a second passes.                  *)
(***************************************************************************)
Report(s, tree) ==
    /\ latest' = [latest EXCEPT ![s] = tree]
    /\ UNCHANGED <<merkleSnapshot, feeVars, allowVars, roundVars, pauseVars,
                   clockVars, ownerActs>>

TimePasses ==
    /\ now < MaxTime
    /\ now' = now + 1
    /\ openSeconds' = IF paused THEN openSeconds ELSE openSeconds + 1
    /\ UNCHANGED <<snapshotVars, feeVars, allowVars, roundVars, pauseVars,
                   ownerActs>>

Owner ==
    \/ \E p \in Rates : SetFeePercentage(p)
    \/ \E r \in Recipients : SetFeeRecipient(r)
    \/ \E s \in Snapshots : SetMerkleSnapshot(s)
    \/ \E enabled \in BOOLEAN : SetAllowlistEnabled(enabled)
    \/ \E f \in Funders, can \in BOOLEAN : UpdateDistributorAllowance(f, can)
    \/ Pause
    \/ Unpause

Fund ==
    \E f \in Funders, tree \in Trees, token \in Tokens, amount \in Amounts,
       window \in Windows, cap \in FeeCaps, r \in Recipients :
        Distribute(f, tree, token, amount, window, cap, r)

Collect ==
    \E i \in DOMAIN distributions : \E leaf \in distributions[i].tree.leaves :
        Claim(i, leaf)

Next ==
    \/ Owner
    \/ ApplyFeePercentageIncrease
    \/ Fund
    \/ Collect
    \/ \E i \in DOMAIN distributions : Sweep(i)
    \/ \E s \in Snapshots, tree \in Trees : Report(s, tree)
    \/ TimePasses

Spec == Init /\ [][Next]_vars

(***************************************************************************)
(* Properties.                                                             *)
(***************************************************************************)
Owed(d) == TotalDistributable(d) - d.amountDistributed - d.sweptAmount

\* what the rounds of a token owe together
OwedBy(rounds, t) ==
    SumFunctionOnSet([i \in DOMAIN rounds |-> Owed(rounds[i])],
                     {i \in DOMAIN rounds : rounds[i].token = t})

OwedOf(t) == OwedBy(distributions, t)

\* The leaves are one per account and add up to no more than the total.
Honest(tree) ==
    /\ \A l, k \in tree.leaves : l[1] = k[1] => l = k
    /\ SumFunction([l \in tree.leaves |-> l[2]]) <= tree.total

\* The shares of a round nobody has collected yet.
Uncollected(d, paid) == {l \in d.tree.leaves : paid[l[1]] = 0}

OutstandingOf(d, paid) ==
    SumFunctionOnSet([l \in d.tree.leaves |-> Share(d, l[2])], Uncollected(d, paid))

Outstanding(i) == OutstandingOf(distributions[i], claimed[i])

\* What a round's funder promised, and what claimants have had of it.
Promised(d) == d.claimDeadline - d.timestamp
HasBeenOpen(d) == openSeconds - d.openedAt

\* Every round can pay what it still owes without touching what its siblings
\* of the same token owe, whatever tree the snapshot reported and whatever the
\* token kept of the transfer that funded it; no round owes less than nothing.
Solvent ==
    /\ \A i \in DOMAIN distributions : Owed(distributions[i]) >= 0
    /\ \A t \in Tokens : balance[t] >= OwedOf(t)

\* While a round of an honest tree is not swept, every account that has not
\* collected still can in full: no order of claims, and no rounding, lets the
\* budget cap of claim() refuse one of them.
ClaimsFit ==
    \A i \in DOMAIN distributions :
        Honest(distributions[i].tree) /\ distributions[i].sweptAmount = 0
            => Outstanding(i) <= RemainingBudget(distributions[i])

\* A round pays a claim only while it has been open (unpaused) for no longer
\* than its funder promised, and is swept only after: no sequence of pauses,
\* before or after the round was funded, takes a second from the claimants or
\* gives them one, and a claim never follows a sweep.
WindowsKept ==
    [][\A i \in DOMAIN distributions :
          LET d == distributions[i]
              e == distributions'[i]
          IN  /\ e.amountDistributed # d.amountDistributed /\ d.claimDeadline # 0
                     => /\ HasBeenOpen(d) <= Promised(d)
                        /\ d.sweptAmount = 0
              /\ e.sweptAmount # d.sweptAmount
                     => d.claimDeadline # 0 /\ HasBeenOpen(d) > Promised(d)]_vars

\* The fee rate a funder meets has been in force, or announced, for the whole
\* of the last FEE_INCREASE_DELAY: rescheduling, lowering and raising the fee
\* in any order never shortens the notice.
FeeRisesAnnounced ==
    /\ feePercentage \in DOMAIN noticed
    /\ now - noticed[feePercentage] >= FEE_INCREASE_DELAY
=============================================================================
