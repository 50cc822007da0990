# A TLA+ model of TrustGraphs

TrustGraphs turns attestations into scores that contracts can use. Attestations
are folded into append-only logs on chain; anyone freezes the logs as a
*checkpoint*; anyone proves, with a zero-knowledge program, which scores follow
from a checkpoint; the proven root is filed on chain, and governance, payouts and
Safe ownership read it. Provers are paid from a vault.

This directory models the on-chain core of that loop, the daemon that drives it and
the off-chain lane by which members' signed vouches reach it, in TLA+. TLC checks it
on small instances; TLAPS proves its central properties for all of them.

## The system

| Part | State | Operations | What is hard |
|---|---|---|---|
| Snapshot lifecycle, `contracts/src/merkle/MerkleSnapshot.sol` | checkpoint pins, applied checkpoint, block-indexed history, provenance, schedule | `trigger`, `submitProof`, seven knobs, queries | rotations between trigger and proof; late, skipped and repeated proofs; two checkpoints in a block; late triggers |
| Lane-1 accumulator, `contracts/src/eas/AttestationAccumulator.sol` | chained hash, leaf count, checkpoints, bound snapshot | fold, `bindSnapshot`, `checkpoint` | its ids must follow the snapshot's |
| Lane-2 registries, `contracts/src/registry/*AnchorRegistry.sol` | chained hash of anchors, per-node heads, work | `anchor`, `resetHeadCount` | replay, capacity shared with lane 1 |
| Snapshot authority | two roles, holder count, pending handoff, hooks, metadata | grant, revoke, renounce, two-step handoff, add and remove hook | losing the last holder; a handoff that outlives its proposer's role |
| Proving vault, `contracts/src/vault/ProvingVault.sol` | a tank, policy and pending withdrawal per instance, claimed slots, paid statements, credits | deposits, `submitAndClaim`, `claim`, withdrawals, `quote` | copied proofs; settlements that pay nothing; repeated statements; rounding; bad prices |
| Instance registry | record per instance | `register`, `update` | the vault binds once and migrates explicitly |
| Governance, `contracts/src/zodiac/MerkleGovModule.sol` | proposals, votes, delegates, activity log | propose, vote, override a delegate, execute, cancel | tally after an override; knobs changed under an open proposal |
| Fund distributor, `contracts/src/merkle/MerkleFundDistributor.sol` | rounds, claims, pause clock, fee schedule, balances | `distribute`, `claim`, `sweep`, `pause`, `setFeePercentage` and its delayed increase | deadlines under pauses; rounding; claim against sweep; rounds sharing one balance; fee rises under a funder |
| Signer sync, recovery, parent authority, `contracts/src/zodiac/` | Safe owners and threshold; two queues of delayed actions with authorities and generations; rotation high-water marks | `submitSignerProof` and its knobs; schedule, execute, cancel, re-appoint, renounce | owner-list predecessors and intermediate thresholds; queued actions that outlive their authority; modules that act on each other through the Safe |
| Composition, `contracts/src/composition/` | source policy, captures | `installPolicy`, `checkpoint` | source freshness; a commitment that changes every block |
| Operator, `crates/operator-core`, `zk/operator` | fsynced journal, held proofs, watched submissions, spend | tick: judge what is pending, plan one action, trigger, prove, publish or submit | crash between intent and request; torn and half-reported writes; reorganisation after a receipt; getting stuck |
| Off-chain vouch lane: `packages/eas-offchain-client`, `eas-offchain-relay`, the `HeadAnchored` handler of `packages/indexer`, `registry/EasOffchainAnchorRegistry.sol` | the owner's anchored head, transactions in the mempool, payloads in storage, the index's rows | sign on the indexed log, `submit` (read, store, simulate, send, conclude), `anchor`, follow and rewind | three unpinned reads of the live head; racing relays; lost receipts; storage before anchoring; an index that is behind, failed or reorganised |
| Scoring crates, guests, rest of the indexer and of the frontend | — | pure computation, projection | see *Not modelled* |

The contracts interact by calls inside one transaction (vault → snapshot →
accumulator, snapshot → hooks → governance) and by reading each other's history
later; the operator reads the chain over RPC and answers with transactions. In the
vouch lane the browser signs what the indexer shows it, a relay stores the payload and
sends the anchor, the registry sees heads and never payloads, and the indexer fetches
the payload of each head it meets. The
chain orders transactions and any actor may slip one between any two others; that
is the concurrency of the model. `PROJECT.json` lists every hazard with its line.

## Modules

- `MerkleSnapshot` – the lifecycle and the lane-1 accumulator. One action per
  external function that changes state; an action is a transaction. `lane1[a]` is
  the log behind an accumulator's chained hash (a leaf is the block it was folded
  in; chaining is taken to be injective), `checkpoints[a]` its checkpoint array,
  `pin[id]` the four per-checkpoint mappings of the snapshot, `stateBlocks`,
  `blockToStateIndex` and `states` the history. `applied` is the event log. A proof
  exists exactly for what a program computes from the committed inputs (`Verify`),
  for any verifier, parameters and checkpoint, so a submitter may try proofs made
  for another checkpoint or under another verifier.
- `ProvenHistory` – the abstract specification: two append-only lists, what was
  frozen and what was accepted. `MerkleSnapshot` implements it
  (`ImplementsProvenHistory`), with `issued` the frozen inputs of each checkpoint
  and `accepted` the event log. Consumers are written against it.
- `SnapshotGovernance` – roles, handoff, hooks and metadata of the same contract.
  They share no variable with the lifecycle (a knob's caller is checked, its value
  is not constrained), so they are a module of their own. Its specification is
  `GovernanceSpec`, so that one module can hold the proofs about the whole contract.
- `ProvingVault` – the vault over snapshots as `ProvenHistory` describes them.
  Amounts are small integers with the contract's own divisions. `Settlement`
  computes what `_settle` pays; `claims` is the log of `Claimed` events, `requests`
  the requests behind a pending withdrawal.
- `MerkleGov` – the governance module that votes with the leaves of the current
  root. `proposals[id]` is the stored proposal, `ballots[id][a]` the five per-voter
  mappings, `activity` the log behind `activityAccumulator`; `made` and `executedAt`
  are histories (the settings a proposal was made under, the block of its
  `ProposalExecuted`). A snapshot's hook call reaches the module or fails
  (`AcceptRoot`), since `_notifyHooks` swallows a revert. `Configure`,
  `SetDelegateCallTarget` and `SetMerkleSnapshotContract` are the avatar's and may
  happen at any time, as Safe transactions or through proposals. A proposal's batch
  is the targets it delegatecalls and the settings it sets, executed as one step;
  its other calls into the module are the avatar's own steps, so a batch that
  allowlists a target and delegatecalls it in the same execution is not modelled.
- `FundDistributor` – rounds of funds paid out by the root a snapshot held when each
  was funded. `distributions` and `claimed` are the contract's; a root is its tree,
  and a snapshot may report a wrong one. `balance[t]` is what the contract holds of
  a token, whosever round it is for. `openSeconds` and `noticed` are histories: the
  seconds spent unpaused, and since when each fee rate has been in force or announced.
- `GovernedSafe` – the Safe of a network after its factory sealed it, with the modules
  through which alone it acts: member governance, the recovery route, the parent route
  and signer sync. The Safe governs these modules, so an action that comes in by one can
  re-appoint the authority of another, veto what it queued, disable it or re-point the
  signer module; `ExecFromModule` applies such a call to the Safe and every module at
  once. `queue[q].pending` is the `readyAt` storage: an entry is what its id hashes, and is
  found again only under the generation it was hashed with. Member governance is cut to
  its outcome (a call it decided on); `MerkleGov` is its own model.
- `SafeOwners` – `_syncOwners` over the Safe's linked owner list, call by call, with the
  module's copy of the list beside it. The Safe's own calls are modelled from how the
  module uses them.
- `Timelock` – the abstract specification of a delayed route: announced, not before its
  delay, not after its window, once, and not once withdrawn or its authority replaced.
  `GovernedSafe` implements it twice (`ImplementsTimelock`), for recovery and for the
  parent, with what can still be found and executed as the standing tickets.
- `RequestJournal` – the operator's append-only file: `file` on disk, a `torn` last
  line, `missed`, the lines an append wrote but reported as failed, so that the
  process does not know them; `Known` is what the process replays, `OnDisk` what the
  next one will. `Deciding` and `LastDecides` state `status()` without a loop.
- `OperatorChain` – one instance as the operator sees it: checkpoints, accepted roots,
  its own transactions, other provers, and reorganisations. It promises what
  `MerkleSnapshot` does (ids ascend, a root is newer than the applied one, a proof is
  of what its checkpoint froze) on a chain whose newest blocks may be replaced. Only
  depth matters of a block, so events carry their `age`.
- `Operator` – the daemon over both. `pc` is what its one thread is doing; every call
  to the disk, the prover, the score host or the chain is a step of its own, so that a
  crash or a block may come between any two. `held` is the saved proof of each
  checkpoint, possibly torn, `pending` the watched submissions, `bought` a history of
  what was paid for. `Resolve` and `Repair` are what the code leaves to a human.
- `VouchLog` – the abstract specification of the vouch lane for one owner: an
  append-only log in which a revocation is of an attestation in force, whose every
  version anybody can download, and of which a reorganisation takes back no more than
  the part that is not final.
- `VouchLane` – the lane itself: relays' handlers (`req[h]`, one POST in progress each),
  the registry (`anchors`, `final`), the mempool (`pool`), storage (`stored`) and the
  indexer (`index`). A payload is the owner's whole log with its signatures, a head folds
  kinds and UIDs only, so two payloads can share a head. A handler reads the live head in
  three calls, and each field may be of another block: `seen` collects the payloads the
  registry has been at meanwhile, and `Answered` is every mixture of them. A signed
  bundle is public, so `Post` may post any one to any relay at any time; a retry is a
  second handler. `lived` is a history: the payloads the registry has ever been at.
- `MerkleSnapshot_proofs` (also about `SnapshotGovernance`), `ProvingVault_proofs`,
  `MerkleGov_proofs`, `FundDistributor_proofs`, `GovernedSafe_proofs`,
  `Operator_proofs`, `VouchLane_proofs` – the theorems. `SumTheorems` – the laws of
  sums over finite sets that the proofs about money and votes use.
- `MC*` – symmetry sets and constant values for TLC. Definitions named as faulty
  variants in the component modules are plausible mistakes in the code that the
  properties have been shown to catch; nothing else uses them.

Blocks, leaves, anchors, checkpoints, tokens held and pending requests are bounded
by the `Max*` constants, in guards; so are the owner's calls of `FundDistributor` and
the faults (`MaxFaults`) and chain upsets (`MaxUpsets`) of `Operator`. Block numbers
and timestamps are one clock in `ProvingVault`. Widths are not modelled: no counter can come near 2^64.

## Runs

| Run | Question | Bounds |
|---|---|---|
| `snapshot_history` | Can rotations, late and skipped proofs, late triggers or shared blocks corrupt, mislabel or strand anything in the history, or break its schedule? Is the contract the append-only history? | 3 checkpoints, 5 blocks, 2 parameter hashes, 1 leaf, epochs of 2 blocks or none: two checkpoints can share a block and a third lie elsewhere, two boundaries can pass before a trigger, and the schedule can be switched off and on |
| `snapshot_lanes` | Is a state filed at block N computed from both lanes as of N, whichever contracts governance pointed at, and when can one proof serve two checkpoints? | 2 accumulators, one registry or none (it reports work), 2 verifiers, a payee, 2 checkpoints, 3 blocks |
| `snapshot_governance` | Can authority be lost or handed on by somebody without it? Is every hook notified once? | 3 accounts, 3 hooks |
| `gov_votes` | Does the tally stay the sum of the ballots through delegation, override and new roots? Are own votes final and activity direct? | 1 proposal, 2 members who may delegate to each other, 2 roots that reverse their weights, 3 blocks (propose, vote, vote), 3 checkpoints |
| `gov_outcome` | Can the Safe re-decide, rush or revive a proposal by changing settings under it? | 1 proposal, 1 member, blocks 0–6 so that each state including Expired is reached, quorums of 0 (refused), two and four quarters, exit delays 0 and 1, a window of 1, 2 snapshots |
| `vault` | Who is paid, how much, and can a copier, a bad price, a repeated statement or a withdrawal prevent it or leave the vault short? Is a quote honoured? | 1 instance, 2 snapshots to migrate between, 2 checkpoints of 3 kinds of frozen inputs (two differ in the verifier only), tanks of 6, one fee, cap and interval, 3 price readings (one usable, one out of band, one from the future), 2 requests behind a withdrawal, 2 blocks |
| `fund_distributor` | Can rounds, claims, sweeps, pauses or fee changes leave the contract short, refuse a rightful claim, or take a claimant's time? | 2 rounds of 5 of one token that keeps 1 of a transfer, so that shares round; windows of 0 (none) and 1 second in 4 seconds, an honest tree and one that claims too much, 2 owner calls besides `unpause` (a pause, a fee change; an announcement and its replacement), a notice of 2 seconds; one funder, recipient and snapshot, since only their amounts matter |
| `governed_safe` | Does each delayed route stay a timelock while members, the other route and the signer module act on the same Safe? Does every proven selection of owners land? | 2 rivals for both authorities, 2 recovery tickets and 1 of the parent (a second recovery ticket can be of a later generation), delays 0 and 1, a window of one instant, 3 instants, one decision of the members among 14 calls, 4 addresses besides the Safe's own and selections of 2 or 3: lists that a rotation has already reordered meet additions, removals and swaps; 2 accumulators and 2 activity sources |
| `operator` | Can a crash, a bad disk, a reorganisation or a refusal make the operator pay twice, submit an unpublished or vanished result, forget a submission, or stand still? | 2 checkpoints, 1 confirmation, 1 fault of the process and 1 upset of the chain at any of its steps, a budget that two proofs with their gas exhaust, 2 strikes before abandonment |
| `operator_reattach` | Does the operator fetch a proof it paid for and did not save? **No**, see below. | as above, no upset |
| `vouch_lane` | Is a relay's success answer true? Is every version the chain takes legal and downloadable? Does the index keep up with what is final? | 2 handlers (of one relay or two), 3 bundles in circulation, among them two signatures of one attestation, its revocation and a foreign bundle that revokes what was never attested; capacity for two anchors but not three entries, one reorganisation |
| `vouch_race` | Does a conflict answer mean that another bundle was anchored? **No**, see below. | 2 handlers, one bundle, no reorganisation |

Proposals share only settings, roots and the activity log, and no action reads one
proposal to change another. One proposal is therefore enough for TLC, and the
theorems of `MerkleGov_proofs` do not bound their number.

One fault and one upset are enough to place each at every step, and the safety theorems
of `Operator_proofs` bound neither. What needs two is an abandonment earned by lost races
alone (under "Liveness and fairness").

`CHECK_DEADLOCK FALSE` is set where the bounds stop the system: a chain with all
blocks produced and all checkpoints applied has nothing left to do.

`QuotesAreHonoured` speaks of statements that were not yet paid, and has to: `quote()`
looks at the checkpoint's own slot (`ProvingVault.sol:738-791`), `_settle()` also at
whether the *statement* was already paid (380-383). Freeze the same logs and parameters
under two verifiers, and both checkpoints have the same statement if the program
accepting them is the same: after the first is paid, the second is still quoted as
eligible, and pays nothing.

`operator_reattach` is expected to fail. `act()` writes the line `Requested` when the
proof comes back and only then saves the proof. A crash, or a failed write, between
the two leaves a request that the journal calls in flight and no code fetches by its
id: the plan is `Idle(Proving)` at every tick. The journal's documentation says of
this case "re-attach and poll" (`crates/operator-core/src/journal.rs:11`). What does
hold is `BuysOnce`: the operator does not pay again.

`vouch_race` is expected to fail. `nodeLive()` reads count, head and data commitment in
three calls that name no block (`chain.ts:58-80`). When the landing of a bundle falls
between them, the answers are the new count with the old head, and the relay takes them
for a fork at the same count: it answers 409 `SAME_COUNT_FORK` for the anchoring of the
very bundle it was given. `SuccessIsTrue`, in `vouch_lane`, is what does hold of the same
reads: a mixture can never pass for the exact bundle.

Two remarks on the lane that no run is about: the vouch hook calls a row
`finalizedIndexerVerified` although the indexer serves rows of blocks that are not final
yet; and a row whose payload could not be fetched is not fetched again, so that nothing
can be signed on top of it (`Canonical`) until a later bundle of the owner, signed
elsewhere, is anchored.

### Liveness and fairness

Nothing in the contracts runs by itself, so their modules state safety only; what
makes liveness possible there is `PendingStaysProvable` (a pending checkpoint can
always still be proven). The operator is what makes it happen, and `Converges` states
it: in the end the newest inputs are in the applied root, or the newest checkpoint has
met one of the two ends (`Stuck`) that the code does not leave by itself:
- a paid proof that was not saved (above);
- an abandoned checkpoint, as long as no new input arrives to freeze.

The second end is wider than the code's comments say. When another operator's root
lands between the plan and the send, the estimate (or the simulation) reverts with
`StaleCheckpoint`. The comment at `run.rs:1722` says "Someone landed a newer root. This
is SUCCESS", and the arm below it would journal `Superseded`. It is not taken:
`is_stale_checkpoint()` (`run.rs:1917-1922`) looks for the error's name or selector in
`e.to_string()`, but `SendFailure` displays only the outermost context of its error
(`tx.rs:43-47`), "gas estimation failed/reverted; not broadcasting" or "simulation
reverted; not broadcasting" (`tx.rs:108-117`), which holds neither. The revert goes on to
the next arm: `SubmitFailure`, a strike, and at the threshold `Abandoned`. `SendReverts`
does the same. One lost race costs a strike and an error, and the next tick finds the
newer root applied and moves on. It takes reorganisations for the strikes to add up: each
time the root that won is replaced, the checkpoint is sent again and may lose again, and
once it is abandoned the last winner may be replaced too. With two strikes, that takes
two upsets; `Converges` was also checked with those, `MaxUpsets = 2` and `MaxFaults = 0`.
So no line of a running operator is ever `Superseded`; the journal's reader knows the
line, and `RequestJournal` keeps it for that.

`FairSpec` assumes, and the code or its environment justifies:
- `WF(Runs)`: the loop of `run()` keeps ticking, every call has a timeout, a
  supervisor restarts the process;
- `SF(CarriedOut)`, `SF(PublishSucceeds)`: a tick that may act is sometimes
  interrupted by backoff, base fee or a score host that is down, and these end. Strong
  fairness, since each wait passes through a tick that does nothing;
- `SF(StopToResolve)`, `SF(Answered)`: a human answers the alert that every tick
  repeats, and removes a torn line that prevents the start;
- `WF(WorldMoves)`: blocks are built, pooled transactions are mined, time passes.

For the lane, `FairSpec` assumes `WF(IndexAnchor)` and `WF(IndexRewind)`: the indexer
framework delivers every anchor event in order and takes back the rows of blocks given
up, again after a restart. `FinalIsIndexed` follows whatever the fetches answer. Nothing
is assumed of relays, browsers or the chain.

Nothing is assumed of other provers, attesters, or of whoever could make the contracts
accept again after `Refuse`. Faults and upsets are bounded, so they end.

## Proofs

All constants are arbitrary: any number of blocks, checkpoints, contracts, accounts,
rounds, proposals, faults and hooks, under the named assumptions only. Most say that
bounds are natural numbers and zero values are not members of the sets they are the
absence of. The others:
- accounts, hooks, instances and the leaves of a tree are finite, where something is
  summed or counted over them;
- `ChainAssumption`: no reorganisation is deeper than the confirmations the operator
  is configured to wait for;
- `PriceAssumption`: a wei is worth less than a USDC unit at every accepted price. The
  vault's constructor does not require it; a deployment's price ceiling is far below
  (`contracts/script/DeployProvingVault.s.sol:88`). It is what bounds the rounding of a
  quote;
- `ProvenRootAssumption`: the leaves of a proven root add up to no more than the total
  proven with it (`crates/pagerank-core/src/distribute.rs:13-52`,
  `docs/concepts/epochs-and-proofs.md:70`).

Every safety property that a run checks is proved, but one (below). Seldom is one
inductive alone; what follows is the strengthening each needs and why.

**`MerkleSnapshot_proofs`.** `SnapshotInv` gives `TypeOK`, `IdsInStep`,
`HistoryAscending`, `PendingStaysProvable`, `AcceptedRecordsAreFinal` and the refinement
`ImplementsProvenHistory`. It adds
- `ClockBounds`: the schedule's origin and last boundary are not in the future,
  without which the consumed boundary need not be a block;
- `CheckpointsWellFormed`: issued checkpoints are pinned with nonzero parameters,
  counts match logs, and freeze blocks ascend with ids. With `HistoryAscending`
  (the newest slot is the applied checkpoint's) this is why
  `NonMonotonicStateBlock` can never refuse a checkpoint newer than the applied one;
- `AppliedBounds`: there are at most as many slots as checkpoints up to the applied
  one, and no accepted record beyond it, which is what makes records final;
- `AppliedLogEnds`: the event log ends with the applied checkpoint, which links the
  stale check of the contract to the ordering of the abstract history.

Each action has a lemma; actions that touch neither checkpoints nor history share
`FrameInv`. The refinement maps `Trigger` to `Freeze`, `SubmitProof` to `Accept` and
every other action to a stutter; `Trigger`'s no-new-inputs guard gives that no two
consecutive frozen inputs are equal.

What the history *says* rests on four more invariants:
- `FrozenInv`: both lanes of a checkpoint are the live logs as of its freeze block, and
  no later checkpoint holds less. Hence `RepeatedStatementNeedsRotation`, and with what a slot proves
  (`SlotsInv`) `SlotsProvePinnedInputs` and `StatesAreAsOfTheirBlock`;
- `ScheduleInv`: the last consumed boundary is a boundary, and no checkpoint is filed an
  epoch or more after it, whence `OneCheckpointPerEpoch` through late triggers and
  schedules that are switched off and on;
- `Splits`, of the binary search: left of the interval everything is filed at or before
  the block asked for, right of it later. A turn keeps it and shortens the interval, and
  the loop is a recursive function on the length (`QueriesFindNewestAtOrBefore`);
- `HookInv`: slots and indices of hooks are inverse to each other below the next index
  (`HooksNotifiedOnce`).

`AuthorityNeverLost` and `HandoffOnlyByHolder` follow from `AuthorityInv`, an argument
about cardinalities when a member is added or removed.

**`ProvingVault_proofs`.** `VaultInv` gives `Solvent`, `StatementPaidOnce`,
`FeeFollowsCommittedPayee` and `CadenceRespected`. It adds that every used slot belongs to
a claim and every claim used its slot and statement (`SlotsAreClaims`), that a policy
remembers a block no earlier than any claim it paid (`LastPaidCovers`), that what a
snapshot accepts ascends (`AcceptedAscend`), and that a pending withdrawal is what was
requested, ready a notice after the last request (`PendingIsRequests`, whence
`WithdrawalsGaveNotice`). `Solvent` is a conservation law, tanks and credits against what
the vault holds, kept because each settlement moves between two entries of a sum.
`CopiedProofStillPays` and `QuotesAreHonoured` compare a state with what a call would do
in it: they follow from `VaultInv` by computing the settlement.

**`MerkleGov_proofs`.** `GovInv` gives `ExecutionHonoursCreation`,
`ProposalsOnlyMoveForward` and `DirectVotesAreFinal`. It adds to the first the types
(`GovShape`, with integers for tallies) and `CreationKept`: a proposal carries the
quorum, and in its deadline the delay, of its creation, and its blocks are in order.
That is what lets `execute` check the proposal alone, and what makes "opens, closes,
expires" the only things time can do to it: a passed proposal cannot skip its window
because the window is not empty. `NextKinds` reduces every step to six kinds (frame,
tick, vote, addition, execution, cancellation). `AllTallied` says that each of the three
tallies is the sum of the ballots on its side; the override takes back exactly what the
delegate added, which is why a tally cannot fall below zero (`TallyIsTheBallots`).
`ActInv` makes the activity log and the direct votes one relation, each once, and every
activity checkpoint a prefix of the log (`ActivityIsDirect`).

**`FundDistributor_proofs`.** `FundInv` gives `FeeRisesAnnounced`, `WindowsKept` and that
no round pays out more than it was funded with. Its heart is one equation, `Clock`: the
seconds since deployment are the seconds open plus the seconds paused. Each round keeps
the equation as it stood when it was funded, and the two together turn the deadline the
contract computes into the promised window less the seconds the round has been open.
`Notice` says the same of fee rates: a rate in force has had its notice, a scheduled one
will have had it at its date. `Covered` says that the balance of each token is at least
what its rounds still owe (`Solvent`). `ClaimsFit` is inductive for rounds of an honest
tree: a share is rounded down, so what is outstanding stays within what is left (`FitsIn`).

**`SumTheorems`.** Sums over finite sets split, change by one element and compare. The
library's induction theorems take a predicate as a parameter, which the provers cannot
instantiate; here the induction is over a *set* of counterexamples, whose least element
`WFMin` gives.

**`GovernedSafe_proofs`.** `ImplementsTimelock` holds for any principals, calls, delays,
number of actions and time. `RoutesInv` is small: nonces of what is stored or was executed
are used up, and nothing stored is of a future generation. The second is why storage that
a new appointment leaves behind can never be found again, not even when the first
authority returns. The proof is made once, for a route as the parameter of the
instance: `CallOnRoute` shows that a call of the Safe can only veto or re-appoint, and
each action is then one step of the timelock for its own route and a withdrawal or a
stutter for the other. `HighWaterMarksHold` (proved only, not run) says that no re-pointing
takes back what a rotation has reached: an initialised module stands on an accumulator
that has a checkpoint (`MarkInv`), and such an accumulator is locked.

`RotationsLand` holds for any addresses, any list of owners that governance can leave, in
any order, and any selection. `WellFormed` says that no owner is listed twice and that the
threshold is within the owners, which every call of the Safe keeps. `RotationAgrees` goes
through the loops of `_syncOwners` call by call: after `k` of them (`AgreesOn`) the
module's copy is the Safe's list, the owners are the old ones less the first `k` to be
removed plus the first `k` to be added, and the threshold is one the Safe accepts. So the
predecessor read from the copy is the Safe's (`PrevOwnerPrecedes`), a removal always leaves
an owner (the selection is not empty and already in place, because the loop of additions
is over), and the last call meets exactly the selection. Two lists of the same members
without repetition are equally long (`ListLength`), which gives the count. It assumes that
the Safe takes no zero, no sentinel and not its own address as an owner (`Owners`,
`SafeAddress`), as `OwnerManager` does; the loops are written as recursive functions, over
which the induction goes. `_validateAndRoot` refuses only the first two. A proven selection
that names the Safe itself therefore meets a call that reverts, and every later one with
it (`SelfReverts`): the rotation fails as a whole, and the owners stay as they are until
another selection is proven. The property says both.

**`Operator_proofs`.** `OperatorInv` gives `BuysOnce`, `ProofsAreOfTheChain`,
`PublishedBeforeSent`, `PendingIsWatched`, `LandedIsFinal` and `TerminalIsTerminal`. It
adds the types (`OperatorTypeOK`, proved but not worth a run), what each phase works on
(`Busy`), and
- `Purchases` and `Asking`: whatever was bought is certified by an intent that the
  process knows and that no later `ResolvedNone` clears, on disk either. The lines a
  failed append left on disk are known to no running process, so the argument is
  about the lines of the process and of the disk at once; a human's `ResolvedNone` is
  appended only when nothing was bought;
- `Depth`: from the intent on, the checkpoint is `Solid`, deep enough that no
  reorganisation reaches it, and it is the one whose block the proof names;
- `Shown`: what is being sent has its `Published` line on disk;
- `StatusInv`: what the process holds for settled or abandoned is so on disk, and no
  line that would reopen a checkpoint is written while it is. `SettledMeans` and
  `QuitMeans` turn the replay of `status()`, with its rule that an abandonment is
  overridden by a settlement only, into a statement about two lines;
- `WatchInv`: the submissions judged in a pass await nothing any more, so that dropping
  their watches when it ends forgets nothing, and at most one submission of a checkpoint
  is awaited, so that a restart restores the right one (`OneAwaited`);
- `LandInv`: accepted roots are of ever newer checkpoints, a landed submission has its
  root in the same block, a watch names a submission of its own checkpoint. So what is
  judged final has a root too deep to be lost (`Buried`), and the applied root is no
  older.

**`VouchLane_proofs`.** `SuccessIsTrue` and `ImplementsVouchLog` hold for any number of
handlers, bundles, operations and reorganisations. `LaneInv` adds that what is being
stored, sent or waits in the mempool is well formed and, from the sending on, stored
(`RequestsEarned`, `SentIsStored`); that each anchored bundle's previous head is the head
below it (`AnchorsLinked`), whence what the registry holds after a well-formed bundle is a
legal extension of what it held (`VersionsExtend`); and that whatever a handler may read
is of payloads the registry has been at (`PastLived`). Legality is not the registry's to
see: the argument is that only relays send, and a relay validates before it reads.

Only model-checked, with the reason:
- `Converges`, `FinalIsIndexed`: liveness, and ENABLED with it.

## Not modelled

- Cryptography: verifiers, Merkle proofs, signatures, hashes. A proof is accepted
  exactly when it states what the program computes; hashes are injective.
- The scoring programs' arithmetic. It is deterministic fixed-point computation
  over inputs far larger than TLC enumerates.
- ABI encodings, manifests, CIDs and parameter byte layouts, covered by golden
  vectors in the repository.
- Factories: each deploys and wires an instance in one transaction.
- Reentrancy: `trigger`, `submitProof` and the vault's settlements, withdrawals and
  migration are `nonReentrant`.
  `execute` of the governance module is not, but it marks the proposal executed
  before its first call, so that a call back finds what a later step would find.
- Lane-1 contracts other than the append-only one (the mirror, the empty lane and
  the composition capture).
- Of the vouch lane: other owners' nodes and first registration, `resetHeadCount`, a
  relay whose anchoring key is used by something else, and encrypted drafts. The
  relay's refusals for projected work, time, configuration and rate are one refusal
  (`Fail`), which may come at any reading. The indexer framework's rollback is
  external.
- The rest of the indexer and of the frontend, scripts.
- Of the fund distributor: `Ownable2Step`'s handoff (one trusted owner acts), donations
  to the contract (they only add to what it holds), native and token transfers that
  fail (the transaction reverts, which is the action not taken).
- Of the operator: several instances and the slots they share (`run.rs:807`), the
  signer lane, replacement of a transaction under the same nonce (one transaction
  stands for it), the pacing lines of failed publications, a node that executes what
  it is sent and names `StaleCheckpoint` in its answer to the broadcast itself (the one
  error without an outer context; nodes only validate there), and the reasons to wait
  (capability, cycles, verifier rotation, base fee, an unfunded vault), each of which
  is `Wait` or a refusal. A tick that aborts in the settle pass before it can plan is
  `CallFails`. Reorganisations of attestations, and ones deeper than the configured
  confirmations, which the configuration excludes.
- Of the governed Safe: which selections a signer proof may name (any canonical one is
  accepted), the rotation of its verifier, calls whose target calls back a module, the
  label tier whose recovery proposer is the Safe itself (its recovery route is then the
  members'), and the role-separated timelock of the protocol's own contracts.
- Composition captures and the registry's gates across many nodes: see `PROJECT.json`.

## Plan

In order of importance:

1. The score index of `packages/indexer` (retried ingestion, what the API serves);
   anchor registries with many nodes and `resetHeadCount`; composition captures.
2. `Operator` with two instances, for the slots of `max_concurrent`, and the signer lane.
3. Replay and reconcile rules of the scoring crates as pure operators.
