----------------------------- MODULE MerkleGov -----------------------------
(***************************************************************************)
(* contracts/src/zodiac/MerkleGovModule.sol: proposals decided by votes    *)
(* weighted with the leaves of the proven root that was current when the   *)
(* proposal was made, cast by members or provisionally by their delegates, *)
(* and executed by the Safe (the avatar) after an exit delay.              *)
(*                                                                         *)
(* The module is a hook of a snapshot.  A hook call may fail (it has a     *)
(* fixed gas stipend and its revert is swallowed), so a root may be        *)
(* accepted without reaching the module.  A Merkle proof exists exactly    *)
(* for the leaves of a tree.  A proposal's actions succeed or revert       *)
(* together and are one batch: the targets it delegatecalls and the        *)
(* settings it gives this module, if any.  Any other call of a batch into  *)
(* the module is the avatar's, and is a step of its own here.              *)
(***************************************************************************)
EXTENDS Integers, Sequences, FiniteSets, Functions

CONSTANTS
    Accounts, NoAccount,
    Snapshots,
    Roots, NoRoot,          \* proven roots; NoRoot is the zero root
    Leaves,                 \* Leaves[r]: the <<account, power>> leaves of r
    TotalValue,             \* TotalValue[r]: the total proven with r
    Targets,                \* contracts a batch may delegatecall
    Batches,                \* what a proposal may do
    NoChange,               \* a batch that leaves this module's settings alone
    DefaultSettings,        \* what a new module starts with
    Delays, Periods, Quorums, ExecutionDelays,  \* values the Safe may try
    QUORUM_RANGE, EXECUTION_WINDOW, MIN_ACTIVITY_CHECKPOINT_INTERVAL,
    MaxBlock,               \* bound: last block
    MaxProposals,           \* bound: proposals
    MaxCheckpoints          \* bound: activity checkpoints

Settings == [votingDelay : Nat, votingPeriod : Nat, quorum : Nat,
             executionDelay : Nat]

ASSUME GovAssumption ==
    /\ NoAccount \notin Accounts /\ NoRoot \notin Roots
    /\ \A r \in Roots : Leaves[r] \subseteq Accounts \X Nat
    /\ \A r \in Roots : TotalValue[r] \in Nat
    /\ Delays \subseteq Nat /\ Periods \subseteq Nat /\ Quorums \subseteq Nat
    /\ ExecutionDelays \subseteq Nat
    /\ DefaultSettings \in Settings /\ DefaultSettings.votingPeriod # 0
    /\ DefaultSettings.quorum \in 1..QUORUM_RANGE
    /\ QUORUM_RANGE \in Nat \ {0} /\ EXECUTION_WINDOW \in Nat \ {0}
    /\ MIN_ACTIVITY_CHECKPOINT_INTERVAL \in Nat
    /\ \A b \in Batches : /\ b.delegates \subseteq Targets
                          /\ b.settings \in Settings \cup {NoChange}
    /\ NoChange \notin Settings
    /\ MaxBlock \in Nat /\ MaxProposals \in Nat /\ MaxCheckpoints \in Nat

\* What the program behind the proof guarantees of a root it proved: the values
\* of its leaves add up to the total proven with it (distribute_points_generic
\* in crates/pagerank-core/src/distribute.rs hands out the whole pool).
ASSUME ProvenRootAssumption ==
    \A r \in Roots :
        /\ IsFiniteSet(Leaves[r])
        /\ SumFunction([l \in Leaves[r] |-> l[2]]) <= TotalValue[r]

VARIABLES
    block,                      \* block.number
    latest,                     \* the latest state of each snapshot
    merkleSnapshotContract, currentMerkleRoot, totalVotingPower,
    initialBindingPublished,
    settings,                   \* votingDelay, votingPeriod, quorum,
                                \* executionDelay
    delegateCallAllowlist,
    voteDelegate,
    proposals,                  \* proposals[1..proposalCount]
    ballots,                    \* per proposal and member: hasVoted, votes,
                                \* votePower, votedByDelegate, delegateVoter
    activity,                   \* the log behind activityAccumulator
    activityCheckpoints,
    made, executedAt            \* the settings each proposal was made under
                                \* and the block of its ProposalExecuted event

rootVars == <<latest, merkleSnapshotContract, currentMerkleRoot,
              totalVotingPower, initialBindingPublished>>
configVars == <<settings, delegateCallAllowlist>>
proposalVars == <<proposals, made, executedAt>>
activityVars == <<activity, activityCheckpoints>>
vars == <<block, rootVars, configVars, voteDelegate, proposalVars, ballots,
          activityVars>>

VoteType == {"No", "Yes", "Abstain"}
NoBallot == [hasVoted |-> FALSE, vote |-> "No", power |-> 0,
             byDelegate |-> FALSE, delegate |-> NoAccount]
Ids == 1..Len(proposals)

\* The total a root was proven with; the zero root has none.
TotalOf(r) == IF r = NoRoot THEN 0 ELSE TotalValue[r]

Init ==
    /\ block = 0
    /\ latest \in [Snapshots -> Roots \cup {NoRoot}]
    /\ merkleSnapshotContract \in Snapshots
    /\ currentMerkleRoot = latest[merkleSnapshotContract]
    /\ totalVotingPower = TotalOf(currentMerkleRoot)
    /\ initialBindingPublished = FALSE
    /\ settings = DefaultSettings
    /\ delegateCallAllowlist = {}
    /\ voteDelegate = [a \in Accounts |-> NoAccount]
    /\ proposals = <<>> /\ made = <<>> /\ executedAt = <<>>
    /\ ballots = <<>>
    /\ activity = <<>> /\ activityCheckpoints = <<>>

-----------------------------------------------------------------------------
(* The chain and the snapshots.                                            *)

Tick ==
    /\ block < MaxBlock
    /\ block' = block + 1
    /\ UNCHANGED <<rootVars, configVars, voteDelegate, proposalVars, ballots,
                   activityVars>>

\* onMerkleUpdate, refused for any other snapshot than the bound one.
OnMerkleUpdate(s, r) ==
    /\ s = merkleSnapshotContract
    /\ currentMerkleRoot' = r
    /\ totalVotingPower' = TotalOf(r)

\* A snapshot accepts a root; its hook call reaches the module or fails.
AcceptRoot(s, r) ==
    /\ latest' = [latest EXCEPT ![s] = r]
    /\ \/ OnMerkleUpdate(s, r)
       \/ UNCHANGED <<currentMerkleRoot, totalVotingPower>>
    /\ UNCHANGED <<block, merkleSnapshotContract, initialBindingPublished,
                   configVars, voteDelegate, proposalVars, ballots,
                   activityVars>>

\* By the avatar: pull the latest state of the new snapshot, empty or not.
SetMerkleSnapshotContract(s) ==
    /\ initialBindingPublished' = TRUE
    /\ merkleSnapshotContract' = s
    /\ currentMerkleRoot' = latest[s]
    /\ totalVotingPower' = TotalOf(latest[s])
    /\ UNCHANGED <<block, latest, configVars, voteDelegate, proposalVars,
                   ballots, activityVars>>

PublishInitialSnapshotBinding ==
    /\ ~initialBindingPublished
    /\ initialBindingPublished' = TRUE
    /\ UNCHANGED <<block, latest, merkleSnapshotContract, currentMerkleRoot,
                   totalVotingPower, configVars, voteDelegate, proposalVars,
                   ballots, activityVars>>

-----------------------------------------------------------------------------
(* Settings, by the avatar: in a Safe transaction or a passed proposal.    *)

\* What setQuorum and setVotingPeriod do not refuse.
ValidSettings(s) == s.quorum \in 1..QUORUM_RANGE /\ s.votingPeriod # 0

Configure ==
    /\ \/ \E n \in Quorums : settings' = [settings EXCEPT !.quorum = n]
       \/ \E n \in Delays : settings' = [settings EXCEPT !.votingDelay = n]
       \/ \E n \in Periods : settings' = [settings EXCEPT !.votingPeriod = n]
       \/ \E n \in ExecutionDelays :
             settings' = [settings EXCEPT !.executionDelay = n]
    /\ ValidSettings(settings')
    /\ UNCHANGED <<block, rootVars, delegateCallAllowlist, voteDelegate,
                   proposalVars, ballots, activityVars>>

SetDelegateCallTarget(t, allowed) ==
    /\ delegateCallAllowlist' = IF allowed THEN delegateCallAllowlist \cup {t}
                                ELSE delegateCallAllowlist \ {t}
    /\ UNCHANGED <<block, rootVars, settings, voteDelegate, proposalVars,
                   ballots, activityVars>>

-----------------------------------------------------------------------------
(* The state of a proposal.                                                *)

Threshold(total, quorum) == (total * quorum) \div QUORUM_RANGE

\* Faulty variant: the quorum in force now decides.
WonNow(p) ==
    /\ p.yes + p.no >= Threshold(p.totalVotingPower, settings.quorum)
    /\ p.yes > p.no

\* Decisive participation reaches the quorum of the proposal's creation, and
\* yes leads.  Abstentions do not count.
Won(p) ==
    /\ p.yes + p.no >= Threshold(p.totalVotingPower, p.quorumFraction)
    /\ p.yes > p.no

State(id) ==
    LET p == proposals[id] IN
    IF p.cancelled THEN "Cancelled"
    ELSE IF p.executed THEN "Executed"
    ELSE IF block < p.startBlock THEN "Pending"
    ELSE IF block <= p.endBlock THEN "Active"
    ELSE IF ~Won(p) THEN "Rejected"
    ELSE IF block > p.executionDeadlineBlock THEN "Expired"
    ELSE "Passed"

-----------------------------------------------------------------------------
(* Votes.                                                                  *)

\* _addToTally, with a negative power _subtractFromTally.
AddToTally(p, vote, power) ==
    [p EXCEPT !.yes = @ + IF vote = "Yes" THEN power ELSE 0,
              !.no = @ + IF vote = "No" THEN power ELSE 0,
              !.abstain = @ + IF vote = "Abstain" THEN power ELSE 0]

\* _recordDirectActivity: extend the log and checkpoint it at once.
RecordDirectActivity(a, id) ==
    LET log == Append(activity,
                      [account |-> a, proposal |-> id, block |-> block])
    IN  /\ Len(activityCheckpoints) < MaxCheckpoints
        /\ activity' = log
        /\ activityCheckpoints' = Append(activityCheckpoints,
              [acc |-> log, count |-> Len(log), block |-> block])

\* A first vote on a proposal: the ballot and the tally.
Ballot(vote, power, delegate) ==
    [hasVoted |-> TRUE, vote |-> vote, power |-> power,
     byDelegate |-> delegate # NoAccount, delegate |-> delegate]

\* Faulty variant: the replaced vote is not taken out of the tally.
ReplaceAddingOnly(id, a, vote) ==
    /\ proposals' = [proposals EXCEPT ![id] =
                        AddToTally(@, vote, ballots[id][a].power)]
    /\ ballots' = [ballots EXCEPT ![id][a].vote = vote,
                                  ![id][a].byDelegate = FALSE]

\* _overrideDelegateVote, past its check: the same power changes sides.
OverrideDelegateVote(id, a, vote) ==
    LET b == ballots[id][a] IN
    /\ proposals' = [proposals EXCEPT ![id] =
                        AddToTally(AddToTally(@, b.vote, -b.power),
                                   vote, b.power)]
    /\ ballots' = [ballots EXCEPT ![id][a].vote = vote,
                                  ![id][a].byDelegate = FALSE]

\* Faulty variant: a member may vote again.
MayAlwaysVote(id, a) == TRUE

\* A member's own vote is final; a delegate's may be replaced once.
MayVote(id, a) == ballots[id][a].hasVoted => ballots[id][a].byDelegate

CastVote(id, a, vote, power) ==
    /\ State(id) = "Active"
    /\ MayVote(id, a)
    /\ <<a, power>> \in Leaves[proposals[id].merkleRoot]
    /\ IF ~ballots[id][a].hasVoted
       THEN /\ proposals' = [proposals EXCEPT ![id] =
                                AddToTally(@, vote, power)]
            /\ ballots' = [ballots EXCEPT ![id][a] =
                                Ballot(vote, power, NoAccount)]
       ELSE /\ ballots[id][a].power = power
            /\ OverrideDelegateVote(id, a, vote)
    /\ RecordDirectActivity(a, id)
    /\ UNCHANGED <<block, rootVars, configVars, voteDelegate, made, executedAt>>

SetVoteDelegate(a, delegate) ==
    /\ delegate # a
    /\ voteDelegate' = [voteDelegate EXCEPT ![a] = delegate]
    /\ UNCHANGED <<block, rootVars, configVars, proposalVars, ballots,
                   activityVars>>

\* Faulty variant: a delegate's vote counts as the principal's activity.
CastVoteAsDelegateActively(id, principal, delegate, vote, power) ==
    /\ State(id) = "Active"
    /\ voteDelegate[principal] = delegate
    /\ ~ballots[id][principal].hasVoted
    /\ <<principal, power>> \in Leaves[proposals[id].merkleRoot]
    /\ proposals' = [proposals EXCEPT ![id] = AddToTally(@, vote, power)]
    /\ ballots' = [ballots EXCEPT ![id][principal] =
                      Ballot(vote, power, delegate)]
    /\ RecordDirectActivity(principal, id)
    /\ UNCHANGED <<block, rootVars, configVars, voteDelegate, made, executedAt>>

CastVoteAsDelegate(id, principal, delegate, vote, power) ==
    /\ State(id) = "Active"
    /\ voteDelegate[principal] = delegate
    /\ ~ballots[id][principal].hasVoted
    /\ <<principal, power>> \in Leaves[proposals[id].merkleRoot]
    /\ proposals' = [proposals EXCEPT ![id] = AddToTally(@, vote, power)]
    /\ ballots' = [ballots EXCEPT ![id][principal] =
                      Ballot(vote, power, delegate)]
    /\ UNCHANGED <<block, rootVars, configVars, voteDelegate, made, executedAt,
                   activityVars>>

-----------------------------------------------------------------------------
(* Proposals.                                                              *)

\* The proposal that _propose stores: everything its outcome depends on is
\* fixed here.
NewProposal(a, batch) ==
    LET start == block + settings.votingDelay
        end == start + settings.votingPeriod
    IN  [proposer |-> a, startBlock |-> start, endBlock |-> end,
         yes |-> 0, no |-> 0, abstain |-> 0,
         executed |-> FALSE, cancelled |-> FALSE,
         merkleRoot |-> currentMerkleRoot,
         totalVotingPower |-> totalVotingPower,
         quorumFraction |-> settings.quorum,
         executionDeadlineBlock |-> end + settings.executionDelay
                                        + EXECUTION_WINDOW,
         batch |-> batch]

\* The refusals of _propose.
MayPropose(a, power, batch) ==
    /\ Len(proposals) < MaxProposals
    /\ currentMerkleRoot # NoRoot
    /\ <<a, power>> \in Leaves[currentMerkleRoot]
    /\ batch.delegates \subseteq delegateCallAllowlist

Propose(a, power, batch) ==
    /\ MayPropose(a, power, batch)
    /\ proposals' = Append(proposals, NewProposal(a, batch))
    /\ ballots' = Append(ballots, [x \in Accounts |-> NoBallot])
    /\ made' = Append(made, settings)
    /\ executedAt' = Append(executedAt, -1)
    /\ UNCHANGED <<block, rootVars, configVars, voteDelegate, activityVars>>

\* The proposer's vote is recorded at once, before voting opens.
ProposeWithVote(a, power, batch, vote) ==
    /\ MayPropose(a, power, batch)
    /\ proposals' = Append(proposals,
                           AddToTally(NewProposal(a, batch), vote, power))
    /\ ballots' = Append(ballots,
          [x \in Accounts |-> IF x = a THEN Ballot(vote, power, NoAccount)
                              ELSE NoBallot])
    /\ made' = Append(made, settings)
    /\ executedAt' = Append(executedAt, -1)
    /\ RecordDirectActivity(a, Len(proposals) + 1)
    /\ UNCHANGED <<block, rootVars, configVars, voteDelegate>>

\* Faulty variant: the exit delay in force now is awaited.
DelayElapsedNow(id) ==
    block > proposals[id].endBlock + settings.executionDelay

\* The exit delay of the proposal's creation is over.
DelayElapsed(id) ==
    block > proposals[id].executionDeadlineBlock - EXECUTION_WINDOW

\* A batch that fails reverts the execution, which can be tried again.
Execute(id) ==
    LET batch == proposals[id].batch IN
    /\ State(id) = "Passed"
    /\ DelayElapsed(id)
    /\ batch.delegates \subseteq delegateCallAllowlist
    /\ IF batch.settings = NoChange THEN UNCHANGED settings
       ELSE /\ ValidSettings(batch.settings)
            /\ settings' = batch.settings
    /\ proposals' = [proposals EXCEPT ![id].executed = TRUE]
    /\ executedAt' = [executedAt EXCEPT ![id] = block]
    /\ UNCHANGED <<block, rootVars, delegateCallAllowlist, voteDelegate, made,
                   ballots, activityVars>>

\* By the owner or the avatar.
Cancel(id) ==
    /\ ~proposals[id].executed
    /\ ~proposals[id].cancelled
    /\ proposals' = [proposals EXCEPT ![id].cancelled = TRUE]
    /\ UNCHANGED <<block, rootVars, configVars, voteDelegate, made, executedAt,
                   ballots, activityVars>>

\* Refresh the block reference of the activity log; anyone, not too often.
CheckpointSignerActivity ==
    /\ activity # <<>>
    /\ Len(activityCheckpoints) < MaxCheckpoints
    /\ block >= activityCheckpoints[Len(activityCheckpoints)].block
                + MIN_ACTIVITY_CHECKPOINT_INTERVAL
    /\ activityCheckpoints' = Append(activityCheckpoints,
          [acc |-> activity, count |-> Len(activity), block |-> block])
    /\ UNCHANGED <<block, rootVars, configVars, voteDelegate, proposalVars,
                   ballots, activity>>

-----------------------------------------------------------------------------
\* What members and their delegates do, with a leaf of some tree each.
Voting ==
    \E leaf \in UNION {Leaves[r] : r \in Roots}, vote \in VoteType :
        \/ \E batch \in Batches :
              ProposeWithVote(leaf[1], leaf[2], batch, vote)
        \/ \E id \in Ids :
              \/ CastVote(id, leaf[1], vote, leaf[2])
              \/ \E delegate \in Accounts :
                    CastVoteAsDelegate(id, leaf[1], delegate, vote, leaf[2])

Next ==
    \/ Tick
    \/ \E s \in Snapshots, r \in Roots \cup {NoRoot} : AcceptRoot(s, r)
    \/ \E s \in Snapshots : SetMerkleSnapshotContract(s)
    \/ PublishInitialSnapshotBinding
    \/ Configure
    \/ \E t \in Targets, allowed \in BOOLEAN : SetDelegateCallTarget(t, allowed)
    \/ \E leaf \in UNION {Leaves[r] : r \in Roots}, batch \in Batches :
          Propose(leaf[1], leaf[2], batch)
    \/ Voting
    \/ \E a \in Accounts, delegate \in Accounts \cup {NoAccount} :
          SetVoteDelegate(a, delegate)
    \/ \E id \in Ids : Execute(id) \/ Cancel(id)
    \/ CheckpointSignerActivity

Spec == Init /\ [][Next]_vars

-----------------------------------------------------------------------------
(* Properties.                                                             *)

\* A stored proposal with tallies in T, and a member's ballot.
ProposalOver(T) ==
    [proposer : Accounts, startBlock : Nat, endBlock : Nat,
     yes : T, no : T, abstain : T, executed : BOOLEAN, cancelled : BOOLEAN,
     merkleRoot : Roots, totalVotingPower : Nat, quorumFraction : Nat,
     executionDeadlineBlock : Nat, batch : Batches]
Ballots == [hasVoted : BOOLEAN, vote : VoteType, power : Nat,
            byDelegate : BOOLEAN, delegate : Accounts \cup {NoAccount}]

\* The members whose ballot is on a side, and the power they cast for it.
Side(b, vote) == {a \in Accounts : b[a].hasVoted /\ b[a].vote = vote}

PowerOn(b, vote) ==
    SumFunctionOnSet([a \in Accounts |-> b[a].power], Side(b, vote))

\* Each tally of p is the power of the ballots on its side, and every ballot is
\* a leaf of the root p pinned.
Tallied(p, b) ==
    /\ p.yes = PowerOn(b, "Yes") /\ p.no = PowerOn(b, "No")
    /\ p.abstain = PowerOn(b, "Abstain")
    /\ \A a \in Accounts :
          b[a].hasVoted => <<a, b[a].power>> \in Leaves[p.merkleRoot]

\* Voting power is neither minted nor lost by delegation and override: each
\* tally is the power of the ballots on its side, each ballot has a leaf of the
\* root the proposal pinned, whatever roots were accepted since, and together
\* they are within the total that root was proven with.
TallyIsTheBallots ==
    \A id \in Ids :
        LET p == proposals[id]
        IN  /\ Tallied(p, ballots[id])
            /\ p.yes + p.no + p.abstain <= TotalValue[p.merkleRoot]

\* What a proposal may become in one step, from each of its states.
May == [Pending   |-> {"Pending", "Active", "Cancelled"},
        Active    |-> {"Active", "Passed", "Rejected", "Cancelled"},
        Passed    |-> {"Passed", "Executed", "Expired", "Cancelled"},
        Rejected  |-> {"Rejected", "Cancelled"},
        Expired   |-> {"Expired", "Cancelled"},
        Executed  |-> {"Executed"},
        Cancelled |-> {"Cancelled"}]

\* A proposal only moves forward: once voting closed its outcome stands, and no
\* change of quorum, delay, period, root or snapshot re-decides it.
ProposalsOnlyMoveForward ==
    [][\A id \in Ids : State(id)' \in May[State(id)]]_vars

\* An executed proposal earned it under the rules it was made under: it won by
\* the quorum of its creation, and it was executed after the exit delay of its
\* creation and before its window closed, even when the Safe changed either
\* since.
ExecutionHonoursCreation ==
    \A id \in Ids : proposals[id].executed =>
        LET p == proposals[id] IN
        /\ ~p.cancelled
        /\ p.yes > p.no
        /\ p.yes + p.no >= Threshold(p.totalVotingPower, made[id].quorum)
        /\ executedAt[id] > p.endBlock + made[id].executionDelay
        /\ executedAt[id] <= p.endBlock + made[id].executionDelay
                                + EXECUTION_WINDOW

\* If a step changes a's recorded ballot, it is a replacing its delegate's vote
\* with the same power, logged as a's activity.
Stands(id, a) ==
    LET b == ballots[id][a]
        c == ballots'[id][a]
    IN  b.hasVoted /\ c # b =>
          /\ b.byDelegate /\ ~c.byDelegate
          /\ c.power = b.power /\ c.delegate = b.delegate
          /\ Len(activity') = Len(activity) + 1
          /\ activity'[Len(activity')].account = a

\* A member's own vote is final and a recorded power never changes: delegates
\* cannot touch a vote, and a delegate's is replaced by the member alone, in a
\* step the activity log attributes to that member.
DirectVotesAreFinal ==
    [][\A id \in Ids : \A a \in Accounts : Stands(id, a)]_vars

\* The signer-activity log is evidence of presence: it has exactly one entry per
\* direct vote and none for a delegate's, and its checkpoints are prefixes of
\* it in order, none older than what it contains.
ActivityIsDirect ==
    /\ \A id \in Ids : \A a \in Accounts :
          (ballots[id][a].hasVoted /\ ~ballots[id][a].byDelegate)
          <=> \E k \in 1..Len(activity) :
                  activity[k].account = a /\ activity[k].proposal = id
    /\ \A k, l \in 1..Len(activity) :
          k # l => \/ activity[k].account # activity[l].account
                   \/ activity[k].proposal # activity[l].proposal
    /\ \A k \in 1..Len(activityCheckpoints) :
          LET c == activityCheckpoints[k] IN
          /\ c.acc = SubSeq(activity, 1, c.count)
          /\ \A n \in 1..c.count : activity[n].block <= c.block
          /\ k < Len(activityCheckpoints) =>
                /\ c.count <= activityCheckpoints[k + 1].count
                /\ c.block <= activityCheckpoints[k + 1].block
          /\ k = Len(activityCheckpoints) => c.count = Len(activity)

-----------------------------------------------------------------------------
(* The strengthening that makes ExecutionHonoursCreation inductive.        *)

\* The types that outcomes depend on; a tally is any integer, for that it
\* stays above zero needs TallyIsTheBallots.
GovShape ==
    /\ block \in Nat
    /\ latest \in [Snapshots -> Roots \cup {NoRoot}]
    /\ merkleSnapshotContract \in Snapshots
    /\ currentMerkleRoot \in Roots \cup {NoRoot}
    /\ totalVotingPower \in Nat
    /\ settings \in Settings /\ settings.votingPeriod # 0
    /\ proposals \in Seq(ProposalOver(Int))
    /\ made \in Seq(Settings) /\ executedAt \in Seq(Int)
    /\ ballots \in Seq([Accounts -> Ballots])
    /\ activity \in Seq([account : Accounts, proposal : Nat, block : Nat])
    /\ Len(ballots) = Len(proposals) /\ Len(made) = Len(proposals)
    /\ Len(executedAt) = Len(proposals)

\* A proposal carries what it was made under, and its blocks are in order.
CreationKept ==
    \A id \in Ids :
        LET p == proposals[id] IN
        /\ p.quorumFraction = made[id].quorum
        /\ p.startBlock < p.endBlock
        /\ p.executionDeadlineBlock =
              p.endBlock + made[id].executionDelay + EXECUTION_WINDOW

GovInv == GovShape /\ CreationKept /\ ExecutionHonoursCreation
=============================================================================
