-------------------------- MODULE MerkleGov_proofs --------------------------
(***************************************************************************)
(* Proofs about MerkleGov, for any number of proposals, members, roots and *)
(* blocks.  GovInv is inductive: a proposal keeps what it was made under,  *)
(* so its outcome and its execution interval read nothing that can still   *)
(* change.                                                                 *)
(*                                                                         *)
(* AllTallied is inductive too: each of the three tallies is the sum of the *)
(* ballots on its side.  ActInv ties the activity log to the direct votes. *)
(***************************************************************************)
EXTENDS MerkleGov, SumTheorems, FiniteSetTheorems, SequenceTheorems, TLAPS

\* What a proposal is decided by besides its tally.
Fixed(p) == <<p.startBlock, p.endBlock, p.executed, p.cancelled,
              p.totalVotingPower, p.quorumFraction,
              p.executionDeadlineBlock>>

\* Moving a tally changes nothing else of a proposal.
LEMMA TallyOnly ==
    ASSUME NEW p \in ProposalOver(Int), NEW vote, NEW power \in Int
    PROVE  /\ AddToTally(p, vote, power) \in ProposalOver(Int)
           /\ Fixed(AddToTally(p, vote, power)) = Fixed(p)
<1> DEFINE y == p.yes + IF vote = "Yes" THEN power ELSE 0
           n == p.no + IF vote = "No" THEN power ELSE 0
           m == p.abstain + IF vote = "Abstain" THEN power ELSE 0
           q == [p EXCEPT !.yes = y, !.no = n, !.abstain = m]
<1>1. y \in Int /\ n \in Int /\ m \in Int
  <2>1. p.yes \in Int /\ p.no \in Int /\ p.abstain \in Int
    BY DEF ProposalOver
  <2> QED
    BY <2>1
<1>2. AddToTally(p, vote, power) = q
  BY DEF AddToTally
<1> HIDE DEF y, n, m
<1>3. q \in ProposalOver(Int)
  BY <1>1 DEF ProposalOver
<1>4. Fixed(q) = Fixed(p)
  BY DEF ProposalOver, Fixed
<1> QED
  BY <1>2, <1>3, <1>4

\* The total of a root is a number.
LEMMA TotalIsNat == \A r \in Roots \cup {NoRoot} : TotalOf(r) \in Nat
  BY GovAssumption DEF TotalOf

\* The initial state satisfies the invariant.
LEMMA InitGov == Init => GovInv
<1> SUFFICES ASSUME Init PROVE GovInv
  OBVIOUS
<1>1. currentMerkleRoot \in Roots \cup {NoRoot} /\ totalVotingPower \in Nat
  BY TotalIsNat DEF Init
<1>2. settings \in Settings /\ settings.votingPeriod # 0
  BY GovAssumption DEF Init
<1>3. GovShape
  BY <1>1, <1>2 DEF Init, GovShape
<1>4. CreationKept /\ ExecutionHonoursCreation
  BY DEF Init, CreationKept, ExecutionHonoursCreation, Ids
<1> QED
  BY <1>3, <1>4 DEF GovInv

\* What a vote does to the proposals: the tally of an open one moves.
Voted(id) ==
    /\ id \in Ids
    /\ State(id) = "Active"
    /\ proposals' \in Seq(ProposalOver(Int))
    /\ Len(proposals') = Len(proposals)
    /\ Fixed(proposals'[id]) = Fixed(proposals[id])
    /\ \A k \in Ids : k # id => proposals'[k] = proposals[k]
    /\ ballots' \in Seq([Accounts -> Ballots])
    /\ Len(ballots') = Len(ballots)
    /\ UNCHANGED <<block, rootVars, configVars, made, executedAt>>

\* A new ballot is a ballot.
LEMMA BallotType ==
    ASSUME NEW vote \in VoteType, NEW power \in Nat,
           NEW d \in Accounts \cup {NoAccount}
    PROVE  Ballot(vote, power, d) \in Ballots
  BY DEF Ballot, Ballots

\* Replacing a proposal and a ballot keeps the types.
LEMMA ReplaceTypes ==
    ASSUME GovShape, NEW id \in Ids, NEW a \in Accounts,
           NEW q \in ProposalOver(Int), NEW b \in Ballots,
           Fixed(q) = Fixed(proposals[id]),
           State(id) = "Active",
           proposals' = [proposals EXCEPT ![id] = q],
           ballots' = [ballots EXCEPT ![id] = [ballots[id] EXCEPT ![a] = b]],
           UNCHANGED <<block, rootVars, configVars, made, executedAt>>
    PROVE  Voted(id)
<1>1. ballots[id] \in [Accounts -> Ballots]
  BY DEF GovShape, Ids
<1>2. [ballots[id] EXCEPT ![a] = b] \in [Accounts -> Ballots]
  BY <1>1
<1>3. ballots' \in Seq([Accounts -> Ballots]) /\ Len(ballots') = Len(ballots)
  BY <1>2 DEF GovShape, Ids
<1>4. /\ proposals' \in Seq(ProposalOver(Int))
      /\ Len(proposals') = Len(proposals)
      /\ proposals'[id] = q
      /\ \A k \in Ids : k # id => proposals'[k] = proposals[k]
  BY DEF GovShape, Ids
<1> QED
  BY <1>3, <1>4 DEF Voted

\* A leaf's power is a number.
LEMMA LeafPower ==
    ASSUME NEW a, NEW power, NEW r \in Roots, <<a, power>> \in Leaves[r]
    PROVE  a \in Accounts /\ power \in Nat
  BY GovAssumption

\* A stored proposal is one.
LEMMA StoredProposal ==
    ASSUME GovShape, NEW id \in Ids
    PROVE  /\ proposals[id] \in ProposalOver(Int)
           /\ proposals[id].merkleRoot \in Roots
<1>1. proposals[id] \in ProposalOver(Int)
  BY DEF GovShape, Ids
<1> QED
  BY <1>1 DEF ProposalOver

\* A member's vote, first or replacing a delegate's.
LEMMA CastVoteVotes ==
    ASSUME GovShape, NEW id \in Ids, NEW a, NEW vote \in VoteType, NEW power,
           CastVote(id, a, vote, power)
    PROVE  Voted(id)
<1>1. proposals[id] \in ProposalOver(Int) /\ proposals[id].merkleRoot \in Roots
  BY StoredProposal
<1>2. a \in Accounts /\ power \in Nat
  BY <1>1, LeafPower DEF CastVote
<1>3. /\ ballots[id] \in [Accounts -> Ballots]
      /\ ballots[id][a] \in Ballots
  BY <1>2 DEF GovShape, Ids
<1>4. ballots[id][a].power \in Nat /\ ballots[id][a].vote \in VoteType
  BY <1>3 DEF Ballots
<1>5. UNCHANGED <<block, rootVars, configVars, made, executedAt>>
      /\ State(id) = "Active"
  BY DEF CastVote
<1>6. CASE ~ballots[id][a].hasVoted
  <2> DEFINE q == AddToTally(proposals[id], vote, power)
             b == Ballot(vote, power, NoAccount)
  <2>1. /\ proposals' = [proposals EXCEPT ![id] = q]
        /\ ballots' = [ballots EXCEPT ![id] = [ballots[id] EXCEPT ![a] = b]]
    BY <1>6 DEF CastVote
  <2>2. q \in ProposalOver(Int) /\ Fixed(q) = Fixed(proposals[id])
    BY <1>1, <1>2, TallyOnly
  <2>3. b \in Ballots
    BY <1>2, BallotType
  <2> HIDE DEF q, b
  <2> QED
    BY <1>2, <1>5, <2>1, <2>2, <2>3, ReplaceTypes
<1>7. CASE ballots[id][a].hasVoted
  <2> DEFINE b0 == ballots[id][a]
             q0 == AddToTally(proposals[id], b0.vote, -b0.power)
             q == AddToTally(q0, vote, b0.power)
             b == [b0 EXCEPT !.vote = vote, !.byDelegate = FALSE]
  <2>1. /\ proposals' = [proposals EXCEPT ![id] = q]
        /\ ballots' = [ballots EXCEPT ![id][a].vote = vote,
                                      ![id][a].byDelegate = FALSE]
    BY <1>7 DEF CastVote, OverrideDelegateVote
  <2>2. ballots' = [ballots EXCEPT ![id] = [ballots[id] EXCEPT ![a] = b]]
    BY <1>2, <1>3, <2>1 DEF GovShape, Ids
  <2>3. q0 \in ProposalOver(Int) /\ Fixed(q0) = Fixed(proposals[id])
    BY <1>1, <1>4, TallyOnly
  <2>4. q \in ProposalOver(Int) /\ Fixed(q) = Fixed(proposals[id])
    BY <1>4, <2>3, TallyOnly
  <2>5. b \in Ballots
    BY <1>3 DEF Ballots
  <2> HIDE DEF q, b
  <2> QED
    BY <1>2, <1>5, <2>1, <2>2, <2>4, <2>5, ReplaceTypes
<1> QED
  BY <1>6, <1>7

\* A delegate's vote.
LEMMA DelegateVotes ==
    ASSUME GovShape, NEW id \in Ids, NEW principal, NEW delegate \in Accounts,
           NEW vote \in VoteType, NEW power,
           CastVoteAsDelegate(id, principal, delegate, vote, power)
    PROVE  Voted(id)
<1> DEFINE q == AddToTally(proposals[id], vote, power)
           b == Ballot(vote, power, delegate)
<1>1. proposals[id] \in ProposalOver(Int) /\ proposals[id].merkleRoot \in Roots
  BY StoredProposal
<1>2. principal \in Accounts /\ power \in Nat
  BY <1>1, LeafPower DEF CastVoteAsDelegate
<1>3. q \in ProposalOver(Int) /\ Fixed(q) = Fixed(proposals[id])
  BY <1>1, <1>2, TallyOnly
<1>4. b \in Ballots
  BY <1>2, BallotType
<1>5. /\ proposals' = [proposals EXCEPT ![id] = q]
      /\ ballots' = [ballots EXCEPT ![id] =
                        [ballots[id] EXCEPT ![principal] = b]]
      /\ UNCHANGED <<block, rootVars, configVars, made, executedAt>>
      /\ State(id) = "Active"
  BY DEF CastVoteAsDelegate
<1> HIDE DEF q, b
<1> QED
  BY <1>2, <1>3, <1>4, <1>5, ReplaceTypes

\* One more activity record of a member.
LEMMA ActivityGrows ==
    ASSUME GovShape, NEW a \in Accounts, NEW id \in Nat,
           RecordDirectActivity(a, id)
    PROVE  /\ activity' \in Seq([account : Accounts, proposal : Nat,
                                  block : Nat])
           /\ Len(activity') = Len(activity) + 1
           /\ activity'[Len(activity')].account = a
<1> DEFINE e == [account |-> a, proposal |-> id, block |-> block]
<1>1. e \in [account : Accounts, proposal : Nat, block : Nat]
  BY DEF GovShape
<1>2. activity' = Append(activity, e) /\ e.account = a
  BY DEF RecordDirectActivity
<1> HIDE DEF e
<1> QED
  BY <1>1, <1>2 DEF GovShape

\* The activity log keeps its type in every step that votes or proposes.
ActivityKept ==
    activity' \in Seq([account : Accounts, proposal : Nat, block : Nat])

\* Votes only append to it.
LEMMA VotesKeepActivity ==
    ASSUME GovShape, NEW id \in Ids, NEW a, NEW d, NEW vote, NEW power,
           \/ CastVote(id, a, vote, power)
           \/ CastVoteAsDelegate(id, a, d, vote, power)
    PROVE  ActivityKept
<1>1. id \in Nat /\ proposals[id].merkleRoot \in Roots
  BY StoredProposal DEF Ids
<1>2. CASE CastVote(id, a, vote, power)
  <2>1. a \in Accounts /\ RecordDirectActivity(a, id)
    BY <1>1, <1>2, LeafPower DEF CastVote
  <2> QED
    BY <1>1, <2>1, ActivityGrows DEF ActivityKept
<1>3. CASE CastVoteAsDelegate(id, a, d, vote, power)
  BY <1>3 DEF CastVoteAsDelegate, activityVars, GovShape, ActivityKept
<1> QED
  BY <1>2, <1>3

\* What a proposal adds: itself, with what it was made under.
Added(a, batch) ==
    /\ \E q \in ProposalOver(Int) :
          /\ proposals' = Append(proposals, q)
          /\ Fixed(q) = Fixed(NewProposal(a, batch))
    /\ \E b \in [Accounts -> Ballots] : ballots' = Append(ballots, b)
    /\ made' = Append(made, settings)
    /\ executedAt' = Append(executedAt, -1)
    /\ ActivityKept
    /\ UNCHANGED <<block, rootVars, configVars>>

\* A new proposal is a proposal, made by a member.
LEMMA NewProposalType ==
    ASSUME GovShape, NEW a, NEW power, NEW batch \in Batches,
           MayPropose(a, power, batch)
    PROVE  /\ NewProposal(a, batch) \in ProposalOver(Int)
           /\ a \in Accounts /\ power \in Nat
<1>1. currentMerkleRoot \in Roots
  BY DEF GovShape, MayPropose
<1>2. a \in Accounts /\ power \in Nat
  BY <1>1, LeafPower DEF MayPropose
<1>3. /\ block \in Nat /\ settings.votingDelay \in Nat
      /\ settings.votingPeriod \in Nat /\ settings.quorum \in Nat
      /\ settings.executionDelay \in Nat /\ totalVotingPower \in Nat
      /\ EXECUTION_WINDOW \in Nat
  BY GovAssumption DEF GovShape, Settings
<1> DEFINE start == block + settings.votingDelay
           end == start + settings.votingPeriod
           deadline == end + settings.executionDelay + EXECUTION_WINDOW
<1>4. start \in Nat /\ end \in Nat /\ deadline \in Nat
  BY <1>3
<1>5. NewProposal(a, batch) =
        [proposer |-> a, startBlock |-> start, endBlock |-> end,
         yes |-> 0, no |-> 0, abstain |-> 0,
         executed |-> FALSE, cancelled |-> FALSE,
         merkleRoot |-> currentMerkleRoot,
         totalVotingPower |-> totalVotingPower,
         quorumFraction |-> settings.quorum,
         executionDeadlineBlock |-> deadline, batch |-> batch]
  BY DEF NewProposal
<1> HIDE DEF start, end, deadline
<1>6. NewProposal(a, batch) \in ProposalOver(Int)
  BY <1>1, <1>2, <1>3, <1>4, <1>5 DEF ProposalOver
<1> QED
  BY <1>2, <1>6

\* An empty ballot is a ballot.
LEMMA NoBallotType == NoBallot \in Ballots
  BY DEF NoBallot, Ballots, VoteType

\* propose() adds a proposal without ballots.
LEMMA ProposeAdds ==
    ASSUME GovShape, NEW a, NEW power, NEW batch \in Batches,
           Propose(a, power, batch)
    PROVE  Added(a, batch)
<1>1. NewProposal(a, batch) \in ProposalOver(Int)
  BY NewProposalType DEF Propose
<1>2. [x \in Accounts |-> NoBallot] \in [Accounts -> Ballots]
  BY NoBallotType
<1>3. ActivityKept
  BY DEF Propose, activityVars, GovShape, ActivityKept
<1> QED
  BY <1>1, <1>2, <1>3 DEF Propose, Added

\* proposeWithVote() adds a proposal with the proposer's ballot.
LEMMA ProposeWithVoteAdds ==
    ASSUME GovShape, NEW a, NEW power, NEW batch \in Batches,
           NEW vote \in VoteType, ProposeWithVote(a, power, batch, vote)
    PROVE  Added(a, batch)
<1> DEFINE q == AddToTally(NewProposal(a, batch), vote, power)
           b == [x \in Accounts |-> IF x = a THEN Ballot(vote, power, NoAccount)
                                    ELSE NoBallot]
<1>1. /\ NewProposal(a, batch) \in ProposalOver(Int)
      /\ a \in Accounts /\ power \in Nat
  BY NewProposalType DEF ProposeWithVote
<1>2. q \in ProposalOver(Int) /\ Fixed(q) = Fixed(NewProposal(a, batch))
  BY <1>1, TallyOnly
<1>3. b \in [Accounts -> Ballots]
  BY <1>1, BallotType, NoBallotType
<1>4. ActivityKept
  <2>1. Len(proposals) + 1 \in Nat
    BY DEF GovShape
  <2>2. RecordDirectActivity(a, Len(proposals) + 1)
    BY DEF ProposeWithVote
  <2> QED
    BY <1>1, <2>1, <2>2, ActivityGrows DEF ActivityKept
<1>5. /\ proposals' = Append(proposals, q) /\ ballots' = Append(ballots, b)
      /\ made' = Append(made, settings)
      /\ executedAt' = Append(executedAt, -1)
      /\ UNCHANGED <<block, rootVars, configVars>>
  BY DEF ProposeWithVote
<1> HIDE DEF q, b
<1> QED
  BY <1>2, <1>3, <1>4, <1>5 DEF Added

\* The steps that leave proposals and ballots alone.
Framed ==
    /\ UNCHANGED <<proposals, made, executedAt, ballots>>
    /\ block' \in Nat
    /\ latest' \in [Snapshots -> Roots \cup {NoRoot}]
    /\ merkleSnapshotContract' \in Snapshots
    /\ currentMerkleRoot' \in Roots \cup {NoRoot}
    /\ totalVotingPower' \in Nat
    /\ settings' \in Settings /\ settings'.votingPeriod # 0
    /\ ActivityKept

\* They keep the invariant.
LEMMA FramedInv ==
    ASSUME GovInv, Framed
    PROVE  GovInv'
<1>1. GovShape'
  BY DEF GovInv, GovShape, Framed, ActivityKept
<1>2. CreationKept'
  BY DEF GovInv, CreationKept, Framed, Ids
<1>3. ExecutionHonoursCreation'
  BY DEF GovInv, ExecutionHonoursCreation, Framed, Ids
<1> QED
  BY <1>1, <1>2, <1>3 DEF GovInv

\* A vote keeps the invariant: an open proposal is not executed.
LEMMA VotedInv ==
    ASSUME GovInv, NEW id \in Ids, Voted(id), ActivityKept
    PROVE  GovInv'
<1>1. GovShape'
  BY DEF GovInv, GovShape, Voted, ActivityKept, rootVars, configVars
<1>2. Ids' = Ids /\ made' = made /\ executedAt' = executedAt
  BY DEF Voted, Ids
<1>3. \A k \in Ids : Fixed(proposals'[k]) = Fixed(proposals[k])
  BY DEF Voted
<1>4. ~proposals'[id].executed
  <2>1. ~proposals[id].executed
    BY DEF Voted, State
  <2> QED
    BY <1>3, <2>1 DEF Fixed
<1>5. CreationKept'
  BY <1>2, <1>3 DEF GovInv, CreationKept, Fixed
<1>6. ExecutionHonoursCreation'
  <2> SUFFICES ASSUME NEW k \in Ids, proposals'[k].executed
               PROVE  ExecutionHonoursCreation /\ proposals'[k] = proposals[k]
    BY <1>2 DEF ExecutionHonoursCreation
  <2> QED
    BY <1>4 DEF Voted, GovInv
<1> QED
  BY <1>1, <1>5, <1>6 DEF GovInv

\* A new proposal joins the stored ones, which stay as they are.
LEMMA AddedIds ==
    ASSUME GovShape, NEW a, NEW batch \in Batches, Added(a, batch)
    PROVE  /\ Ids' = Ids \cup {Len(proposals) + 1}
           /\ Len(proposals) + 1 \notin Ids
           /\ \A k \in Ids : /\ proposals'[k] = proposals[k]
                              /\ made'[k] = made[k]
                              /\ executedAt'[k] = executedAt[k]
                              /\ ballots'[k] = ballots[k]
           /\ Fixed(proposals'[Len(proposals) + 1])
                 = Fixed(NewProposal(a, batch))
           /\ made'[Len(proposals) + 1] = settings
           /\ GovShape'
<1>1. PICK q \in ProposalOver(Int) : /\ proposals' = Append(proposals, q)
                                     /\ Fixed(q) = Fixed(NewProposal(a, batch))
  BY DEF Added
<1>2. PICK b \in [Accounts -> Ballots] : ballots' = Append(ballots, b)
  BY DEF Added
<1>3. made' = Append(made, settings) /\ executedAt' = Append(executedAt, -1)
  BY DEF Added
<1>4. /\ proposals \in Seq(ProposalOver(Int))
      /\ made \in Seq(Settings) /\ executedAt \in Seq(Int)
      /\ ballots \in Seq([Accounts -> Ballots]) /\ settings \in Settings
      /\ Len(ballots) = Len(proposals) /\ Len(made) = Len(proposals)
      /\ Len(executedAt) = Len(proposals)
  BY DEF GovShape
<1>5. /\ proposals' \in Seq(ProposalOver(Int))
      /\ Len(proposals') = Len(proposals) + 1
      /\ proposals'[Len(proposals) + 1] = q
      /\ \A k \in Ids : proposals'[k] = proposals[k]
  BY <1>1, <1>4 DEF Ids
<1>6. /\ made' \in Seq(Settings) /\ Len(made') = Len(made) + 1
      /\ made'[Len(made) + 1] = settings
      /\ \A k \in Ids : made'[k] = made[k]
  BY <1>3, <1>4 DEF Ids
<1>7. /\ executedAt' \in Seq(Int) /\ Len(executedAt') = Len(executedAt) + 1
      /\ \A k \in Ids : executedAt'[k] = executedAt[k]
  BY <1>3, <1>4 DEF Ids
<1>8. /\ ballots' \in Seq([Accounts -> Ballots])
      /\ Len(ballots') = Len(ballots) + 1
      /\ \A k \in Ids : ballots'[k] = ballots[k]
  BY <1>2, <1>4 DEF Ids
<1>9. Ids' = Ids \cup {Len(proposals) + 1} /\ Len(proposals) + 1 \notin Ids
  BY <1>4, <1>5 DEF Ids
<1>10. GovShape'
  BY <1>4, <1>5, <1>6, <1>7, <1>8
     DEF GovShape, Added, ActivityKept, rootVars, configVars
<1> QED
  BY <1>1, <1>4, <1>5, <1>6, <1>7, <1>8, <1>9, <1>10

\* A new proposal keeps the invariant.
LEMMA AddedInv ==
    ASSUME GovInv, NEW a, NEW batch \in Batches, Added(a, batch)
    PROVE  GovInv'
<1> DEFINE n == Len(proposals) + 1
           q == NewProposal(a, batch)
<1>1. GovShape
  BY DEF GovInv
<1>2. /\ Ids' = Ids \cup {n}
      /\ \A k \in Ids : /\ proposals'[k] = proposals[k]
                         /\ made'[k] = made[k]
                         /\ executedAt'[k] = executedAt[k]
      /\ Fixed(proposals'[n]) = Fixed(q) /\ made'[n] = settings
      /\ GovShape'
  BY <1>1, AddedIds
<1>3. /\ q.quorumFraction = settings.quorum
      /\ q.startBlock < q.endBlock
      /\ q.executionDeadlineBlock =
            q.endBlock + settings.executionDelay + EXECUTION_WINDOW
      /\ ~q.executed
  <2>1. /\ block \in Nat /\ settings.votingDelay \in Nat
        /\ settings.votingPeriod \in Nat /\ settings.votingPeriod # 0
        /\ settings.executionDelay \in Nat /\ EXECUTION_WINDOW \in Nat
    BY <1>1, GovAssumption DEF GovShape, Settings
  <2> QED
    BY <2>1 DEF NewProposal
<1> HIDE DEF n, q
<1>4. CreationKept'
  <2> DEFINE Kept(p, m) ==
                /\ p.quorumFraction = m.quorum
                /\ p.startBlock < p.endBlock
                /\ p.executionDeadlineBlock =
                      p.endBlock + m.executionDelay + EXECUTION_WINDOW
  <2>1. \A k \in Ids : Kept(proposals'[k], made'[k])
    BY <1>2 DEF GovInv, CreationKept
  <2>2. Kept(proposals'[n], made'[n])
    BY <1>2, <1>3 DEF Fixed
  <2> QED
    BY <1>2, <2>1, <2>2 DEF CreationKept
<1>5. ExecutionHonoursCreation'
  <2>1. ~proposals'[n].executed
    BY <1>2, <1>3 DEF Fixed
  <2> QED
    BY <1>2, <2>1 DEF GovInv, ExecutionHonoursCreation
<1> QED
  BY <1>2, <1>4, <1>5 DEF GovInv

\* Every step is one of six kinds.
Kinds ==
    \/ Framed /\ block' = block
    \/ Framed /\ Tick
    \/ \E id \in Ids : Voted(id) /\ ActivityKept
    \/ \E a, batch : batch \in Batches /\ Added(a, batch)
    \/ \E id \in Ids : Execute(id)
    \/ \E id \in Ids : Cancel(id)

\* The settings keep their type and a voting period above zero.
LEMMA ConfigureSettings ==
    ASSUME GovShape, Configure
    PROVE  settings' \in Settings /\ settings'.votingPeriod # 0
<1>1. settings \in Settings /\ ValidSettings(settings')
  BY DEF GovShape, Configure
<1>2. /\ Delays \subseteq Nat /\ Periods \subseteq Nat /\ Quorums \subseteq Nat
      /\ ExecutionDelays \subseteq Nat
  BY GovAssumption
<1>3. settings' \in Settings
  BY <1>1, <1>2 DEF Configure, Settings
<1> QED
  BY <1>1, <1>3 DEF ValidSettings

\* The snapshots and the avatar leave proposals and ballots alone.
LEMMA QuietSteps ==
    ASSUME GovShape,
           \/ \E s \in Snapshots, r \in Roots \cup {NoRoot} : AcceptRoot(s, r)
           \/ \E s \in Snapshots : SetMerkleSnapshotContract(s)
           \/ PublishInitialSnapshotBinding
           \/ Configure
           \/ \E t \in Targets, allowed \in BOOLEAN :
                 SetDelegateCallTarget(t, allowed)
           \/ \E a \in Accounts, delegate \in Accounts \cup {NoAccount} :
                 SetVoteDelegate(a, delegate)
           \/ CheckpointSignerActivity
           \/ UNCHANGED vars
    PROVE  Framed /\ block' = block
<1> USE DEF GovShape, Framed, ActivityKept, rootVars, configVars, proposalVars,
            activityVars
<1>1. ASSUME NEW s \in Snapshots, NEW r \in Roots \cup {NoRoot},
             AcceptRoot(s, r)
      PROVE  Framed /\ block' = block
  <2>1. latest' \in [Snapshots -> Roots \cup {NoRoot}]
    BY <1>1 DEF AcceptRoot
  <2>2. /\ currentMerkleRoot' \in Roots \cup {NoRoot}
        /\ totalVotingPower' \in Nat
    BY <1>1, TotalIsNat DEF AcceptRoot, OnMerkleUpdate
  <2> QED
    BY <1>1, <2>1, <2>2 DEF AcceptRoot
<1>2. ASSUME NEW s \in Snapshots, SetMerkleSnapshotContract(s)
      PROVE  Framed /\ block' = block
  <2>1. /\ currentMerkleRoot' \in Roots \cup {NoRoot}
        /\ totalVotingPower' \in Nat
    BY <1>2, TotalIsNat DEF SetMerkleSnapshotContract
  <2> QED
    BY <1>2, <2>1 DEF SetMerkleSnapshotContract
<1>3. CASE PublishInitialSnapshotBinding
  BY <1>3 DEF PublishInitialSnapshotBinding
<1>4. CASE Configure
  <2>1. settings' \in Settings /\ settings'.votingPeriod # 0
    BY <1>4, ConfigureSettings
  <2> QED
    BY <1>4, <2>1 DEF Configure
<1>5. ASSUME NEW t, NEW allowed, SetDelegateCallTarget(t, allowed)
      PROVE  Framed /\ block' = block
  BY <1>5 DEF SetDelegateCallTarget
<1>6. ASSUME NEW a, NEW delegate, SetVoteDelegate(a, delegate)
      PROVE  Framed /\ block' = block
  BY <1>6 DEF SetVoteDelegate
<1>7. CASE CheckpointSignerActivity
  BY <1>7 DEF CheckpointSignerActivity
<1>8. CASE UNCHANGED vars
  BY <1>8 DEF vars
<1> QED
  BY <1>1, <1>2, <1>3, <1>4, <1>5, <1>6, <1>7, <1>8

\* A voting step votes or proposes.
LEMMA VotingKinds ==
    ASSUME GovShape, Voting
    PROVE  Kinds
<1>1. PICK leaf \in UNION {Leaves[r] : r \in Roots}, vote \in VoteType :
        \/ \E batch \in Batches :
              ProposeWithVote(leaf[1], leaf[2], batch, vote)
        \/ \E id \in Ids : CastVote(id, leaf[1], vote, leaf[2])
        \/ \E id \in Ids : \E delegate \in Accounts :
              CastVoteAsDelegate(id, leaf[1], delegate, vote, leaf[2])
  BY DEF Voting
<1>2. ASSUME NEW batch \in Batches,
             ProposeWithVote(leaf[1], leaf[2], batch, vote)
      PROVE  Kinds
  BY <1>2, ProposeWithVoteAdds DEF Kinds
<1>3. ASSUME NEW id \in Ids, CastVote(id, leaf[1], vote, leaf[2])
      PROVE  Kinds
  BY <1>3, CastVoteVotes, VotesKeepActivity DEF Kinds
<1>4. ASSUME NEW id \in Ids, NEW delegate \in Accounts,
             CastVoteAsDelegate(id, leaf[1], delegate, vote, leaf[2])
      PROVE  Kinds
  BY <1>4, DelegateVotes, VotesKeepActivity DEF Kinds
<1> QED
  BY <1>1, <1>2, <1>3, <1>4

\* The kinds cover the next-state relation.
LEMMA NextKinds ==
    ASSUME GovShape, [Next]_vars
    PROVE  Kinds
<1>1. CASE Tick
  BY <1>1 DEF Tick, Kinds, GovShape, Framed, ActivityKept, rootVars,
              configVars, proposalVars, activityVars
<1>2. ASSUME NEW leaf \in UNION {Leaves[r] : r \in Roots},
             NEW batch \in Batches, Propose(leaf[1], leaf[2], batch)
      PROVE  Kinds
  BY <1>2, ProposeAdds DEF Kinds
<1>3. CASE Voting
  BY <1>3, VotingKinds
<1>4. CASE \E id \in Ids : Execute(id) \/ Cancel(id)
  BY <1>4 DEF Kinds
<1>5. CASE Framed /\ block' = block
  BY <1>5 DEF Kinds
<1> QED
  BY <1>1, <1>2, <1>3, <1>4, <1>5, QuietSteps DEF Next

\* A stored proposal's numbers, as the arithmetic below uses them.
LEMMA StoredNumbers ==
    ASSUME GovInv, NEW id \in Ids
    PROVE  /\ proposals[id].startBlock \in Nat /\ proposals[id].endBlock \in Nat
           /\ proposals[id].executed \in BOOLEAN
           /\ proposals[id].cancelled \in BOOLEAN
           /\ made[id].executionDelay \in Nat /\ block \in Nat
           /\ EXECUTION_WINDOW \in Nat \ {0}
           /\ proposals[id].startBlock < proposals[id].endBlock
           /\ proposals[id].executionDeadlineBlock =
                 proposals[id].endBlock + made[id].executionDelay
                    + EXECUTION_WINDOW
<1>1. proposals[id] \in ProposalOver(Int)
  BY StoredProposal DEF GovInv
<1>2. made[id] \in Settings
  BY DEF GovInv, GovShape, Ids
<1> QED
  BY <1>1, <1>2, GovAssumption
     DEF GovInv, GovShape, CreationKept, ProposalOver, Settings

\* What a flag of one proposal changes when it is set.
LEMMA FlagSet ==
    ASSUME GovShape, NEW id \in Ids, NEW q \in ProposalOver(Int),
           proposals' = [proposals EXCEPT ![id] = q]
    PROVE  /\ proposals' \in Seq(ProposalOver(Int))
           /\ Len(proposals') = Len(proposals) /\ Ids' = Ids
           /\ proposals'[id] = q
           /\ \A k \in Ids : k # id => proposals'[k] = proposals[k]
  BY DEF GovShape, Ids

\* Executing changes the flag of one proposal and notes the block.
LEMMA ExecuteEffect ==
    ASSUME GovShape, NEW id \in Ids, Execute(id)
    PROVE  /\ proposals' \in Seq(ProposalOver(Int))
           /\ Len(proposals') = Len(proposals) /\ Ids' = Ids
           /\ proposals'[id] = [proposals[id] EXCEPT !.executed = TRUE]
           /\ \A k \in Ids : k # id => proposals'[k] = proposals[k]
<1> DEFINE q == [proposals[id] EXCEPT !.executed = TRUE]
<1>1. q \in ProposalOver(Int)
  BY StoredProposal DEF ProposalOver
<1>2. proposals' = [proposals EXCEPT ![id] = q]
  BY DEF Execute
<1> HIDE DEF q
<1>3. /\ proposals' \in Seq(ProposalOver(Int))
      /\ Len(proposals') = Len(proposals) /\ Ids' = Ids
      /\ proposals'[id] = q
      /\ \A k \in Ids : k # id => proposals'[k] = proposals[k]
  BY <1>1, <1>2, FlagSet
<1> QED
  BY <1>3 DEF q

\* Cancelling changes the flag of one proposal.
LEMMA CancelEffect ==
    ASSUME GovShape, NEW id \in Ids, Cancel(id)
    PROVE  /\ proposals' \in Seq(ProposalOver(Int))
           /\ Len(proposals') = Len(proposals) /\ Ids' = Ids
           /\ proposals'[id] = [proposals[id] EXCEPT !.cancelled = TRUE]
           /\ \A k \in Ids : k # id => proposals'[k] = proposals[k]
<1> DEFINE q == [proposals[id] EXCEPT !.cancelled = TRUE]
<1>1. q \in ProposalOver(Int)
  BY StoredProposal DEF ProposalOver
<1>2. proposals' = [proposals EXCEPT ![id] = q]
  BY DEF Cancel
<1> HIDE DEF q
<1>3. /\ proposals' \in Seq(ProposalOver(Int))
      /\ Len(proposals') = Len(proposals) /\ Ids' = Ids
      /\ proposals'[id] = q
      /\ \A k \in Ids : k # id => proposals'[k] = proposals[k]
  BY <1>1, <1>2, FlagSet
<1> QED
  BY <1>3 DEF q

\* Cancelling keeps the invariant: an executed proposal cannot be cancelled.
LEMMA CancelInv ==
    ASSUME GovInv, NEW id \in Ids, Cancel(id)
    PROVE  GovInv'
<1>1. GovShape /\ proposals[id] \in ProposalOver(Int)
  BY StoredProposal DEF GovInv
<1>2. /\ proposals' \in Seq(ProposalOver(Int))
      /\ Len(proposals') = Len(proposals) /\ Ids' = Ids
      /\ proposals'[id] = [proposals[id] EXCEPT !.cancelled = TRUE]
      /\ \A k \in Ids : k # id => proposals'[k] = proposals[k]
  BY <1>1, CancelEffect
<1>3. /\ ~proposals[id].executed
      /\ UNCHANGED <<block, rootVars, configVars, made, executedAt, ballots,
                     activityVars>>
  BY DEF Cancel
<1>4. GovShape'
  BY <1>1, <1>2, <1>3 DEF GovShape, rootVars, configVars, activityVars
<1>5. /\ proposals'[id].endBlock = proposals[id].endBlock
      /\ proposals'[id].startBlock = proposals[id].startBlock
      /\ proposals'[id].quorumFraction = proposals[id].quorumFraction
      /\ proposals'[id].executionDeadlineBlock
            = proposals[id].executionDeadlineBlock
      /\ ~proposals'[id].executed
  BY <1>1, <1>2, <1>3 DEF ProposalOver
<1>6. CreationKept'
  <2> DEFINE Kept(p, m) ==
                /\ p.quorumFraction = m.quorum
                /\ p.startBlock < p.endBlock
                /\ p.executionDeadlineBlock =
                      p.endBlock + m.executionDelay + EXECUTION_WINDOW
  <2>1. \A k \in Ids : Kept(proposals[k], made[k])
    BY DEF GovInv, CreationKept
  <2>2. \A k \in Ids : Kept(proposals'[k], made'[k])
    BY <1>2, <1>3, <1>5, <2>1
  <2> QED
    BY <1>2, <2>2 DEF CreationKept
<1>7. ExecutionHonoursCreation'
  BY <1>2, <1>3, <1>5 DEF GovInv, ExecutionHonoursCreation
<1> QED
  BY <1>4, <1>6, <1>7 DEF GovInv

\* Executing keeps the invariant: what it checks reads the proposal alone.
LEMMA ExecuteInv ==
    ASSUME GovInv, NEW id \in Ids, Execute(id)
    PROVE  GovInv'
<1>1. GovShape /\ proposals[id] \in ProposalOver(Int)
  BY StoredProposal DEF GovInv
<1>2. /\ proposals' \in Seq(ProposalOver(Int))
      /\ Len(proposals') = Len(proposals) /\ Ids' = Ids
      /\ proposals'[id] = [proposals[id] EXCEPT !.executed = TRUE]
      /\ \A k \in Ids : k # id => proposals'[k] = proposals[k]
  BY <1>1, ExecuteEffect
<1>3. /\ State(id) = "Passed" /\ DelayElapsed(id)
      /\ executedAt' = [executedAt EXCEPT ![id] = block]
      /\ UNCHANGED <<block, rootVars, delegateCallAllowlist, made, ballots,
                     activityVars>>
  BY DEF Execute
<1>4. settings' \in Settings /\ settings'.votingPeriod # 0
  <2>1. proposals[id].batch \in Batches
    BY <1>1 DEF ProposalOver
  <2>2. proposals[id].batch.settings \in Settings \cup {NoChange}
    BY <2>1, GovAssumption
  <2> QED
    BY <1>1, <2>2 DEF Execute, ValidSettings, GovShape
<1>5. /\ executedAt' \in Seq(Int) /\ Len(executedAt') = Len(executedAt)
      /\ executedAt'[id] = block
      /\ \A k \in Ids : k # id => executedAt'[k] = executedAt[k]
  BY <1>1, <1>3 DEF GovShape, Ids
<1>6. GovShape'
  BY <1>1, <1>2, <1>3, <1>4, <1>5 DEF GovShape, rootVars, activityVars
<1>7. /\ proposals'[id].endBlock = proposals[id].endBlock
      /\ proposals'[id].startBlock = proposals[id].startBlock
      /\ proposals'[id].cancelled = proposals[id].cancelled
      /\ proposals'[id].yes = proposals[id].yes
      /\ proposals'[id].no = proposals[id].no
      /\ proposals'[id].totalVotingPower = proposals[id].totalVotingPower
      /\ proposals'[id].quorumFraction = proposals[id].quorumFraction
      /\ proposals'[id].executionDeadlineBlock
            = proposals[id].executionDeadlineBlock
  BY <1>1, <1>2 DEF ProposalOver
<1>8. CreationKept'
  <2> DEFINE Kept(p, m) ==
                /\ p.quorumFraction = m.quorum
                /\ p.startBlock < p.endBlock
                /\ p.executionDeadlineBlock =
                      p.endBlock + m.executionDelay + EXECUTION_WINDOW
  <2>1. \A k \in Ids : Kept(proposals[k], made[k])
    BY DEF GovInv, CreationKept
  <2>2. \A k \in Ids : Kept(proposals'[k], made'[k])
    BY <1>2, <1>3, <1>7, <2>1
  <2> QED
    BY <1>2, <2>2 DEF CreationKept
<1>9. /\ ~proposals[id].cancelled /\ Won(proposals[id])
      /\ ~(block > proposals[id].executionDeadlineBlock)
  BY <1>3 DEF State
<1>10. /\ block > proposals[id].endBlock + made[id].executionDelay
       /\ block <= proposals[id].endBlock + made[id].executionDelay
                      + EXECUTION_WINDOW
  BY <1>3, <1>9, StoredNumbers DEF DelayElapsed
<1>11. proposals[id].quorumFraction = made[id].quorum
  BY DEF GovInv, CreationKept
<1>12. ExecutionHonoursCreation'
  <2> DEFINE Earned(p, m, at) ==
                /\ ~p.cancelled
                /\ p.yes > p.no
                /\ p.yes + p.no >= Threshold(p.totalVotingPower, m.quorum)
                /\ at > p.endBlock + m.executionDelay
                /\ at <= p.endBlock + m.executionDelay + EXECUTION_WINDOW
  <2>1. Earned(proposals'[id], made'[id], executedAt'[id])
    BY <1>3, <1>5, <1>7, <1>9, <1>10, <1>11 DEF Won
  <2>2. \A k \in Ids : k # id /\ proposals'[k].executed =>
            Earned(proposals'[k], made'[k], executedAt'[k])
    BY <1>2, <1>3, <1>5 DEF GovInv, ExecutionHonoursCreation
  <2> QED
    BY <1>2, <2>1, <2>2 DEF ExecutionHonoursCreation
<1> QED
  BY <1>6, <1>8, <1>12 DEF GovInv

\* The invariant is inductive.
LEMMA StepGov ==
    ASSUME GovInv, [Next]_vars
    PROVE  GovInv'
<1>1. Kinds
  BY NextKinds DEF GovInv
<1> QED
  BY <1>1, FramedInv, VotedInv, AddedInv, ExecuteInv, CancelInv DEF Kinds

\* The inductive invariant of the governance module holds throughout.
THEOREM GovInvariant == Spec => []GovInv
  BY InitGov, StepGov, PTL DEF Spec

\* Every execution was earned under the rules of the proposal's creation, for
\* any number of proposals and whatever the Safe reconfigures in between.
THEOREM ExecutionsHonourCreation == Spec => []ExecutionHonoursCreation
<1>1. GovInv => ExecutionHonoursCreation
  BY DEF GovInv
<1> QED
  BY <1>1, GovInvariant, PTL

\* A proposal and a block that stay keep the state.
LEMMA SameState ==
    ASSUME NEW id, proposals'[id] = proposals[id], block' = block
    PROVE  State(id)' = State(id)
  BY DEF State, Won, Threshold

\* Every state may stay, so a step that keeps it is allowed.
LEMMA StateMayStay == \A id : State(id) \in May[State(id)]
  BY DEF State, May

\* Time alone opens and closes the vote, and a passed proposal expires only
\* after its window.
LEMMA TickForward ==
    ASSUME GovInv, NEW id \in Ids, Framed, Tick
    PROVE  State(id)' \in May[State(id)]
<1> DEFINE p == proposals[id]
<1>1. /\ p.startBlock \in Nat /\ p.endBlock \in Nat
      /\ p.executionDeadlineBlock \in Int
      /\ p.executionDeadlineBlock > p.endBlock
      /\ p.startBlock < p.endBlock /\ block \in Nat
  BY StoredNumbers
<1>2. proposals' = proposals /\ block' = block + 1
  BY DEF Framed, Tick
<1>3. Won(p)' <=> Won(p)
  BY <1>2 DEF Won, Threshold
<1> DEFINE S(b) ==
      IF p.cancelled THEN "Cancelled"
      ELSE IF p.executed THEN "Executed"
      ELSE IF b < p.startBlock THEN "Pending"
      ELSE IF b <= p.endBlock THEN "Active"
      ELSE IF ~Won(p) THEN "Rejected"
      ELSE IF b > p.executionDeadlineBlock THEN "Expired"
      ELSE "Passed"
<1>4. State(id) = S(block) /\ State(id)' = S(block + 1)
  BY <1>2, <1>3 DEF State
<1>5. S(block + 1) \in May[S(block)]
  BY <1>1 DEF May
<1> QED
  BY <1>4, <1>5

\* A vote moves only open proposals, which stay open.
LEMMA VoteForward ==
    ASSUME GovInv, NEW id \in Ids, Voted(id), NEW k \in Ids
    PROVE  State(k)' \in May[State(k)]
<1>1. block' = block
  BY DEF Voted
<1>2. CASE k # id
  BY <1>1, <1>2, SameState, StateMayStay DEF Voted
<1>3. CASE k = id
  <2>1. /\ proposals'[id].startBlock = proposals[id].startBlock
        /\ proposals'[id].endBlock = proposals[id].endBlock
        /\ proposals'[id].executed = proposals[id].executed
        /\ proposals'[id].cancelled = proposals[id].cancelled
    BY DEF Voted, Fixed
  <2>2. State(id) = "Active"
    BY DEF Voted
  <2>3. State(id)' = "Active"
    BY <1>1, <2>1, <2>2 DEF State
  <2> QED
    BY <1>3, <2>2, <2>3 DEF May
<1> QED
  BY <1>2, <1>3

\* Execution takes a passed proposal to its end.
LEMMA ExecuteForward ==
    ASSUME GovInv, NEW id \in Ids, Execute(id), NEW k \in Ids
    PROVE  State(k)' \in May[State(k)]
<1>1. GovShape /\ proposals[id] \in ProposalOver(Int)
  BY StoredProposal DEF GovInv
<1>2. /\ proposals'[id] = [proposals[id] EXCEPT !.executed = TRUE]
      /\ \A l \in Ids : l # id => proposals'[l] = proposals[l]
  BY <1>1, ExecuteEffect
<1>3. block' = block /\ State(id) = "Passed"
  BY DEF Execute
<1>4. CASE k # id
  BY <1>2, <1>3, <1>4, SameState, StateMayStay
<1>5. CASE k = id
  <2>1. ~proposals[id].cancelled
    BY <1>3 DEF State
  <2>2. proposals'[id].executed /\ ~proposals'[id].cancelled
    BY <1>1, <1>2, <2>1 DEF ProposalOver
  <2>3. State(id)' = "Executed"
    BY <2>2 DEF State
  <2> QED
    BY <1>3, <1>5, <2>3 DEF May
<1> QED
  BY <1>4, <1>5

\* Cancellation ends whatever was not executed.
LEMMA CancelForward ==
    ASSUME GovInv, NEW id \in Ids, Cancel(id), NEW k \in Ids
    PROVE  State(k)' \in May[State(k)]
<1>1. GovShape /\ proposals[id] \in ProposalOver(Int)
  BY StoredProposal DEF GovInv
<1>2. /\ proposals'[id] = [proposals[id] EXCEPT !.cancelled = TRUE]
      /\ \A l \in Ids : l # id => proposals'[l] = proposals[l]
  BY <1>1, CancelEffect
<1>3. /\ block' = block
      /\ ~proposals[id].executed /\ ~proposals[id].cancelled
  BY DEF Cancel
<1>4. CASE k # id
  BY <1>2, <1>3, <1>4, SameState, StateMayStay
<1>5. CASE k = id
  <2>1. proposals'[id].cancelled
    BY <1>1, <1>2 DEF ProposalOver
  <2>2. State(id)' = "Cancelled"
    BY <2>1 DEF State
  <2>3. "Cancelled" \in May[State(id)]
    BY <1>3 DEF State, May
  <2> QED
    BY <1>5, <2>2, <2>3
<1> QED
  BY <1>4, <1>5

\* Every step moves every proposal forward.
LEMMA StepForward ==
    ASSUME GovInv, [Next]_vars, NEW k \in Ids
    PROVE  State(k)' \in May[State(k)]
<1>1. Kinds /\ GovShape
  BY NextKinds DEF GovInv
<1>2. CASE Framed /\ block' = block
  BY <1>2, SameState, StateMayStay DEF Framed
<1>3. CASE Framed /\ Tick
  BY <1>3, TickForward
<1>4. CASE \E id \in Ids : Voted(id) /\ ActivityKept
  BY <1>4, VoteForward
<1>5. ASSUME NEW a, NEW batch \in Batches, Added(a, batch)
      PROVE  State(k)' \in May[State(k)]
  <2>1. proposals'[k] = proposals[k] /\ block' = block
    BY <1>1, <1>5, AddedIds DEF Added
  <2> QED
    BY <2>1, SameState, StateMayStay
<1>6. CASE \E id \in Ids : Execute(id)
  BY <1>6, ExecuteForward
<1>7. CASE \E id \in Ids : Cancel(id)
  BY <1>7, CancelForward
<1> QED
  BY <1>1, <1>2, <1>3, <1>4, <1>5, <1>6, <1>7 DEF Kinds

\* No proposal is ever re-decided, for any number of proposals and blocks and
\* whatever the Safe or the snapshots change meanwhile.
THEOREM OutcomesStand == Spec => ProposalsOnlyMoveForward
<1>1. GovInv /\ [Next]_vars => \A id \in Ids : State(id)' \in May[State(id)]
  BY StepForward
<1> QED
  BY <1>1, GovInvariant, PTL DEF Spec, ProposalsOnlyMoveForward

\* A member's vote leaves the other ballots alone, and its own too unless a
\* delegate cast it.
LEMMA CastVoteStands ==
    ASSUME GovShape, NEW id \in Ids, NEW x, NEW vote \in VoteType, NEW power,
           CastVote(id, x, vote, power), NEW k \in Ids, NEW a \in Accounts
    PROVE  Stands(k, a)
<1>1. x \in Accounts /\ id \in Nat
  BY StoredProposal, LeafPower DEF CastVote, Ids
<1>2. /\ id \in DOMAIN ballots /\ ballots[id] \in [Accounts -> Ballots]
      /\ ballots[id][x] \in Ballots
  BY <1>1 DEF GovShape, Ids
<1>3. /\ Len(activity') = Len(activity) + 1
      /\ activity'[Len(activity')].account = x
  <2>1. RecordDirectActivity(x, id)
    BY DEF CastVote
  <2> QED
    BY <1>1, <2>1, ActivityGrows
<1>4. CASE ~ballots[id][x].hasVoted
  <2>1. ballots' = [ballots EXCEPT ![id][x] = Ballot(vote, power, NoAccount)]
    BY <1>4 DEF CastVote
  <2>2. k # id \/ a # x => ballots'[k][a] = ballots[k][a]
    BY <1>1, <1>2, <2>1
  <2> QED
    BY <1>4, <2>2 DEF Stands
<1>5. CASE ballots[id][x].hasVoted
  <2> DEFINE b == [ballots[id][x] EXCEPT !.vote = vote, !.byDelegate = FALSE]
  <2>1. /\ ballots' = [ballots EXCEPT ![id][x].vote = vote,
                                      ![id][x].byDelegate = FALSE]
        /\ ballots[id][x].byDelegate
    BY <1>5 DEF CastVote, OverrideDelegateVote, MayVote
  <2>2. ballots' = [ballots EXCEPT ![id] = [ballots[id] EXCEPT ![x] = b]]
    BY <1>1, <1>2, <2>1
  <2>3. /\ ~b.byDelegate /\ b.power = ballots[id][x].power
        /\ b.delegate = ballots[id][x].delegate
    BY <1>2 DEF Ballots
  <2> HIDE DEF b
  <2>4. ballots'[id][x] = b
    BY <1>1, <1>2, <2>2
  <2>5. k # id \/ a # x => ballots'[k][a] = ballots[k][a]
    BY <1>1, <1>2, <2>2
  <2> QED
    BY <1>3, <2>1, <2>3, <2>4, <2>5 DEF Stands
<1> QED
  BY <1>4, <1>5

\* A delegate's vote fills an empty ballot.
LEMMA DelegateStands ==
    ASSUME GovShape, NEW id \in Ids, NEW x, NEW d, NEW vote, NEW power,
           CastVoteAsDelegate(id, x, d, vote, power),
           NEW k \in Ids, NEW a \in Accounts
    PROVE  Stands(k, a)
<1>1. /\ ballots' = [ballots EXCEPT ![id][x] = Ballot(vote, power, d)]
      /\ ~ballots[id][x].hasVoted
  BY DEF CastVoteAsDelegate
<1>2. k # id \/ a # x => ballots'[k][a] = ballots[k][a]
  BY <1>1
<1> QED
  BY <1>1, <1>2 DEF Stands

\* A step that keeps a proposal's ballots keeps each of them.
LEMMA KeptStands ==
    ASSUME NEW k, NEW a, ballots'[k] = ballots[k]
    PROVE  Stands(k, a)
  BY DEF Stands

\* Votes within a voting step.
LEMMA VotingStands ==
    ASSUME GovShape, Voting, NEW k \in Ids, NEW a \in Accounts
    PROVE  Stands(k, a)
<1>1. PICK leaf \in UNION {Leaves[r] : r \in Roots}, vote \in VoteType :
        \/ \E batch \in Batches :
              ProposeWithVote(leaf[1], leaf[2], batch, vote)
        \/ \E id \in Ids : CastVote(id, leaf[1], vote, leaf[2])
        \/ \E id \in Ids : \E delegate \in Accounts :
              CastVoteAsDelegate(id, leaf[1], delegate, vote, leaf[2])
  BY DEF Voting
<1>2. ASSUME NEW batch \in Batches,
             ProposeWithVote(leaf[1], leaf[2], batch, vote)
      PROVE  Stands(k, a)
  <2>1. Added(leaf[1], batch)
    BY <1>2, ProposeWithVoteAdds
  <2> QED
    BY <2>1, AddedIds, KeptStands
<1>3. CASE \E id \in Ids : CastVote(id, leaf[1], vote, leaf[2])
  BY <1>3, CastVoteStands
<1>4. CASE \E id \in Ids : \E delegate \in Accounts :
              CastVoteAsDelegate(id, leaf[1], delegate, vote, leaf[2])
  BY <1>4, DelegateStands
<1> QED
  BY <1>1, <1>2, <1>3, <1>4

\* Every step.
LEMMA StepStands ==
    ASSUME GovShape, [Next]_vars, NEW k \in Ids, NEW a \in Accounts
    PROVE  Stands(k, a)
<1>1. CASE Voting
  BY <1>1, VotingStands
<1>2. ASSUME NEW leaf \in UNION {Leaves[r] : r \in Roots},
             NEW batch \in Batches, Propose(leaf[1], leaf[2], batch)
      PROVE  Stands(k, a)
  <2>1. Added(leaf[1], batch)
    BY <1>2, ProposeAdds
  <2> QED
    BY <2>1, AddedIds, KeptStands
<1>3. CASE Tick
  BY <1>3, KeptStands DEF Tick
<1>4. CASE \E id \in Ids : Execute(id) \/ Cancel(id)
  BY <1>4, KeptStands DEF Execute, Cancel
<1>5. CASE Framed /\ block' = block
  BY <1>5, KeptStands DEF Framed
<1> QED
  BY <1>1, <1>2, <1>3, <1>4, <1>5, QuietSteps DEF Next

\* A member's own vote is never touched and a delegate's is replaced by the
\* member alone, for any number of members and proposals.
THEOREM DirectVotesFinal == Spec => DirectVotesAreFinal
<1>1. GovInv /\ [Next]_vars =>
        \A id \in Ids : \A a \in Accounts : Stands(id, a)
  BY StepStands DEF GovInv
<1> QED
  BY <1>1, GovInvariant, PTL DEF Spec, DirectVotesAreFinal

-----------------------------------------------------------------------------
(* The tallies are the ballots.                                            *)

\* What one ballot weighs on a side.
Weight(x, vote) == IF x.hasVoted /\ x.vote = vote THEN x.power ELSE 0

\* A ballot's power is a number.
LEMMA BallotPower ==
    ASSUME NEW b \in [Accounts -> Ballots], NEW a \in Accounts
    PROVE  /\ b[a].power \in Nat /\ b[a].hasVoted \in BOOLEAN
           /\ b[a].vote \in VoteType
           /\ \A v : Weight(b[a], v) \in Nat
<1>1. b[a] \in Ballots
  OBVIOUS
<1>2. /\ b[a].power \in Nat /\ b[a].hasVoted \in BOOLEAN
      /\ b[a].vote \in VoteType
  BY <1>1 DEF Ballots
<1> QED
  BY <1>2 DEF Weight

\* The voters of a proposal are as many as leaves at most, so finitely many.
LEMMA VotersFinite ==
    ASSUME NEW b \in [Accounts -> Ballots], NEW r \in Roots,
           \A a \in Accounts : b[a].hasVoted => <<a, b[a].power>> \in Leaves[r]
    PROVE  /\ IsFiniteSet({a \in Accounts : b[a].hasVoted})
           /\ \A v : IsFiniteSet(Side(b, v))
<1> DEFINE V == {a \in Accounts : b[a].hasVoted}
           h == [a \in V |-> <<a, b[a].power>>]
<1>1. h \in [V -> Leaves[r]] /\ \A x, y \in V : h[x] = h[y] => x = y
  OBVIOUS
<1>2. h \in Injection(V, Leaves[r])
  BY <1>1 DEF Injection, IsInjective
<1>3. IsFiniteSet(Leaves[r])
  BY ProvenRootAssumption
<1>4. IsFiniteSet(V)
  <2> HIDE DEF V, h
  <2> QED
    BY <1>2, <1>3, FS_Injection
<1>5. ASSUME NEW v PROVE IsFiniteSet(Side(b, v))
  <2>1. Side(b, v) \in SUBSET V
    BY DEF Side
  <2> QED
    BY <1>4, <2>1, FS_Subset
<1> QED
  BY <1>4, <1>5

\* A side without one member is that side less the member's weight.
LEMMA SideWithout ==
    ASSUME NEW b \in [Accounts -> Ballots], NEW a \in Accounts, NEW v,
           IsFiniteSet(Side(b, v)), NEW f, f = [x \in Accounts |-> b[x].power]
    PROVE  /\ SumFunctionOnSet(f, Side(b, v) \ {a}) \in Int
           /\ PowerOn(b, v) = SumFunctionOnSet(f, Side(b, v) \ {a})
                                 + Weight(b[a], v)
<1>1. Side(b, v) \subseteq Accounts
  BY DEF Side
<1>2. \A x \in Side(b, v) : f[x] \in Int
  BY <1>1, BallotPower
<1>3. IsFiniteSet(Side(b, v) \ {a})
  BY FS_RemoveElement
<1>4. SumFunctionOnSet(f, Side(b, v) \ {a}) \in Int
  BY <1>2, <1>3, SumIsInt
<1>5. PowerOn(b, v) = SumFunctionOnSet(f, Side(b, v))
  BY DEF PowerOn
<1>6. CASE a \in Side(b, v)
  <2>1. SumFunctionOnSet(f, Side(b, v))
           = f[a] + SumFunctionOnSet(f, Side(b, v) \ {a})
    BY <1>2, <1>6, SumWithout
  <2>2. f[a] = Weight(b[a], v) /\ f[a] \in Int
    BY <1>2, <1>6 DEF Side, Weight
  <2> QED
    BY <1>4, <1>5, <2>1, <2>2
<1>7. CASE a \notin Side(b, v)
  <2>1. Weight(b[a], v) = 0 /\ Side(b, v) \ {a} = Side(b, v)
    BY <1>7 DEF Side, Weight
  <2>2. SumFunctionOnSet(f, Side(b, v) \ {a}) = PowerOn(b, v)
    BY Zenon, <1>5, <2>1
  <2> QED
    BY <1>4, <2>1, <2>2
<1> QED
  BY <1>4, <1>6, <1>7

\* Replacing one ballot changes a side by the difference of their weights.
LEMMA OneBallotChanges ==
    ASSUME NEW b \in [Accounts -> Ballots], NEW a \in Accounts,
           NEW e \in Ballots, NEW v, NEW c, c = [b EXCEPT ![a] = e],
           IsFiniteSet(Side(b, v))
    PROVE  PowerOn(c, v) = PowerOn(b, v) - Weight(b[a], v) + Weight(e, v)
<1> DEFINE f == [x \in Accounts |-> b[x].power]
           g == [x \in Accounts |-> c[x].power]
           R == Side(b, v) \ {a}
<1>1. c \in [Accounts -> Ballots] /\ c[a] = e
      /\ \A x \in Accounts : x # a => c[x] = b[x]
  OBVIOUS
<1>2. Side(c, v) \ {a} = R /\ R \subseteq Accounts \ {a}
  BY <1>1 DEF Side
<1>3. IsFiniteSet(R)
  BY FS_RemoveElement
<1>4. IsFiniteSet(Side(c, v))
  <2>1. IsFiniteSet(R \cup {a})
    BY <1>3, FS_AddElement
  <2>2. Side(c, v) \in SUBSET (R \cup {a})
    BY <1>2
  <2> QED
    BY <2>1, <2>2, FS_Subset
<1>5. \A x \in R : f[x] \in Int /\ f[x] = g[x]
  <2> SUFFICES ASSUME NEW x \in R PROVE f[x] \in Int /\ f[x] = g[x]
    OBVIOUS
  <2>1. x \in Accounts /\ x # a
    BY <1>2
  <2> QED
    BY <1>1, <2>1, BallotPower
<1>6. Weight(b[a], v) \in Int /\ Weight(e, v) \in Int
  <2>1. Weight(c[a], v) \in Nat
    BY <1>1, BallotPower
  <2>2. Weight(b[a], v) \in Nat
    BY BallotPower
  <2> QED
    BY <1>1, <2>1, <2>2
<1> HIDE DEF R, f, g
<1>7. SumFunctionOnSet(f, R) = SumFunctionOnSet(g, R)
  BY <1>3, <1>5, SumSame
<1>8. /\ PowerOn(b, v) = SumFunctionOnSet(f, R) + Weight(b[a], v)
      /\ SumFunctionOnSet(f, R) \in Int
  BY SideWithout DEF f, R
<1>9. PowerOn(c, v) = SumFunctionOnSet(g, R) + Weight(e, v)
  BY <1>1, <1>2, <1>4, SideWithout DEF g
<1> QED
  BY <1>6, <1>7, <1>8, <1>9

\* The ballots of a tallied proposal stay within the total of its root: they
\* are leaves of it, one per member.
LEMMA TallyWithinTotal ==
    ASSUME NEW p \in ProposalOver(Int), NEW b \in [Accounts -> Ballots],
           Tallied(p, b)
    PROVE  p.yes + p.no + p.abstain <= TotalValue[p.merkleRoot]
<1> DEFINE r == p.merkleRoot
           L == Leaves[r]
           V == {a \in Accounts : b[a].hasVoted}
           Y == Side(b, "Yes")
           N == Side(b, "No")
           M == Side(b, "Abstain")
           f == [a \in Accounts |-> b[a].power]
           g == [l \in L |-> l[2]]
           h == [a \in V |-> <<a, b[a].power>>]
<1>1. r \in Roots
  BY DEF ProposalOver
<1>2. \A a \in V : <<a, b[a].power>> \in L
  BY DEF Tallied
<1>3. /\ IsFiniteSet(V) /\ IsFiniteSet(Y) /\ IsFiniteSet(N) /\ IsFiniteSet(M)
  BY <1>1, <1>2, VotersFinite
<1>4. /\ V = (Y \cup N) \cup M /\ Y \cap N = {} /\ (Y \cup N) \cap M = {}
  <2>1. \A a \in Accounts : b[a].vote \in {"No", "Yes", "Abstain"}
    BY BallotPower DEF VoteType
  <2> QED
    BY <2>1 DEF Side
<1>5. \A a \in V : f[a] \in Int
  BY BallotPower
<1>6. /\ IsFiniteSet(L) /\ SumFunctionOnSet(g, L) <= TotalValue[r]
      /\ TotalValue[r] \in Nat
  <2>1. DOMAIN g = L
    OBVIOUS
  <2> QED
    BY <1>1, <2>1, ProvenRootAssumption, GovAssumption DEF SumFunction
<1>7. \A l \in L : g[l] \in Nat
  <2>1. L \subseteq Accounts \X Nat
    BY <1>1, GovAssumption
  <2> QED
    BY <2>1
<1>8. /\ \A x \in V : h[x] \in L /\ f[x] = g[h[x]]
      /\ \A x, y \in V : h[x] = h[y] => x = y
  BY <1>2
<1>9. /\ p.yes = SumFunctionOnSet(f, Y) /\ p.no = SumFunctionOnSet(f, N)
      /\ p.abstain = SumFunctionOnSet(f, M)
  BY DEF Tallied, PowerOn
<1> HIDE DEF r, L, V, Y, N, M, f, g, h
<1>10. SumFunctionOnSet(f, V) <= SumFunctionOnSet(g, L)
  BY <1>3, <1>6, <1>7, <1>8, SumInjected
<1>11. SumFunctionOnSet(f, Y \cup N)
          = SumFunctionOnSet(f, Y) + SumFunctionOnSet(f, N)
  BY <1>3, <1>4, <1>5, SumDisjoint
<1>12. SumFunctionOnSet(f, (Y \cup N) \cup M)
          = SumFunctionOnSet(f, Y \cup N) + SumFunctionOnSet(f, M)
  <2>1. IsFiniteSet(Y \cup N)
    BY <1>3, FS_Union
  <2> QED
    BY <1>3, <1>4, <1>5, <2>1, SumDisjoint
<1>13. /\ SumFunctionOnSet(f, V) \in Int /\ SumFunctionOnSet(g, L) \in Int
  BY <1>3, <1>5, <1>6, <1>7, SumIsInt
<1>14. p.yes + p.no + p.abstain = SumFunctionOnSet(f, V)
  BY <1>4, <1>9, <1>11, <1>12
<1> QED
  BY <1>6, <1>10, <1>13, <1>14 DEF r

\* What a tally step does to a tally, and that it leaves the root alone.
LEMMA TallyFields ==
    ASSUME NEW p \in ProposalOver(Int), NEW vote, NEW power \in Int,
           NEW q, q = AddToTally(p, vote, power)
    PROVE  /\ q.yes = p.yes + (IF vote = "Yes" THEN power ELSE 0)
           /\ q.no = p.no + (IF vote = "No" THEN power ELSE 0)
           /\ q.abstain = p.abstain + (IF vote = "Abstain" THEN power ELSE 0)
           /\ q.merkleRoot = p.merkleRoot
           /\ p.yes \in Int /\ p.no \in Int /\ p.abstain \in Int
           /\ p.merkleRoot \in Roots
  BY DEF AddToTally, ProposalOver

\* A first ballot, of a leaf of the pinned root, and its tally.
LEMMA FirstBallotTallied ==
    ASSUME NEW p \in ProposalOver(Int), NEW b \in [Accounts -> Ballots],
           Tallied(p, b), NEW a \in Accounts, ~b[a].hasVoted,
           NEW vote \in VoteType, NEW power \in Nat,
           <<a, power>> \in Leaves[p.merkleRoot],
           NEW d \in Accounts \cup {NoAccount}
    PROVE  Tallied(AddToTally(p, vote, power),
                   [b EXCEPT ![a] = Ballot(vote, power, d)])
<1> DEFINE e == Ballot(vote, power, d)
           c == [b EXCEPT ![a] = e]
           q == AddToTally(p, vote, power)
<1>1. /\ q.yes = p.yes + (IF vote = "Yes" THEN power ELSE 0)
      /\ q.no = p.no + (IF vote = "No" THEN power ELSE 0)
      /\ q.abstain = p.abstain + (IF vote = "Abstain" THEN power ELSE 0)
      /\ q.merkleRoot = p.merkleRoot
      /\ p.yes \in Int /\ p.no \in Int /\ p.abstain \in Int
      /\ p.merkleRoot \in Roots
  BY TallyFields
<1>2. \A x \in Accounts :
         b[x].hasVoted => <<x, b[x].power>> \in Leaves[p.merkleRoot]
  BY DEF Tallied
<1>3. \A v : IsFiniteSet(Side(b, v))
  BY <1>1, <1>2, VotersFinite
<1>4. e \in Ballots
  BY BallotType
<1>5. e.hasVoted /\ e.vote = vote /\ e.power = power
  BY DEF Ballot
<1>6. \A v : Weight(e, v) = IF vote = v THEN power ELSE 0
  BY <1>5 DEF Weight
<1>7. \A v : Weight(b[a], v) = 0
  BY DEF Weight
<1>8. c[a] = e /\ \A x \in Accounts : x # a => c[x] = b[x]
  OBVIOUS
<1>9. \A v : PowerOn(c, v) = PowerOn(b, v) - Weight(b[a], v) + Weight(e, v)
  <2> HIDE DEF e
  <2> QED
    BY <1>3, <1>4, OneBallotChanges
<1> HIDE DEF e, c, q
<1>10. /\ PowerOn(b, "Yes") = p.yes /\ PowerOn(b, "No") = p.no
       /\ PowerOn(b, "Abstain") = p.abstain
  BY DEF Tallied
<1>11. /\ q.yes = PowerOn(c, "Yes") /\ q.no = PowerOn(c, "No")
       /\ q.abstain = PowerOn(c, "Abstain")
  <2>1. /\ PowerOn(c, "Yes") = PowerOn(b, "Yes") - 0 + Weight(e, "Yes")
        /\ PowerOn(c, "No") = PowerOn(b, "No") - 0 + Weight(e, "No")
        /\ PowerOn(c, "Abstain") = PowerOn(b, "Abstain") - 0 + Weight(e, "Abstain")
    BY <1>7, <1>9
  <2> QED
    BY <1>1, <1>6, <1>10, <2>1
<1>12. \A x \in Accounts :
          c[x].hasVoted => <<x, c[x].power>> \in Leaves[q.merkleRoot]
  BY <1>1, <1>2, <1>5, <1>8
<1> QED
  BY <1>11, <1>12 DEF Tallied, q, c, e

\* A delegate's ballot replaced by the member's: the same power, moved.
LEMMA ReplacedBallotTallied ==
    ASSUME NEW p \in ProposalOver(Int), NEW b \in [Accounts -> Ballots],
           Tallied(p, b), NEW a \in Accounts, b[a].hasVoted,
           NEW vote \in VoteType,
           NEW e, e = [b[a] EXCEPT !.vote = vote, !.byDelegate = FALSE]
    PROVE  Tallied(AddToTally(AddToTally(p, b[a].vote, -b[a].power),
                              vote, b[a].power),
                   [b EXCEPT ![a] = e])
<1> DEFINE c == [b EXCEPT ![a] = e]
           w == b[a].power
           old == b[a].vote
           q0 == AddToTally(p, old, -w)
           q == AddToTally(q0, vote, w)
<1>1. /\ b[a] \in Ballots /\ w \in Nat /\ -w \in Int
  <2>1. b[a] \in Ballots /\ w \in Nat
    BY BallotPower
  <2> QED
    BY <2>1
<1>2. q0 \in ProposalOver(Int)
  BY <1>1, TallyOnly
<1>3. /\ q0.yes = p.yes + (IF old = "Yes" THEN -w ELSE 0)
      /\ q0.no = p.no + (IF old = "No" THEN -w ELSE 0)
      /\ q0.abstain = p.abstain + (IF old = "Abstain" THEN -w ELSE 0)
      /\ q0.merkleRoot = p.merkleRoot
      /\ p.yes \in Int /\ p.no \in Int /\ p.abstain \in Int
      /\ p.merkleRoot \in Roots
  BY <1>1, TallyFields
<1>4. /\ q.yes = q0.yes + (IF vote = "Yes" THEN w ELSE 0)
      /\ q.no = q0.no + (IF vote = "No" THEN w ELSE 0)
      /\ q.abstain = q0.abstain + (IF vote = "Abstain" THEN w ELSE 0)
      /\ q.merkleRoot = q0.merkleRoot
  <2> HIDE DEF q0
  <2> QED
    BY <1>1, <1>2, TallyFields
<1>5. \A x \in Accounts :
         b[x].hasVoted => <<x, b[x].power>> \in Leaves[p.merkleRoot]
  BY DEF Tallied
<1>6. \A v : IsFiniteSet(Side(b, v))
  BY <1>3, <1>5, VotersFinite
<1>7. /\ e \in Ballots /\ e.hasVoted = b[a].hasVoted /\ e.vote = vote
      /\ e.power = w
  BY <1>1 DEF Ballots
<1>8. /\ \A v : Weight(e, v) = IF vote = v THEN w ELSE 0
      /\ \A v : Weight(b[a], v) = IF old = v THEN w ELSE 0
  BY <1>7 DEF Weight
<1>9. c[a] = e /\ \A x \in Accounts : x # a => c[x] = b[x]
  OBVIOUS
<1>10. \A v : PowerOn(c, v) = PowerOn(b, v) - Weight(b[a], v) + Weight(e, v)
  <2>1. c = [b EXCEPT ![a] = e]
    OBVIOUS
  <2>2. e \in Ballots
    BY <1>7
  <2> HIDE DEF c, w, old
  <2>3. ASSUME NEW v
        PROVE  PowerOn(c, v) = PowerOn(b, v) - Weight(b[a], v) + Weight(e, v)
    <3>1. IsFiniteSet(Side(b, v))
      BY <1>6
    <3> QED
      BY ONLY <2>1, <2>2, <3>1, b \in [Accounts -> Ballots], a \in Accounts,
         OneBallotChanges
  <2> QED
    BY <2>3
<1>11. /\ PowerOn(b, "Yes") = p.yes /\ PowerOn(b, "No") = p.no
       /\ PowerOn(b, "Abstain") = p.abstain
  BY DEF Tallied
<1>12. \A x \in Accounts :
          c[x].hasVoted => <<x, c[x].power>> \in Leaves[q.merkleRoot]
  <2>1. q.merkleRoot = p.merkleRoot
    BY <1>3, <1>4
  <2>2. c[a].power = b[a].power /\ <<a, b[a].power>> \in Leaves[p.merkleRoot]
    BY <1>5, <1>7, <1>9
  <2> HIDE DEF q, q0, c
  <2>3. ASSUME NEW x \in Accounts, c[x].hasVoted
        PROVE  <<x, c[x].power>> \in Leaves[p.merkleRoot]
    <3>1. CASE x = a
      BY <2>2, <3>1
    <3>2. CASE x # a
      BY <1>5, <1>9, <2>3, <3>2
    <3> QED
      BY <3>1, <3>2
  <2> QED
    BY <2>1, <2>3
<1>13. \A v : PowerOn(c, v) = PowerOn(b, v) - (IF old = v THEN w ELSE 0)
                                 + (IF vote = v THEN w ELSE 0)
  <2> HIDE DEF c, w, old
  <2> QED
    BY <1>8, <1>10
<1> HIDE DEF q, q0, c, w, old
<1>14. /\ q.yes = PowerOn(c, "Yes") /\ q.no = PowerOn(c, "No")
       /\ q.abstain = PowerOn(c, "Abstain")
  <2>1. /\ PowerOn(c, "Yes") = p.yes - (IF old = "Yes" THEN w ELSE 0)
                                  + (IF vote = "Yes" THEN w ELSE 0)
        /\ PowerOn(c, "No") = p.no - (IF old = "No" THEN w ELSE 0)
                                 + (IF vote = "No" THEN w ELSE 0)
        /\ PowerOn(c, "Abstain") = p.abstain - (IF old = "Abstain" THEN w ELSE 0)
                                      + (IF vote = "Abstain" THEN w ELSE 0)
    BY <1>11, <1>13
  <2> QED
    BY <1>1, <1>3, <1>4, <2>1
<1>15. Tallied(q, c)
  BY <1>12, <1>14 DEF Tallied
<1> QED
  BY <1>15 DEF q, q0, c, w, old

\* A proposal nobody voted on.
LEMMA EmptyTallied ==
    ASSUME NEW p, p.yes = 0, p.no = 0, p.abstain = 0
    PROVE  Tallied(p, [x \in Accounts |-> NoBallot])
<1> DEFINE b == [x \in Accounts |-> NoBallot]
<1>1. \A x \in Accounts : ~b[x].hasVoted
  BY DEF NoBallot
<1> HIDE DEF b
<1>2. ASSUME NEW v PROVE PowerOn(b, v) = 0
  <2>1. Side(b, v) = {}
    BY <1>1 DEF Side
  <2> QED
    BY <2>1, SumOfNone DEF PowerOn
<1>3. Tallied(p, b)
  BY <1>1, <1>2 DEF Tallied
<1> QED
  BY <1>3 DEF b

\* Tallied reads nothing else of a proposal.
LEMMA TalliedReads ==
    ASSUME NEW p, NEW q, NEW b, Tallied(p, b),
           q.yes = p.yes, q.no = p.no, q.abstain = p.abstain,
           q.merkleRoot = p.merkleRoot
    PROVE  Tallied(q, b)
  BY DEF Tallied

\* Every proposal is tallied; with GovShape this is inductive.
AllTallied == \A id \in Ids : Tallied(proposals[id], ballots[id])

\* One proposal and its ballots change, to a pair that is tallied.
LEMMA OneTallied ==
    ASSUME GovShape, AllTallied, NEW id \in Ids, NEW q \in ProposalOver(Int),
           NEW b \in [Accounts -> Ballots], Tallied(q, b),
           proposals' = [proposals EXCEPT ![id] = q],
           ballots' = [ballots EXCEPT ![id] = b]
    PROVE  AllTallied'
<1>1. /\ proposals \in Seq(ProposalOver(Int))
      /\ ballots \in Seq([Accounts -> Ballots])
      /\ Len(ballots) = Len(proposals)
  BY DEF GovShape
<1>2. Ids' = Ids
  BY <1>1 DEF Ids
<1>3. ASSUME NEW k \in Ids PROVE Tallied(proposals'[k], ballots'[k])
  <2>1. CASE k = id
    <3>1. proposals'[k] = q /\ ballots'[k] = b
      BY <1>1, <2>1 DEF Ids
    <3> QED
      BY <3>1
  <2>2. CASE k # id
    <3>1. proposals'[k] = proposals[k] /\ ballots'[k] = ballots[k]
      BY <1>1, <2>2 DEF Ids
    <3> QED
      BY <3>1 DEF AllTallied
  <2> QED
    BY <2>1, <2>2
<1> QED
  BY <1>2, <1>3 DEF AllTallied

\* A new proposal joins, tallied.
LEMMA NewTallied ==
    ASSUME GovShape, AllTallied, NEW q, NEW b, Tallied(q, b),
           proposals' = Append(proposals, q), ballots' = Append(ballots, b)
    PROVE  AllTallied'
<1>1. /\ proposals \in Seq(ProposalOver(Int))
      /\ ballots \in Seq([Accounts -> Ballots])
      /\ Len(ballots) = Len(proposals)
  BY DEF GovShape
<1>2. Ids' = Ids \cup {Len(proposals) + 1}
  BY <1>1 DEF Ids
<1>3. ASSUME NEW k \in Ids PROVE Tallied(proposals'[k], ballots'[k])
  <2>1. proposals'[k] = proposals[k] /\ ballots'[k] = ballots[k]
    BY <1>1 DEF Ids
  <2> QED
    BY <2>1 DEF AllTallied
<1>4. Tallied(proposals'[Len(proposals) + 1], ballots'[Len(proposals) + 1])
  <2>1. /\ proposals'[Len(proposals) + 1] = q
        /\ ballots'[Len(proposals) + 1] = b
    BY <1>1
  <2> QED
    BY <2>1
<1> QED
  BY <1>2, <1>3, <1>4 DEF AllTallied

\* A member's vote keeps every tally, whether it is first or replaces its
\* delegate's.
LEMMA CastVoteTallied ==
    ASSUME GovShape, AllTallied, NEW id \in Ids, NEW a, NEW vote \in VoteType,
           NEW power, CastVote(id, a, vote, power)
    PROVE  AllTallied'
<1> DEFINE p == proposals[id]
           b == ballots[id]
<1>1. p \in ProposalOver(Int) /\ p.merkleRoot \in Roots /\ Tallied(p, b)
  BY StoredProposal DEF AllTallied
<1>2. <<a, power>> \in Leaves[p.merkleRoot] /\ a \in Accounts /\ power \in Nat
  BY <1>1, LeafPower DEF CastVote
<1>3. b \in [Accounts -> Ballots] /\ b[a] \in Ballots
  BY <1>2 DEF GovShape, Ids
<1>4. CASE ~b[a].hasVoted
  <2> DEFINE q == AddToTally(p, vote, power)
             c == [b EXCEPT ![a] = Ballot(vote, power, NoAccount)]
  <2>1. /\ proposals' = [proposals EXCEPT ![id] = q]
        /\ ballots' = [ballots EXCEPT ![id] = c]
    BY <1>4 DEF CastVote
  <2>2. q \in ProposalOver(Int)
    BY <1>1, <1>2, TallyOnly
  <2>3. c \in [Accounts -> Ballots]
    BY <1>2, <1>3, BallotType
  <2>4. Tallied(q, c)
    BY <1>1, <1>2, <1>3, <1>4, FirstBallotTallied
  <2> HIDE DEF q, c
  <2> QED
    BY <2>1, <2>2, <2>3, <2>4, OneTallied
<1>5. CASE b[a].hasVoted
  <2> DEFINE e == [b[a] EXCEPT !.vote = vote, !.byDelegate = FALSE]
             q0 == AddToTally(p, b[a].vote, -b[a].power)
             q == AddToTally(q0, vote, b[a].power)
             c == [b EXCEPT ![a] = e]
  <2>1. /\ proposals' = [proposals EXCEPT ![id] = q]
        /\ ballots' = [ballots EXCEPT ![id][a].vote = vote,
                                      ![id][a].byDelegate = FALSE]
    BY <1>5 DEF CastVote, OverrideDelegateVote
  <2>2. ballots' = [ballots EXCEPT ![id] = c]
    BY <1>2, <1>3, <2>1 DEF GovShape, Ids
  <2>3. b[a].power \in Int /\ -b[a].power \in Int
    <3>1. b[a].power \in Nat
      BY <1>3 DEF Ballots
    <3> QED
      BY <3>1
  <2>4. q0 \in ProposalOver(Int)
    BY <1>1, <2>3, TallyOnly
  <2>5. q \in ProposalOver(Int)
    <3> HIDE DEF q0
    <3> QED
      BY <2>3, <2>4, TallyOnly
  <2>6. c \in [Accounts -> Ballots]
    <3>1. e \in Ballots
      BY <1>3 DEF Ballots
    <3> HIDE DEF e
    <3> QED
      BY <1>2, <1>3, <3>1
  <2>7. Tallied(q, c)
    BY <1>1, <1>2, <1>3, <1>5, ReplacedBallotTallied
  <2> HIDE DEF q, c
  <2> QED
    BY <2>1, <2>2, <2>5, <2>6, <2>7, OneTallied
<1> QED
  BY <1>4, <1>5

\* A delegate's vote keeps every tally.
LEMMA DelegateTallied ==
    ASSUME GovShape, AllTallied, NEW id \in Ids, NEW principal,
           NEW delegate \in Accounts, NEW vote \in VoteType, NEW power,
           CastVoteAsDelegate(id, principal, delegate, vote, power)
    PROVE  AllTallied'
<1> DEFINE p == proposals[id]
           b == ballots[id]
           q == AddToTally(p, vote, power)
           c == [b EXCEPT ![principal] = Ballot(vote, power, delegate)]
<1>1. p \in ProposalOver(Int) /\ p.merkleRoot \in Roots /\ Tallied(p, b)
  BY StoredProposal DEF AllTallied
<1>2. /\ <<principal, power>> \in Leaves[p.merkleRoot]
      /\ principal \in Accounts /\ power \in Nat
  BY <1>1, LeafPower DEF CastVoteAsDelegate
<1>3. b \in [Accounts -> Ballots]
  BY DEF GovShape, Ids
<1>4. /\ proposals' = [proposals EXCEPT ![id] = q]
      /\ ballots' = [ballots EXCEPT ![id] = c]
      /\ ~b[principal].hasVoted
  BY DEF CastVoteAsDelegate
<1>5. q \in ProposalOver(Int)
  BY <1>1, <1>2, TallyOnly
<1>6. c \in [Accounts -> Ballots]
  BY <1>2, <1>3, BallotType
<1>7. Tallied(q, c)
  BY <1>1, <1>2, <1>3, <1>4, FirstBallotTallied
<1> HIDE DEF q, c
<1> QED
  BY <1>4, <1>5, <1>6, <1>7, OneTallied

\* A new proposal is tallied, with the proposer's ballot or without.
LEMMA ProposeTallied ==
    ASSUME GovShape, AllTallied, NEW a, NEW power, NEW batch \in Batches,
           \/ Propose(a, power, batch)
           \/ \E vote \in VoteType : ProposeWithVote(a, power, batch, vote)
    PROVE  AllTallied'
<1> DEFINE p == NewProposal(a, batch)
           b == [x \in Accounts |-> NoBallot]
<1>1. /\ p \in ProposalOver(Int) /\ a \in Accounts /\ power \in Nat
      /\ <<a, power>> \in Leaves[currentMerkleRoot]
  <2>1. MayPropose(a, power, batch)
    BY DEF Propose, ProposeWithVote
  <2> QED
    BY <2>1, NewProposalType DEF MayPropose
<1>2. /\ p.yes = 0 /\ p.no = 0 /\ p.abstain = 0
      /\ p.merkleRoot = currentMerkleRoot
  BY DEF NewProposal
<1>3. b \in [Accounts -> Ballots] /\ ~b[a].hasVoted
  BY <1>1, NoBallotType DEF NoBallot
<1> HIDE DEF p
<1>4. Tallied(p, b)
  BY <1>2, EmptyTallied
<1>5. CASE Propose(a, power, batch)
  <2>1. proposals' = Append(proposals, p) /\ ballots' = Append(ballots, b)
    BY <1>5 DEF Propose, p
  <2> HIDE DEF b
  <2> QED
    BY <1>4, <2>1, NewTallied
<1>6. ASSUME NEW vote \in VoteType, ProposeWithVote(a, power, batch, vote)
      PROVE  AllTallied'
  <2> DEFINE q == AddToTally(p, vote, power)
             e == Ballot(vote, power, NoAccount)
             c == [b EXCEPT ![a] = e]
  <2>1. /\ proposals' = Append(proposals, q)
        /\ ballots' = Append(ballots, [x \in Accounts |->
                                          IF x = a THEN e ELSE NoBallot])
    BY <1>6 DEF ProposeWithVote, p
  <2>2. c = [x \in Accounts |-> IF x = a THEN e ELSE NoBallot]
    <3> HIDE DEF e
    <3> QED
      BY <1>1
  <2>3. Tallied(q, c)
    <3> HIDE DEF b
    <3> QED
      BY <1>1, <1>2, <1>3, <1>4, FirstBallotTallied
  <2> HIDE DEF q, c, b, e
  <2> QED
    BY <2>1, <2>2, <2>3, NewTallied
<1> QED
  BY <1>5, <1>6

\* Executing or cancelling a proposal moves no tally.
LEMMA FlagTallied ==
    ASSUME GovShape, AllTallied, NEW id \in Ids, Execute(id) \/ Cancel(id)
    PROVE  AllTallied'
<1>1. proposals[id] \in ProposalOver(Int)
  BY StoredProposal
<1>2. /\ Ids' = Ids /\ ballots' = ballots
      /\ \A k \in Ids : k # id => proposals'[k] = proposals[k]
      /\ \/ proposals'[id] = [proposals[id] EXCEPT !.executed = TRUE]
         \/ proposals'[id] = [proposals[id] EXCEPT !.cancelled = TRUE]
  <2>1. CASE Execute(id)
    BY <2>1, ExecuteEffect DEF Execute
  <2>2. CASE Cancel(id)
    BY <2>2, CancelEffect DEF Cancel
  <2> QED
    BY <2>1, <2>2
<1>3. /\ proposals'[id].yes = proposals[id].yes
      /\ proposals'[id].no = proposals[id].no
      /\ proposals'[id].abstain = proposals[id].abstain
      /\ proposals'[id].merkleRoot = proposals[id].merkleRoot
  BY <1>1, <1>2 DEF ProposalOver
<1>4. Tallied(proposals'[id], ballots[id])
  BY <1>3, TalliedReads DEF AllTallied
<1> QED
  BY <1>2, <1>4 DEF AllTallied

\* Every step keeps every proposal tallied.
LEMMA StepTallied ==
    ASSUME GovShape, AllTallied, [Next]_vars
    PROVE  AllTallied'
<1>1. CASE Voting
  <2>1. PICK leaf \in UNION {Leaves[r] : r \in Roots}, vote \in VoteType :
          \/ \E batch \in Batches :
                ProposeWithVote(leaf[1], leaf[2], batch, vote)
          \/ \E id \in Ids : CastVote(id, leaf[1], vote, leaf[2])
          \/ \E id \in Ids : \E delegate \in Accounts :
                CastVoteAsDelegate(id, leaf[1], delegate, vote, leaf[2])
    BY <1>1 DEF Voting
  <2> QED
    BY <2>1, ProposeTallied, CastVoteTallied, DelegateTallied
<1>2. ASSUME NEW leaf \in UNION {Leaves[r] : r \in Roots},
             NEW batch \in Batches, Propose(leaf[1], leaf[2], batch)
      PROVE  AllTallied'
  BY <1>2, ProposeTallied
<1>3. CASE \E id \in Ids : Execute(id) \/ Cancel(id)
  BY <1>3, FlagTallied
<1>4. CASE UNCHANGED <<proposals, ballots>>
  BY <1>4 DEF AllTallied, Ids
<1>5. CASE Tick
  BY <1>4, <1>5 DEF Tick, proposalVars
<1>6. CASE Framed
  BY <1>4, <1>6 DEF Framed
<1> QED
  BY <1>1, <1>2, <1>3, <1>5, <1>6, QuietSteps DEF Next

\* Voting power is neither minted nor lost, for any members, delegations,
\* proposals and proven roots: each tally is the power of the ballots on its
\* side, every ballot a leaf of the pinned root, all within the total proven.
THEOREM TalliesAreTheBallots == Spec => []TallyIsTheBallots
<1>1. Init => AllTallied
  BY DEF Init, AllTallied, Ids
<1>2. GovInv /\ AllTallied /\ [Next]_vars => AllTallied'
  BY StepTallied DEF GovInv
<1>3. GovInv /\ AllTallied => TallyIsTheBallots
  <2> SUFFICES ASSUME GovInv, AllTallied, NEW id \in Ids
               PROVE  LET p == proposals[id]
                      IN  /\ Tallied(p, ballots[id])
                          /\ p.yes + p.no + p.abstain <= TotalValue[p.merkleRoot]
    BY DEF TallyIsTheBallots
  <2>1. /\ proposals[id] \in ProposalOver(Int)
        /\ ballots[id] \in [Accounts -> Ballots]
    BY StoredProposal DEF GovInv, GovShape, Ids
  <2> QED
    BY <2>1, TallyWithinTotal DEF AllTallied
<1> QED
  BY <1>1, <1>2, <1>3, GovInvariant, PTL DEF Spec

-----------------------------------------------------------------------------
(* The activity log is the direct votes.                                   *)

Record == [account : Accounts, proposal : Nat, block : Nat]
Checkpoint == [acc : Seq(Record), count : Nat, block : Nat]

\* A member is logged for a proposal; no two entries are of the same pair.
LoggedIn(log, a, id) ==
    \E k \in 1..Len(log) : log[k].account = a /\ log[k].proposal = id
OnceIn(log) ==
    \A k, l \in 1..Len(log) : k # l => \/ log[k].account # log[l].account
                                       \/ log[k].proposal # log[l].proposal

\* The checkpoints are prefixes of a log in order, the last one all of it.
PrefixesOf(cps, log) ==
    \A k \in 1..Len(cps) :
        LET c == cps[k] IN
        /\ c.acc = SubSeq(log, 1, c.count)
        /\ \A n \in 1..c.count : log[n].block <= c.block
        /\ k < Len(cps) => c.count <= cps[k + 1].count /\ c.block <= cps[k + 1].block
        /\ k = Len(cps) => c.count = Len(log)

\* Neither the log nor a checkpoint is ahead of its time.
WithinTime(cps, log, now) ==
    /\ \A k \in 1..Len(log) : log[k].block <= now
    /\ \A k \in 1..Len(cps) : cps[k].count <= Len(log) /\ cps[k].block <= now

\* A ballot that is its member's own vote.
Direct(x) == x.hasVoted /\ ~x.byDelegate

\* What ActivityIsDirect says of the ballots.
LogIsVotes ==
    \A id \in Ids : \A a \in Accounts :
        Direct(ballots[id][a]) <=> LoggedIn(activity, a, id)

\* With GovShape this is inductive: it adds to ActivityIsDirect that entries
\* are of stored proposals and that nothing is ahead of its time.
ActInv ==
    /\ activityCheckpoints \in Seq(Checkpoint)
    /\ \A k \in 1..Len(activity) : activity[k].proposal \in Ids
    /\ WithinTime(activityCheckpoints, activity, block)
    /\ LogIsVotes /\ OnceIn(activity) /\ PrefixesOf(activityCheckpoints, activity)

\* The strengthening says what ActivityIsDirect says.
LEMMA ActInvIsDirect == ActInv => ActivityIsDirect
  BY DEF ActInv, LogIsVotes, OnceIn, PrefixesOf, LoggedIn, Direct, ActivityIsDirect

\* A log extended keeps what was before as prefixes.
LEMMA PrefixStays ==
    ASSUME NEW log \in Seq(Record), NEW more \in Seq(Record),
           Len(more) >= Len(log), \A k \in 1..Len(log) : more[k] = log[k],
           NEW n \in Nat, n <= Len(log)
    PROVE  SubSeq(more, 1, n) = SubSeq(log, 1, n)
<1>1. /\ \A i \in 1..n : log[i] \in Record /\ more[i] \in Record
                         /\ more[i] = log[i]
      /\ n - 1 + 1 = n /\ \A i \in 1..n : 1 + i - 1 = i
      /\ (1 <= n) \/ n = 0
  OBVIOUS
<1>2. /\ SubSeq(log, 1, n) \in Seq(Record)
      /\ Len(SubSeq(log, 1, n)) = IF 1 <= n THEN n - 1 + 1 ELSE 0
      /\ \A i \in 1..n - 1 + 1 : SubSeq(log, 1, n)[i] = log[1 + i - 1]
  BY <1>1, SubSeqProperties
<1>3. /\ SubSeq(more, 1, n) \in Seq(Record)
      /\ Len(SubSeq(more, 1, n)) = IF 1 <= n THEN n - 1 + 1 ELSE 0
      /\ \A i \in 1..n - 1 + 1 : SubSeq(more, 1, n)[i] = more[1 + i - 1]
  BY <1>1, SubSeqProperties
<1>4. Len(SubSeq(log, 1, n)) = n /\ Len(SubSeq(more, 1, n)) = n
  BY <1>1, <1>2, <1>3
<1>5. \A i \in 1..n : SubSeq(more, 1, n)[i] = SubSeq(log, 1, n)[i]
  BY <1>1, <1>2, <1>3
<1> QED
  BY <1>2, <1>3, <1>4, <1>5, SeqEqual

\* A checkpoint of the log as it is, or extended, joins the others.
LEMMA CheckpointJoins ==
    ASSUME NEW log \in Seq(Record), NEW more \in Seq(Record), NEW now \in Nat,
           Len(more) >= Len(log), \A k \in 1..Len(log) : more[k] = log[k],
           \A k \in 1..Len(more) : more[k].block <= now,
           NEW cps \in Seq(Checkpoint), PrefixesOf(cps, log),
           WithinTime(cps, log, now),
           NEW c, c = [acc |-> more, count |-> Len(more), block |-> now]
    PROVE  /\ Append(cps, c) \in Seq(Checkpoint)
           /\ PrefixesOf(Append(cps, c), more)
           /\ WithinTime(Append(cps, c), more, now)
<1> DEFINE all == Append(cps, c)
           n == Len(cps) + 1
<1>1. /\ c \in Checkpoint /\ c.acc = more /\ c.count = Len(more) /\ c.block = now
      /\ Len(more) \in Nat /\ Len(log) \in Nat
  <2>1. Len(more) \in Nat /\ Len(log) \in Nat
    OBVIOUS
  <2> QED
    BY <2>1 DEF Checkpoint
<1>2. /\ all \in Seq(Checkpoint) /\ Len(all) = n /\ all[n] = c
      /\ \A k \in 1..Len(cps) : all[k] = cps[k]
      /\ Len(cps) \in Nat
  BY <1>1
<1>3. \A k \in 1..Len(cps) : /\ cps[k].count \in Nat /\ cps[k].block \in Nat
                             /\ cps[k].count <= Len(log) /\ cps[k].block <= now
                             /\ cps[k].acc = SubSeq(log, 1, cps[k].count)
                             /\ \A m \in 1..cps[k].count : log[m].block <= cps[k].block
                             /\ k < Len(cps) => /\ cps[k].count <= cps[k + 1].count
                                                /\ cps[k].block <= cps[k + 1].block
  <2>1. \A k \in 1..Len(cps) : cps[k] \in Checkpoint
    OBVIOUS
  <2> QED
    BY <2>1 DEF WithinTime, PrefixesOf, Checkpoint
<1>4. WithinTime(all, more, now)
  <2>1. \A k \in 1..n : all[k].count <= Len(more) /\ all[k].block <= now
    <3> SUFFICES ASSUME NEW k \in 1..n
                 PROVE  all[k].count <= Len(more) /\ all[k].block <= now
      OBVIOUS
    <3> HIDE DEF all
    <3>1. CASE k = n
      BY <1>1, <1>2, <3>1
    <3>2. CASE k \in 1..Len(cps)
      BY <1>1, <1>2, <1>3, <3>2
    <3> QED
      BY <1>2, <3>1, <3>2
  <2> QED
    BY <1>2, <2>1 DEF WithinTime
<1>5. PrefixesOf(all, more)
  <2> SUFFICES ASSUME NEW k \in 1..n
               PROVE  /\ all[k].acc = SubSeq(more, 1, all[k].count)
                      /\ \A m \in 1..all[k].count : more[m].block <= all[k].block
                      /\ k < n => /\ all[k].count <= all[k + 1].count
                                  /\ all[k].block <= all[k + 1].block
                      /\ k = n => all[k].count = Len(more)
    BY <1>2 DEF PrefixesOf
  <2> HIDE DEF all
  <2>1. CASE k = n
    <3>1. SubSeq(more, 1, Len(more)) = more
      BY SubSeqFull
    <3> QED
      BY <1>1, <1>2, <2>1, <3>1
  <2>2. CASE k \in 1..Len(cps)
    <3>1. all[k] = cps[k] /\ k < n
      BY <1>2, <2>2
    <3>2. SubSeq(more, 1, cps[k].count) = SubSeq(log, 1, cps[k].count)
      BY <1>3, <2>2, PrefixStays
    <3>3. \A m \in 1..cps[k].count : more[m].block <= cps[k].block
      <4> SUFFICES ASSUME NEW m \in 1..cps[k].count
                   PROVE  more[m].block <= cps[k].block
        OBVIOUS
      <4>1. /\ cps[k].count \in Nat /\ cps[k].count <= Len(log)
            /\ log[m].block <= cps[k].block
        BY <1>3, <2>2
      <4>2. m \in 1..Len(log)
        BY <1>1, <4>1
      <4>3. more[m] = log[m]
        BY <4>2
      <4> QED
        BY <4>1, <4>3
    <3>4. /\ all[k].count <= all[k + 1].count
          /\ all[k].block <= all[k + 1].block
      <4>1. CASE k = Len(cps)
        <5>1. all[k + 1] = c
          BY <1>2, <4>1
        <5> QED
          BY <1>1, <1>3, <2>2, <3>1, <5>1
      <4>2. CASE k < Len(cps)
        <5>1. all[k + 1] = cps[k + 1]
          <6>1. k + 1 \in 1..Len(cps)
            BY <1>2, <2>2, <4>2
          <6> QED
            BY <1>2, <6>1
        <5> QED
          BY <1>3, <2>2, <3>1, <4>2, <5>1
      <4> QED
        BY <1>2, <2>2, <4>1, <4>2
    <3> QED
      BY <1>3, <2>2, <3>1, <3>2, <3>3, <3>4
  <2> QED
    BY <1>2, <2>1, <2>2
<1> QED
  BY <1>2, <1>4, <1>5

\* What recording a direct vote does to the log and its checkpoints.
LEMMA RecordEffect ==
    ASSUME GovShape, ActInv, NEW a \in Accounts, NEW id \in Nat,
           RecordDirectActivity(a, id), block' = block, Ids \subseteq Ids',
           id \in Ids', ~LoggedIn(activity, a, id)
    PROVE  /\ activityCheckpoints' \in Seq(Checkpoint)
           /\ \A k \in 1..Len(activity') : activity'[k].proposal \in Ids'
           /\ WithinTime(activityCheckpoints', activity', block')
           /\ OnceIn(activity')
           /\ PrefixesOf(activityCheckpoints', activity')
           /\ \A x, k : LoggedIn(activity', x, k) <=>
                           LoggedIn(activity, x, k) \/ (x = a /\ k = id)
<1> DEFINE e == [account |-> a, proposal |-> id, block |-> block]
           log == activity
           more == Append(log, e)
           c == [acc |-> more, count |-> Len(more), block |-> block]
<1>1. /\ e \in Record /\ e.account = a /\ e.proposal = id /\ e.block = block
      /\ block \in Nat /\ log \in Seq(Record)
  BY DEF GovShape, Record
<1>2. activity' = more /\ activityCheckpoints' = Append(activityCheckpoints, c)
  BY DEF RecordDirectActivity
<1> HIDE DEF e
<1>3. /\ more \in Seq(Record) /\ Len(more) = Len(log) + 1 /\ Len(log) \in Nat
      /\ more[Len(log) + 1] = e
      /\ \A k \in 1..Len(log) : more[k] = log[k]
  BY <1>1
<1>4. /\ \A k \in 1..Len(log) : log[k].proposal \in Ids /\ log[k].block <= block
      /\ activityCheckpoints \in Seq(Checkpoint)
      /\ WithinTime(activityCheckpoints, log, block)
      /\ OnceIn(log) /\ PrefixesOf(activityCheckpoints, log)
  BY DEF ActInv, WithinTime
<1> HIDE DEF more, log
<1>5. \A k \in 1..Len(more) : k \in 1..Len(log) \/ k = Len(log) + 1
  BY <1>3
<1>6. \A k \in 1..Len(more) : more[k].proposal \in Ids' /\ more[k].block <= block
  <2> SUFFICES ASSUME NEW k \in 1..Len(more)
               PROVE  more[k].proposal \in Ids' /\ more[k].block <= block
    OBVIOUS
  <2>1. CASE k = Len(log) + 1
    BY <1>1, <1>3, <2>1
  <2>2. CASE k \in 1..Len(log)
    <3>1. more[k] = log[k] /\ log[k].proposal \in Ids /\ log[k].block <= block
      BY <1>3, <1>4, <2>2
    <3> QED
      BY <3>1
  <2> QED
    BY <1>5, <2>1, <2>2
<1>7. /\ Append(activityCheckpoints, c) \in Seq(Checkpoint)
      /\ PrefixesOf(Append(activityCheckpoints, c), more)
      /\ WithinTime(Append(activityCheckpoints, c), more, block)
  <2>1. Len(more) >= Len(log)
    BY <1>3
  <2>2. c = [acc |-> more, count |-> Len(more), block |-> block]
    OBVIOUS
  <2> HIDE DEF c
  <2> QED
    BY <1>1, <1>3, <1>4, <1>6, <2>1, <2>2, CheckpointJoins
<1>8. \A k \in 1..Len(log) : log[k].account # a \/ log[k].proposal # id
  BY DEF LoggedIn, log
<1>9. OnceIn(more)
  <2> SUFFICES ASSUME NEW k \in 1..Len(more), NEW l \in 1..Len(more), k # l
               PROVE  \/ more[k].account # more[l].account
                      \/ more[k].proposal # more[l].proposal
    BY DEF OnceIn
  <2>1. CASE k \in 1..Len(log) /\ l \in 1..Len(log)
    BY <1>3, <1>4, <2>1 DEF OnceIn
  <2>2. CASE k \in 1..Len(log) /\ l = Len(log) + 1
    BY <1>1, <1>3, <1>8, <2>2
  <2>3. CASE k = Len(log) + 1 /\ l \in 1..Len(log)
    BY <1>1, <1>3, <1>8, <2>3
  <2> QED
    BY <1>5, <2>1, <2>2, <2>3
<1>10. ASSUME NEW x, NEW k
       PROVE  LoggedIn(more, x, k) <=> LoggedIn(log, x, k) \/ (x = a /\ k = id)
  <2>1. ASSUME LoggedIn(log, x, k) PROVE LoggedIn(more, x, k)
    <3>1. PICK n \in 1..Len(log) : log[n].account = x /\ log[n].proposal = k
      BY <2>1 DEF LoggedIn
    <3>2. n \in 1..Len(more) /\ more[n] = log[n]
      BY <1>3
    <3> QED
      BY <3>1, <3>2 DEF LoggedIn
  <2>2. ASSUME x = a, k = id PROVE LoggedIn(more, x, k)
    <3>1. Len(log) + 1 \in 1..Len(more)
      BY <1>3
    <3> QED
      BY <1>1, <1>3, <2>2, <3>1 DEF LoggedIn
  <2>3. ASSUME LoggedIn(more, x, k)
        PROVE  LoggedIn(log, x, k) \/ (x = a /\ k = id)
    <3>1. PICK n \in 1..Len(more) : more[n].account = x /\ more[n].proposal = k
      BY <2>3 DEF LoggedIn
    <3>2. CASE n = Len(log) + 1
      BY <1>1, <1>3, <3>1, <3>2
    <3>3. CASE n \in 1..Len(log)
      BY <1>3, <3>1, <3>3 DEF LoggedIn
    <3> QED
      BY <1>5, <3>2, <3>3
  <2> QED
    BY <2>1, <2>2, <2>3
<1> QED
  BY <1>2, <1>6, <1>7, <1>9, <1>10 DEF log

\* Nothing of the log, the ballots or the proposals moves, and no time is lost.
LEMMA LogStandsStill ==
    ASSUME GovShape, ActInv, UNCHANGED <<activity, activityCheckpoints, ballots>>,
           Ids' = Ids, block' \in Nat, block' >= block
    PROVE  ActInv'
<1>1. WithinTime(activityCheckpoints', activity', block')
  <2>1. block \in Nat /\ WithinTime(activityCheckpoints, activity, block)
        /\ activityCheckpoints \in Seq(Checkpoint) /\ activity \in Seq(Record)
    BY DEF GovShape, ActInv, Record
  <2>2. /\ \A k \in 1..Len(activity) : activity[k].block \in Nat
        /\ \A k \in 1..Len(activityCheckpoints) : activityCheckpoints[k].block \in Nat
    <3>1. /\ \A k \in 1..Len(activity) : activity[k] \in Record
          /\ \A k \in 1..Len(activityCheckpoints) :
                activityCheckpoints[k] \in Checkpoint
      BY <2>1
    <3> QED
      BY <3>1 DEF Record, Checkpoint
  <2>3. /\ \A k \in 1..Len(activity) : activity[k].block <= block'
        /\ \A k \in 1..Len(activityCheckpoints) :
              activityCheckpoints[k].block <= block'
    BY <2>1, <2>2 DEF WithinTime
  <2> QED
    BY <2>1, <2>3 DEF WithinTime
<1>2. LogIsVotes'
  BY DEF ActInv, LogIsVotes
<1> QED
  BY <1>1, <1>2 DEF ActInv

\* A refreshed checkpoint is one more of the same log.
LEMMA RefreshActivity ==
    ASSUME GovShape, ActInv, CheckpointSignerActivity
    PROVE  ActInv'
<1> DEFINE c == [acc |-> activity, count |-> Len(activity), block |-> block]
<1>1. /\ activityCheckpoints' = Append(activityCheckpoints, c)
      /\ UNCHANGED <<block, activity, ballots, proposals>>
  BY DEF CheckpointSignerActivity, proposalVars
<1>2. /\ activity \in Seq(Record) /\ block \in Nat
      /\ activityCheckpoints \in Seq(Checkpoint)
      /\ PrefixesOf(activityCheckpoints, activity)
      /\ WithinTime(activityCheckpoints, activity, block)
      /\ \A k \in 1..Len(activity) : activity[k].block <= block
      /\ Len(activity) >= Len(activity)
  BY DEF GovShape, ActInv, WithinTime, Record
<1>3. /\ Append(activityCheckpoints, c) \in Seq(Checkpoint)
      /\ PrefixesOf(Append(activityCheckpoints, c), activity)
      /\ WithinTime(Append(activityCheckpoints, c), activity, block)
  BY <1>2, CheckpointJoins
<1> HIDE DEF c
<1>4. LogIsVotes' /\ Ids' = Ids
  BY <1>1 DEF ActInv, LogIsVotes, Ids
<1>5. OnceIn(activity') /\ \A k \in 1..Len(activity') : activity'[k].proposal \in Ids'
  BY <1>1, <1>4 DEF ActInv
<1> QED
  BY <1>1, <1>3, <1>4, <1>5 DEF ActInv

\* A member's vote is logged: it is the member's first own vote on the
\* proposal, so the pair is not in the log yet.
LEMMA CastVoteLogged ==
    ASSUME GovShape, ActInv, NEW id \in Ids, NEW a, NEW vote \in VoteType,
           NEW power, CastVote(id, a, vote, power)
    PROVE  ActInv'
<1> DEFINE b == ballots[id]
<1>1. a \in Accounts /\ id \in Nat
  BY StoredProposal, LeafPower DEF CastVote, Ids
<1>2. /\ b \in [Accounts -> Ballots] /\ b[a] \in Ballots
      /\ ballots \in Seq([Accounts -> Ballots]) /\ id \in 1..Len(ballots)
  BY <1>1 DEF GovShape, Ids
<1>3. ~Direct(b[a])
  BY DEF CastVote, MayVote, Direct
<1>4. ~LoggedIn(activity, a, id)
  BY <1>1, <1>3 DEF ActInv, LogIsVotes
<1>5. /\ RecordDirectActivity(a, id) /\ block' = block
  BY DEF CastVote
<1>6. Ids' = Ids
  <2>1. Voted(id)
    BY CastVoteVotes
  <2> QED
    BY <2>1 DEF Voted, Ids
<1>7. PICK e \in Ballots : Direct(e) /\ ballots' = [ballots EXCEPT ![id][a] = e]
  <2>1. CASE ~b[a].hasVoted
    <3>1. ballots' = [ballots EXCEPT ![id][a] = Ballot(vote, power, NoAccount)]
      BY <2>1 DEF CastVote
    <3>2. Direct(Ballot(vote, power, NoAccount))
      BY DEF Direct, Ballot
    <3>3. Ballot(vote, power, NoAccount) \in Ballots
      <4>1. power \in Nat
        BY StoredProposal, LeafPower DEF CastVote
      <4> QED
        BY <4>1, BallotType
    <3> QED
      BY <3>1, <3>2, <3>3
  <2>2. CASE b[a].hasVoted
    <3> DEFINE e == [b[a] EXCEPT !.vote = vote, !.byDelegate = FALSE]
    <3>1. ballots' = [ballots EXCEPT ![id][a].vote = vote,
                                     ![id][a].byDelegate = FALSE]
      BY <2>2 DEF CastVote, OverrideDelegateVote
    <3>2. ballots' = [ballots EXCEPT ![id][a] = e]
      BY <1>1, <1>2, <3>1
    <3>3. e \in Ballots /\ Direct(e)
      BY <1>2, <2>2 DEF Ballots, Direct
    <3> QED
      BY <3>2, <3>3
  <2> QED
    BY <2>1, <2>2
<1>8. /\ ballots'[id][a] = e
      /\ \A k \in Ids : \A x \in Accounts :
            k # id \/ x # a => ballots'[k][x] = ballots[k][x]
  BY <1>1, <1>2, <1>7 DEF Ids
<1>9. /\ activityCheckpoints' \in Seq(Checkpoint)
      /\ \A k \in 1..Len(activity') : activity'[k].proposal \in Ids'
      /\ WithinTime(activityCheckpoints', activity', block')
      /\ OnceIn(activity')
      /\ PrefixesOf(activityCheckpoints', activity')
      /\ \A x, k : LoggedIn(activity', x, k) <=>
                      LoggedIn(activity, x, k) \/ (x = a /\ k = id)
  BY <1>1, <1>4, <1>5, <1>6, RecordEffect
<1>10. ASSUME NEW k \in Ids, NEW x \in Accounts
       PROVE  Direct(ballots'[k][x]) <=> LoggedIn(activity', x, k)
  <2>1. CASE k = id /\ x = a
    BY <1>7, <1>8, <1>9, <2>1
  <2>2. CASE k # id \/ x # a
    <3>1. Direct(ballots[k][x]) <=> LoggedIn(activity, x, k)
      BY DEF ActInv, LogIsVotes
    <3>2. ballots'[k][x] = ballots[k][x]
      BY <1>8, <2>2
    <3> QED
      BY <1>9, <2>2, <3>1, <3>2
  <2> QED
    BY <2>1, <2>2
<1>11. LogIsVotes'
  BY <1>6, <1>10 DEF LogIsVotes
<1> QED
  BY <1>9, <1>11 DEF ActInv

\* A delegate's vote is nobody's activity.
LEMMA DelegateLogged ==
    ASSUME GovShape, ActInv, NEW id \in Ids, NEW principal,
           NEW delegate \in Accounts, NEW vote \in VoteType, NEW power,
           CastVoteAsDelegate(id, principal, delegate, vote, power)
    PROVE  ActInv'
<1> DEFINE e == Ballot(vote, power, delegate)
<1>1. principal \in Accounts
  BY StoredProposal, LeafPower DEF CastVoteAsDelegate
<1>2. /\ ballots \in Seq([Accounts -> Ballots]) /\ id \in 1..Len(ballots)
      /\ ballots[id] \in [Accounts -> Ballots]
  BY DEF GovShape, Ids
<1>3. /\ ballots' = [ballots EXCEPT ![id][principal] = e]
      /\ UNCHANGED <<block, activity, activityCheckpoints>>
      /\ ~ballots[id][principal].hasVoted
  BY DEF CastVoteAsDelegate, activityVars
<1>4. ~Direct(e)
  BY GovAssumption DEF Direct, Ballot
<1> HIDE DEF e
<1>5. Ids' = Ids
  <2>1. Voted(id)
    BY DelegateVotes
  <2> QED
    BY <2>1 DEF Voted, Ids
<1>6. /\ ballots'[id][principal] = e
      /\ \A k \in Ids : \A x \in Accounts :
            k # id \/ x # principal => ballots'[k][x] = ballots[k][x]
  BY <1>1, <1>2, <1>3 DEF Ids
<1>7. ASSUME NEW k \in Ids, NEW x \in Accounts
      PROVE  Direct(ballots'[k][x]) <=> LoggedIn(activity, x, k)
  <2>1. Direct(ballots[k][x]) <=> LoggedIn(activity, x, k)
    BY DEF ActInv, LogIsVotes
  <2>2. CASE k = id /\ x = principal
    BY <1>3, <1>4, <1>6, <2>1, <2>2 DEF Direct
  <2>3. CASE k # id \/ x # principal
    BY <1>6, <2>1, <2>3
  <2> QED
    BY <2>2, <2>3
<1>8. LogIsVotes'
  BY <1>3, <1>5, <1>7 DEF LogIsVotes
<1> QED
  BY <1>3, <1>5, <1>8 DEF ActInv

\* A new proposal has no entries, and its proposer's vote gives it one.
LEMMA ProposeLogged ==
    ASSUME GovShape, ActInv, NEW a, NEW power, NEW batch \in Batches,
           \/ Propose(a, power, batch)
           \/ \E vote \in VoteType : ProposeWithVote(a, power, batch, vote)
    PROVE  ActInv'
<1> DEFINE n == Len(proposals) + 1
<1>1. a \in Accounts /\ n \in Nat
  <2>1. MayPropose(a, power, batch)
    BY DEF Propose, ProposeWithVote
  <2> QED
    BY <2>1, NewProposalType DEF GovShape
<1>2. Added(a, batch)
  BY ProposeAdds, ProposeWithVoteAdds
<1>3. /\ Ids' = Ids \cup {n} /\ n \notin Ids
      /\ \A k \in Ids : ballots'[k] = ballots[k]
      /\ block' = block
  BY <1>2, AddedIds DEF Added
<1>4. \A x : ~LoggedIn(activity, x, n)
  BY <1>3 DEF ActInv, LoggedIn
<1>5. /\ ballots \in Seq([Accounts -> Ballots]) /\ n = Len(ballots) + 1
  BY DEF GovShape
<1>6. \A k \in Ids : \A x \in Accounts :
         Direct(ballots[k][x]) <=> LoggedIn(activity, x, k)
  BY DEF ActInv, LogIsVotes
<1> HIDE DEF n
<1>7. CASE Propose(a, power, batch)
  <2>1. /\ ballots' = Append(ballots, [x \in Accounts |-> NoBallot])
        /\ UNCHANGED <<activity, activityCheckpoints>>
    BY <1>7 DEF Propose, activityVars
  <2>2. \A x \in Accounts : ~Direct(ballots'[n][x])
    BY <1>5, <2>1 DEF Direct, NoBallot
  <2>3. LogIsVotes'
    BY <1>3, <1>4, <1>6, <2>1, <2>2 DEF LogIsVotes
  <2> QED
    BY <1>3, <2>1, <2>3 DEF ActInv
<1>8. ASSUME NEW vote \in VoteType, ProposeWithVote(a, power, batch, vote)
      PROVE  ActInv'
  <2>1. /\ ballots' = Append(ballots, [x \in Accounts |->
                 IF x = a THEN Ballot(vote, power, NoAccount) ELSE NoBallot])
        /\ RecordDirectActivity(a, n)
    BY <1>8 DEF ProposeWithVote, n
  <2>2. \A x \in Accounts : Direct(ballots'[n][x]) <=> x = a
    <3>1. Direct(Ballot(vote, power, NoAccount)) /\ ~Direct(NoBallot)
      BY DEF Direct, NoBallot, Ballot
    <3>2. \A x \in Accounts :
             ballots'[n][x] = IF x = a THEN Ballot(vote, power, NoAccount)
                              ELSE NoBallot
      BY <1>5, <2>1
    <3> QED
      BY <3>1, <3>2
  <2>3. /\ activityCheckpoints' \in Seq(Checkpoint)
        /\ \A k \in 1..Len(activity') : activity'[k].proposal \in Ids'
        /\ WithinTime(activityCheckpoints', activity', block')
        /\ OnceIn(activity')
        /\ PrefixesOf(activityCheckpoints', activity')
        /\ \A x, k : LoggedIn(activity', x, k) <=>
                        LoggedIn(activity, x, k) \/ (x = a /\ k = n)
    BY <1>1, <1>3, <1>4, <2>1, RecordEffect
  <2>4. ASSUME NEW k \in Ids', NEW x \in Accounts
        PROVE  Direct(ballots'[k][x]) <=> LoggedIn(activity', x, k)
    <3>1. CASE k = n
      BY <1>4, <2>2, <2>3, <3>1
    <3>2. CASE k \in Ids
      BY <1>3, <1>6, <2>3, <3>2
    <3> QED
      BY <1>3, <3>1, <3>2
  <2>5. LogIsVotes'
    BY <2>4 DEF LogIsVotes
  <2> QED
    BY <2>3, <2>5 DEF ActInv
<1> QED
  BY <1>7, <1>8

\* Every step keeps the log the direct votes.
LEMMA StepLogged ==
    ASSUME GovShape, ActInv, [Next]_vars
    PROVE  ActInv'
<1>1. CASE Voting
  <2>1. PICK leaf \in UNION {Leaves[r] : r \in Roots}, vote \in VoteType :
          \/ \E batch \in Batches :
                ProposeWithVote(leaf[1], leaf[2], batch, vote)
          \/ \E id \in Ids : CastVote(id, leaf[1], vote, leaf[2])
          \/ \E id \in Ids : \E delegate \in Accounts :
                CastVoteAsDelegate(id, leaf[1], delegate, vote, leaf[2])
    BY <1>1 DEF Voting
  <2> QED
    BY <2>1, ProposeLogged, CastVoteLogged, DelegateLogged
<1>2. ASSUME NEW leaf \in UNION {Leaves[r] : r \in Roots},
             NEW batch \in Batches, Propose(leaf[1], leaf[2], batch)
      PROVE  ActInv'
  BY <1>2, ProposeLogged
<1>3. CASE CheckpointSignerActivity
  BY <1>3, RefreshActivity
<1>4. CASE /\ UNCHANGED <<activity, activityCheckpoints, ballots>>
           /\ Ids' = Ids /\ block' \in {block, block + 1}
  <2>1. block' \in Nat /\ block' >= block
    BY <1>4 DEF GovShape
  <2> QED
    BY <1>4, <2>1, LogStandsStill
<1>5. ASSUME NEW id \in Ids, Execute(id) \/ Cancel(id) PROVE ActInv'
  <2>1. Ids' = Ids
    BY <1>5, ExecuteEffect, CancelEffect
  <2> QED
    BY <1>4, <1>5, <2>1 DEF Execute, Cancel, activityVars
<1>6. CASE \/ \E s \in Snapshots, r \in Roots \cup {NoRoot} : AcceptRoot(s, r)
           \/ \E s \in Snapshots : SetMerkleSnapshotContract(s)
           \/ PublishInitialSnapshotBinding
           \/ Configure
           \/ \E t \in Targets, allowed \in BOOLEAN :
                 SetDelegateCallTarget(t, allowed)
           \/ \E x \in Accounts, delegate \in Accounts \cup {NoAccount} :
                 SetVoteDelegate(x, delegate)
           \/ Tick
           \/ UNCHANGED vars
  <2>1. /\ UNCHANGED <<activity, activityCheckpoints, ballots, proposals>>
        /\ block' \in {block, block + 1}
    BY <1>6 DEF AcceptRoot, SetMerkleSnapshotContract,
       PublishInitialSnapshotBinding, Configure, SetDelegateCallTarget,
       SetVoteDelegate, Tick, vars, activityVars, proposalVars
  <2> QED
    BY <1>4, <2>1 DEF Ids
<1> QED
  BY <1>1, <1>2, <1>3, <1>5, <1>6 DEF Next

\* The signer-activity log is evidence of presence, for any members, delegates
\* and proposals: one entry per direct vote, none for a delegate's, and every
\* checkpoint a prefix of it.
THEOREM ActivityIsAlwaysDirect == Spec => []ActivityIsDirect
<1>1. Init => ActInv
  <2> SUFFICES ASSUME Init PROVE ActInv
    OBVIOUS
  <2>1. /\ proposals = <<>> /\ activity = <<>> /\ activityCheckpoints = <<>>
    BY DEF Init
  <2> QED
    BY <2>1 DEF ActInv, WithinTime, LogIsVotes, OnceIn, PrefixesOf, Ids
<1>2. GovInv /\ ActInv /\ [Next]_vars => ActInv'
  BY StepLogged DEF GovInv
<1> QED
  BY <1>1, <1>2, ActInvIsDirect, GovInvariant, PTL DEF Spec
=============================================================================
