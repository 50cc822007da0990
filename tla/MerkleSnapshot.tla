--------------------------- MODULE MerkleSnapshot ---------------------------
(***************************************************************************)
(* The snapshot lifecycle of contracts/src/merkle/MerkleSnapshot.sol and   *)
(* the lane-1 accumulator it freezes                                       *)
(* (contracts/src/eas/AttestationAccumulator.sol).                         *)
(*                                                                         *)
(* Anyone folds attestations into the accumulator (lane 1) and appends     *)
(* anchors to the registry (lane 2); anyone calls trigger(), which freezes *)
(* both lanes as a checkpoint and pins the parameters it must be proven    *)
(* under; anyone calls submitProof() with a proof for a checkpoint, which  *)
(* files the proven root in the block-indexed history.  Governance turns   *)
(* the knobs at any moment in between.  Every action is one transaction;   *)
(* any number of transactions share a block.                               *)
(*                                                                         *)
(* A leaf or an anchor is represented by the block it was folded in, and   *)
(* the chained hash over a log by the log itself: keccak chaining is taken *)
(* to be injective.  The outputs of the proven program (root, blob digest, *)
(* CID, total value, skip digest) are one value, Compute(...): what that   *)
(* program returns on the committed inputs.                                *)
(*                                                                         *)
(* Roles, hooks and metadata do not interact with this state and are in    *)
(* SnapshotGovernance.                                                     *)
(***************************************************************************)
EXTENDS Integers, Sequences, FiniteSets

CONSTANTS
    Accumulators,    \* lane-1 contracts governance may point the snapshot at
    Registries,      \* lane-2 contracts governance may point it at
    WorkAware,       \* the registries that implement workCount()
    NoRegistry,      \* the zero address: a lane-1-only instance
    WorkUnits,       \* work one anchor adds, as a registry reports it
    Params,          \* the nonzero parameter hashes
    NoParams,        \* the zero hash
    Verifiers,       \* the verifiers governance may install
    Recipients,      \* payees a proof may commit
    NoRecipient,     \* the zero address: no payee
    EpochLengths,    \* schedules governance may set; 0 disables the schedule
    NoState,         \* an unwritten slot of states and its parallel mappings
    MaxBlock,        \* bound: last block
    MaxLeaves,       \* bound: leaves per accumulator
    MaxAnchors,      \* bound: anchors per registry
    MaxCheckpoints   \* bound: calls of trigger() that succeed

ASSUME BoundsAssumption ==
    /\ MaxBlock \in Nat /\ MaxLeaves \in Nat /\ MaxAnchors \in Nat
    /\ MaxCheckpoints \in Nat
    /\ EpochLengths \subseteq Nat
    /\ WorkUnits \subseteq Nat
    /\ WorkAware \subseteq Registries

ASSUME ZeroValuesAssumption ==
    /\ NoRegistry \notin Registries
    /\ NoParams \notin Params
    /\ NoRecipient \notin Recipients

VARIABLES
    block,                  \* block.number
    \* AttestationAccumulator, per contract
    lane1,                  \* the log behind acc; leafCount is its length
    checkpoints,            \* Checkpoint[] checkpoints
    bound,                  \* snapshot == this snapshot
    \* the anchor registry, per contract
    lane2,                  \* the log behind anchorAcc
    work,                   \* what workCount() returns
    \* MerkleSnapshot: configuration
    accumulator, anchorRegistry, zkVerifier, paramsHash,
    epochLength, epochOriginBlock, lastTriggerBlock,
    \* MerkleSnapshot: checkpoints
    nextCheckpointId,
    pin,                    \* checkpointParamsHash, checkpointVerifier,
                            \* anchorCheckpoints, checkpointWorkCount
    \* MerkleSnapshot: accepted proofs
    hasAppliedCheckpoint, lastAppliedCheckpoint, checkpointRecipient,
    stateBlocks, blockToStateIndex, states,
    provenanceEnabled, stateProvenance, acceptedCheckpoints,
    applied                 \* the MerkleProofSubmitted events, in order

laneVars == <<lane1, bound, lane2, work>>
configVars == <<accumulator, anchorRegistry, zkVerifier, paramsHash,
                epochLength, epochOriginBlock>>
freezeVars == <<checkpoints, lastTriggerBlock, nextCheckpointId, pin>>
historyVars == <<hasAppliedCheckpoint, lastAppliedCheckpoint,
                 checkpointRecipient, stateBlocks, blockToStateIndex, states,
                 stateProvenance, acceptedCheckpoints, applied>>
vars == <<block, laneVars, configVars, freezeVars, provenanceEnabled,
          historyVars>>

-----------------------------------------------------------------------------
Blocks == 0..MaxBlock
CheckpointIds == 0..(MaxCheckpoints - 1)
StateIndices == 0..(MaxCheckpoints - 1)

\* A log of leaves or anchors, by the block each was appended in.
Logs == Seq(Blocks)

\* struct Checkpoint of IAttestationAccumulator.
Checkpoint == [acc : Logs, leafCount : Nat, blockNumber : Blocks]

\* What trigger() records for a checkpoint id, and the zero value of those
\* mappings.
Pin == [params : Params \cup {NoParams}, verifier : Verifiers \cup {NoState},
        anchorAcc : Logs, anchorCount : Nat, workCount : Nat]
Unpinned == [params |-> NoParams, verifier |-> NoState,
             anchorAcc |-> <<>>, anchorCount |-> 0, workCount |-> 0]

\* What the guest behind verifier v returns on two logs and parameters.
Compute(v, log1, log2, p) ==
    [program |-> v, lane1 |-> log1, lane2 |-> log2, params |-> p]
Roots == [program : Verifiers, lane1 : Logs, lane2 : Logs, params : Params]

\* struct MerkleState; timestamp stands for the block of acceptance.
MerkleState == [blockNumber : Blocks, timestamp : Blocks, root : Roots]

\* struct StateProvenance.  The verifier stands for its code hash and key.
Provenance == [stateIndex : StateIndices, checkpointId : CheckpointIds,
               acceptedAtBlock : Blocks, params : Params, verifier : Verifiers]

Init ==
    /\ block = 0
    /\ lane1 = [a \in Accumulators |-> <<>>]
    /\ checkpoints = [a \in Accumulators |-> <<>>]
    /\ bound = [a \in Accumulators |-> FALSE]
    /\ lane2 = [r \in Registries |-> <<>>]
    /\ work = [r \in Registries |-> 0]
    /\ accumulator \in Accumulators
    /\ anchorRegistry = NoRegistry
    /\ zkVerifier \in Verifiers
    /\ paramsHash \in Params
    /\ epochLength = 0
    /\ epochOriginBlock = 0
    /\ lastTriggerBlock = 0
    /\ nextCheckpointId = 0
    /\ pin = [id \in CheckpointIds |-> Unpinned]
    /\ hasAppliedCheckpoint = FALSE
    /\ lastAppliedCheckpoint = 0
    /\ checkpointRecipient = [id \in CheckpointIds |-> NoRecipient]
    /\ stateBlocks = <<>>
    /\ blockToStateIndex = [b \in Blocks |-> 0]
    /\ states = [i \in StateIndices |-> NoState]
    /\ provenanceEnabled = FALSE
    /\ stateProvenance = [i \in StateIndices |-> NoState]
    /\ acceptedCheckpoints = [id \in CheckpointIds |-> NoState]
    /\ applied = <<>>

-----------------------------------------------------------------------------
(* The chain and the two input lanes.                                      *)

Tick ==
    /\ block < MaxBlock
    /\ block' = block + 1
    /\ UNCHANGED <<laneVars, configVars, freezeVars, provenanceEnabled,
                   historyVars>>

\* _foldAt: extend the chained hash and count the leaf.
FoldAt(a) ==
    /\ Len(lane1[a]) < MaxLeaves
    /\ lane1' = [lane1 EXCEPT ![a] = Append(@, block)]
    /\ UNCHANGED <<block, checkpoints, bound, lane2, work, configVars,
                   lastTriggerBlock, nextCheckpointId, pin, provenanceEnabled,
                   historyVars>>

\* The registry's anchor(): one more anchor, w more units of work.
Anchor(r, w) ==
    /\ Len(lane2[r]) < MaxAnchors
    /\ lane2' = [lane2 EXCEPT ![r] = Append(@, block)]
    /\ work' = [work EXCEPT ![r] = @ + w]
    /\ UNCHANGED <<block, lane1, bound, configVars, freezeVars,
                   provenanceEnabled, historyVars>>

\* One-shot, and only once the snapshot already reads this accumulator.
BindSnapshot(a) ==
    /\ ~bound[a]
    /\ accumulator = a
    /\ bound' = [bound EXCEPT ![a] = TRUE]
    /\ UNCHANGED <<block, lane1, lane2, work, configVars, freezeVars,
                   provenanceEnabled, historyVars>>

-----------------------------------------------------------------------------
(* Governance knobs.                                                       *)

HasCheckpoints == nextCheckpointId > 0

SetZkVerifier(v) ==
    /\ zkVerifier' = v
    /\ UNCHANGED <<block, laneVars, accumulator, anchorRegistry, paramsHash,
                   epochLength, epochOriginBlock, freezeVars,
                   provenanceEnabled, historyVars>>

\* Faulty variant: rotation stays open after the first checkpoint.
SetAccumulatorUnlocked(a) ==
    /\ accumulator' = a
    /\ UNCHANGED <<block, laneVars, anchorRegistry, zkVerifier, paramsHash,
                   epochLength, epochOriginBlock, freezeVars,
                   provenanceEnabled, historyVars>>

\* Re-pointing is refused once either contract has a checkpoint.
SetAccumulator(a) ==
    /\ \/ a = accumulator
       \/ checkpoints[accumulator] = <<>> /\ checkpoints[a] = <<>>
    /\ accumulator' = a
    /\ UNCHANGED <<block, laneVars, anchorRegistry, zkVerifier, paramsHash,
                   epochLength, epochOriginBlock, freezeVars,
                   provenanceEnabled, historyVars>>

SetParamsHash(p) ==
    /\ p # NoParams
    /\ paramsHash' = p
    /\ UNCHANGED <<block, laneVars, accumulator, anchorRegistry, zkVerifier,
                   epochLength, epochOriginBlock, freezeVars,
                   provenanceEnabled, historyVars>>

EnableStateProvenance ==
    /\ ~provenanceEnabled => stateBlocks = <<>>
    /\ provenanceEnabled' = TRUE
    /\ UNCHANGED <<block, laneVars, configVars, freezeVars, historyVars>>

\* Faulty variant: the registry may be swapped between two checkpoints.
SetAnchorRegistryUnlocked(r) ==
    /\ anchorRegistry' = r
    /\ UNCHANGED <<block, laneVars, accumulator, zkVerifier, paramsHash,
                   epochLength, epochOriginBlock, freezeVars,
                   provenanceEnabled, historyVars>>

SetAnchorRegistry(r) ==
    /\ r = anchorRegistry \/ ~HasCheckpoints
    /\ anchorRegistry' = r
    /\ UNCHANGED <<block, laneVars, accumulator, zkVerifier, paramsHash,
                   epochLength, epochOriginBlock, freezeVars,
                   provenanceEnabled, historyVars>>

\* A changed nonzero length anchors a new phase here; zero clears the origin
\* but keeps lastTriggerBlock; the same length changes nothing.
SetEpochLength(n) ==
    /\ epochLength' = n
    /\ epochOriginBlock' = IF n = epochLength THEN epochOriginBlock
                           ELSE IF n = 0 THEN 0 ELSE block
    /\ lastTriggerBlock' = IF n = epochLength \/ n = 0
                           THEN lastTriggerBlock ELSE block
    /\ UNCHANGED <<block, laneVars, accumulator, anchorRegistry, zkVerifier,
                   paramsHash, checkpoints, nextCheckpointId, pin,
                   provenanceEnabled, historyVars>>

-----------------------------------------------------------------------------
(* trigger()                                                               *)

EpochElapsed == epochLength > 0 => block >= lastTriggerBlock + epochLength

\* Faulty variant: a late trigger consumes only the oldest open boundary.
NextBoundary == IF epochLength = 0 THEN block
                ELSE lastTriggerBlock + epochLength

\* The boundary of the epoch this block is in, however late the caller is.
ConsumedBoundary ==
    IF epochLength = 0 THEN block
    ELSE epochOriginBlock
         + ((block - epochOriginBlock) \div epochLength) * epochLength

\* The live lane-2 pair, the zero pair without a registry.
LiveAnchors == IF anchorRegistry = NoRegistry THEN <<>>
               ELSE lane2[anchorRegistry]

\* Lane-2 work, the raw anchor count when workCount() is absent or too small.
LiveAnchorWork(anchorCount) ==
    IF anchorRegistry = NoRegistry THEN 0
    ELSE IF anchorRegistry \in WorkAware /\ work[anchorRegistry] >= anchorCount
         THEN work[anchorRegistry]
         ELSE anchorCount

\* Faulty variant: an unchanged checkpoint is never refused.
NeverRefuses == FALSE

\* The NoNewInputs revert: both lanes, the parameters and the verifier are
\* what the newest checkpoint froze.
NoNewInputs ==
    /\ HasCheckpoints
    /\ LET prevId == Len(checkpoints[accumulator]) - 1
           prev == checkpoints[accumulator][prevId + 1]
       IN  /\ lane1[accumulator] = prev.acc
           /\ Len(lane1[accumulator]) = prev.leafCount
           /\ LiveAnchors = pin[prevId].anchorAcc
           /\ Len(LiveAnchors) = pin[prevId].anchorCount
           /\ paramsHash = pin[nextCheckpointId - 1].params
           /\ zkVerifier = pin[nextCheckpointId - 1].verifier

\* The accumulator's checkpoint(), callable only by the bound snapshot.
AccumulatorCheckpoint ==
    /\ bound[accumulator]
    /\ checkpoints' = [checkpoints EXCEPT ![accumulator] =
           Append(@, [acc |-> lane1[accumulator],
                      leafCount |-> Len(lane1[accumulator]),
                      blockNumber |-> block])]

\* Faulty variant: the pins are written under the id after the increment.
PinNext(id) ==
    pin' = [i \in CheckpointIds |->
              IF i = id + 1
              THEN [params |-> paramsHash, verifier |-> zkVerifier,
                    anchorAcc |-> LiveAnchors,
                    anchorCount |-> Len(LiveAnchors),
                    workCount |-> LiveAnchorWork(Len(LiveAnchors))]
              ELSE pin[i]]

PinCheckpoint(id) ==
    pin' = [pin EXCEPT ![id] =
              [params |-> paramsHash, verifier |-> zkVerifier,
               anchorAcc |-> LiveAnchors, anchorCount |-> Len(LiveAnchors),
               workCount |-> LiveAnchorWork(Len(LiveAnchors))]]

Trigger ==
    /\ nextCheckpointId < MaxCheckpoints
    /\ EpochElapsed
    /\ ~NoNewInputs
    /\ lastTriggerBlock' = ConsumedBoundary
    /\ AccumulatorCheckpoint
    /\ Len(checkpoints[accumulator]) = nextCheckpointId
    /\ nextCheckpointId' = nextCheckpointId + 1
    /\ PinCheckpoint(nextCheckpointId)
    /\ UNCHANGED <<block, laneVars, configVars, provenanceEnabled, historyVars>>

-----------------------------------------------------------------------------
(* submitProof()                                                           *)

\* The checkpoint the accumulator stored under an id.
CheckpointOf(id) == checkpoints[accumulator][id + 1]

\* Faulty variant: an already applied checkpoint may be applied again.
NotOlder(id) == hasAppliedCheckpoint => id >= lastAppliedCheckpoint

\* An older (or equal) checkpoint cannot clobber a newer applied one.
NotStale(id) == hasAppliedCheckpoint => id > lastAppliedCheckpoint

\* Faulty variant: the journal names the parameters in force, not the pinned.
LiveParamsJournal(id, root, recipient) ==
    [acc |-> CheckpointOf(id).acc, leafCount |-> CheckpointOf(id).leafCount,
     anchorAcc |-> pin[id].anchorAcc, anchorCount |-> pin[id].anchorCount,
     params |-> paramsHash, root |-> root, recipient |-> recipient]

\* The journal: everything the digest binds.  It has no checkpoint id.
Journal(id, root, recipient) ==
    [acc |-> CheckpointOf(id).acc, leafCount |-> CheckpointOf(id).leafCount,
     anchorAcc |-> pin[id].anchorAcc, anchorCount |-> pin[id].anchorCount,
     params |-> pin[id].params, root |-> root, recipient |-> recipient]

\* verify(): a proof of the journal exists for the verifier's program exactly
\* when the journal states what that program computes from its inputs.
Verify(v, j) ==
    /\ j.root = Compute(v, j.acc, j.anchorAcc, j.params)
    /\ j.leafCount = Len(j.acc)
    /\ j.anchorCount = Len(j.anchorAcc)

\* Faulty variant: the state is filed at the block of submission.
FiledAtSubmission(id) == block

\* The state is filed at the block the inputs froze in.
FilingBlock(id) == CheckpointOf(id).blockNumber

\* The slot _updateStateAtBlock writes: a new one, or the newest again when
\* the block is the same.
StateIndexAt(b) ==
    IF stateBlocks = <<>> \/ stateBlocks[Len(stateBlocks)] # b
    THEN Len(stateBlocks)
    ELSE blockToStateIndex[b]

\* The NonMonotonicStateBlock check passes.
Monotonic(b) ==
    stateBlocks # <<>> => b >= stateBlocks[Len(stateBlocks)]

UpdateStateAtBlock(b, root) ==
    /\ Monotonic(b)
    /\ IF stateBlocks = <<>> \/ stateBlocks[Len(stateBlocks)] # b
       THEN /\ blockToStateIndex' =
                   [blockToStateIndex EXCEPT ![b] = StateIndexAt(b)]
            /\ stateBlocks' = Append(stateBlocks, b)
       ELSE UNCHANGED <<blockToStateIndex, stateBlocks>>
    /\ states' = [states EXCEPT ![StateIndexAt(b)] =
                    [blockNumber |-> b, timestamp |-> block, root |-> root]]

\* The provenance records, when the instance opted in.
RecordProvenance(id, root) ==
    LET i == StateIndexAt(FilingBlock(id))
        p == [stateIndex |-> i, checkpointId |-> id, acceptedAtBlock |-> block,
              params |-> pin[id].params, verifier |-> zkVerifier]
    IN  IF provenanceEnabled
        THEN /\ stateProvenance' = [stateProvenance EXCEPT ![i] = p]
             /\ acceptedCheckpoints' = [acceptedCheckpoints EXCEPT ![id] =
                   [state |-> [blockNumber |-> FilingBlock(id),
                               timestamp |-> block, root |-> root],
                    provenance |-> p]]
        ELSE UNCHANGED <<stateProvenance, acceptedCheckpoints>>

\* Every revert of submitProof() is behind one of these conditions.
Accepts(id, root, recipient) ==
    /\ NotStale(id)
    /\ id < Len(checkpoints[accumulator])
    /\ pin[id].params # NoParams
    /\ Verify(zkVerifier, Journal(id, root, recipient))
    /\ Monotonic(FilingBlock(id))

SubmitProof(id, root, recipient) ==
    /\ Accepts(id, root, recipient)
    /\ lastAppliedCheckpoint' = id
    /\ hasAppliedCheckpoint' = TRUE
    /\ checkpointRecipient' = [checkpointRecipient EXCEPT ![id] = recipient]
    /\ UpdateStateAtBlock(FilingBlock(id), root)
    /\ RecordProvenance(id, root)
    /\ applied' = Append(applied, [checkpointId |-> id, root |-> root,
                                   recipient |-> recipient])
    /\ UNCHANGED <<block, laneVars, configVars, freezeVars, provenanceEnabled>>

\* The outputs some prover can hold a proof for: any program, any parameters,
\* the inputs of any checkpoint.
ProvableRoots ==
    {Compute(v, CheckpointOf(id).acc, pin[id].anchorAcc, p) :
        v \in Verifiers, p \in Params, id \in 0..(nextCheckpointId - 1)}

-----------------------------------------------------------------------------
Govern ==
    \/ \E v \in Verifiers : SetZkVerifier(v)
    \/ \E a \in Accumulators : SetAccumulator(a)
    \/ \E p \in Params \cup {NoParams} : SetParamsHash(p)
    \/ EnableStateProvenance
    \/ \E r \in Registries \cup {NoRegistry} : SetAnchorRegistry(r)
    \/ \E n \in EpochLengths : SetEpochLength(n)

Next ==
    \/ Tick
    \/ \E a \in Accumulators : FoldAt(a)
    \/ \E r \in Registries, w \in WorkUnits : Anchor(r, w)
    \/ \E a \in Accumulators : BindSnapshot(a)
    \/ Govern
    \/ Trigger
    \/ \E id \in 0..(nextCheckpointId - 1), root \in ProvableRoots,
          recipient \in Recipients \cup {NoRecipient} :
          SubmitProof(id, root, recipient)

Spec == Init /\ [][Next]_vars

-----------------------------------------------------------------------------
(* Reads of the block-indexed history.                                     *)

\* Faulty variant: the upper half is searched from mid + 2.
TurnSkippingOne(b, s) ==
    LET mid == (s.left + s.right) \div 2
        midBlock == stateBlocks[mid + 1]
        index == blockToStateIndex[midBlock]
    IN  IF s.left >= s.right THEN s
        ELSE IF midBlock = b
        THEN [left |-> mid + 1, right |-> mid + 1, result |-> index]
        ELSE IF midBlock < b
        THEN [left |-> mid + 2, right |-> s.right, result |-> index]
        ELSE [left |-> s.left, right |-> mid, result |-> s.result]

\* One turn of the binary search's loop.  An exact match returns at once: it
\* closes the interval, which no later turn opens.
SearchTurn(b, s) ==
    LET mid == (s.left + s.right) \div 2
        midBlock == stateBlocks[mid + 1]
        index == blockToStateIndex[midBlock]
    IN  IF s.left >= s.right THEN s
        ELSE IF midBlock = b
        THEN [left |-> mid + 1, right |-> mid + 1, result |-> index]
        ELSE IF midBlock < b
        THEN [left |-> mid + 1, right |-> s.right, result |-> index]
        ELSE [left |-> s.left, right |-> mid, result |-> s.result]

\* The loop after n turns; result -1 is foundResult == false.
Search(b) ==
    LET after[n \in 0..Len(stateBlocks)] ==
            IF n = 0
            THEN [left |-> 0, right |-> Len(stateBlocks), result |-> -1]
            ELSE SearchTurn(b, after[n - 1])
    IN  after

\* _findStateIndexAtOrBeforeBlock: every turn shortens the interval, so as
\* many turns as there are blocks end the loop.
FindStateIndexAtOrBeforeBlock(b) == Search(b)[Len(stateBlocks)].result

\* getStateAtBlock: a direct hit, else the search; NoState is a revert.
GetStateAtBlock(b) ==
    LET direct == blockToStateIndex[b]
        found == FindStateIndexAtOrBeforeBlock(b)
    IN  IF stateBlocks = <<>> THEN NoState
        ELSE IF stateBlocks[direct + 1] = b THEN states[direct]
        ELSE IF found = -1 THEN NoState ELSE states[found]

\* getLatestState
GetLatestState == IF stateBlocks = <<>> THEN NoState
                  ELSE states[Len(stateBlocks) - 1]

-----------------------------------------------------------------------------
(* Properties.                                                             *)

Ids == 0..(nextCheckpointId - 1)

\* Every variable has its type.  The pins and the records of accepted proofs
\* are well formed, so a zero parameter hash is never in force or pinned by a
\* trigger, and no state is filed at a block beyond the chain's.
TypeOK ==
    /\ block \in Blocks
    /\ lane1 \in [Accumulators -> Logs]
    /\ checkpoints \in [Accumulators -> Seq(Checkpoint)]
    /\ bound \in [Accumulators -> BOOLEAN]
    /\ lane2 \in [Registries -> Logs]
    /\ work \in [Registries -> Nat]
    /\ accumulator \in Accumulators
    /\ anchorRegistry \in Registries \cup {NoRegistry}
    /\ zkVerifier \in Verifiers
    /\ paramsHash \in Params
    /\ epochLength \in EpochLengths \cup {0}
    /\ epochOriginBlock \in Blocks
    /\ lastTriggerBlock \in Blocks
    /\ nextCheckpointId \in 0..MaxCheckpoints
    /\ pin \in [CheckpointIds -> Pin]
    /\ hasAppliedCheckpoint \in BOOLEAN
    /\ lastAppliedCheckpoint \in Nat
    /\ checkpointRecipient \in [CheckpointIds -> Recipients \cup {NoRecipient}]
    /\ stateBlocks \in Seq(Blocks)
    /\ blockToStateIndex \in [Blocks -> Nat]
    /\ states \in [StateIndices -> MerkleState \cup {NoState}]
    /\ provenanceEnabled \in BOOLEAN
    /\ stateProvenance \in [StateIndices -> Provenance \cup {NoState}]
    /\ acceptedCheckpoints \in [CheckpointIds ->
           [state : MerkleState, provenance : Provenance] \cup {NoState}]
    /\ applied \in Seq([checkpointId : CheckpointIds, root : Roots,
                        recipient : Recipients \cup {NoRecipient}])

\* trigger() cannot be wedged by its own id check: whatever accumulator the
\* snapshot was pointed at before its first checkpoint, the accumulator's next
\* id is the one the snapshot expects (UnexpectedCheckpointId never fires),
\* and no other accumulator holds checkpoints of this snapshot.
IdsInStep ==
    /\ Len(checkpoints[accumulator]) = nextCheckpointId
    /\ \A a \in Accumulators \ {accumulator} : checkpoints[a] = <<>>

\* A checkpoint newer than the applied one can always still be landed: no
\* rotation of parameters, schedule, registry or accumulator, no other proof
\* and no delay makes submitProof() revert on an honest proof under the
\* verifier in force (StaleCheckpoint, UnpinnedCheckpoint,
\* NonMonotonicStateBlock and the journal check all pass).
PendingStaysProvable ==
    \A id \in Ids : NotStale(id) =>
        \A recipient \in Recipients \cup {NoRecipient} :
            Accepts(id, Compute(zkVerifier, CheckpointOf(id).acc,
                                pin[id].anchorAcc, pin[id].params), recipient)

\* The history is strictly ascending by block, its two indexes are inverse,
\* and the newest slot belongs to the last applied checkpoint.
HistoryAscending ==
    /\ \A i, j \in 1..Len(stateBlocks) :
          i < j => stateBlocks[i] < stateBlocks[j]
    /\ \A i \in 1..Len(stateBlocks) :
          blockToStateIndex[stateBlocks[i]] = i - 1
    /\ hasAppliedCheckpoint <=> stateBlocks # <<>>
    /\ hasAppliedCheckpoint =>
          stateBlocks[Len(stateBlocks)] = FilingBlock(lastAppliedCheckpoint)

\* A slot holds what some program computed from exactly the inputs and the
\* parameters that the newest applied checkpoint of that block froze, not
\* those in force when the proof landed.
SlotsProvePinnedInputs ==
    \A i \in 1..Len(stateBlocks) :
        \E k \in 1..Len(applied) :
            LET id == applied[k].checkpointId IN
            /\ FilingBlock(id) = stateBlocks[i]
            /\ \A l \in (k + 1)..Len(applied) :
                  FilingBlock(applied[l].checkpointId) # stateBlocks[i]
            /\ states[i - 1].blockNumber = stateBlocks[i]
            /\ states[i - 1].root =
                  Compute(states[i - 1].root.program, CheckpointOf(id).acc,
                          pin[id].anchorAcc, pin[id].params)

\* A log is what was live at block b: nothing appended later, and everything
\* appended earlier, of the log it is a prefix of.
AsOf(prefix, log, b) ==
    /\ Len(prefix) <= Len(log)
    /\ \A k \in 1..Len(prefix) : prefix[k] = log[k] /\ log[k] <= b
    /\ \A k \in (Len(prefix) + 1)..Len(log) : log[k] >= b

\* "Score as of block N" is honest: the state filed at block N was computed
\* from both lanes as they stood in block N, however late the proof landed.
StatesAreAsOfTheirBlock ==
    \A i \in 1..Len(stateBlocks) :
        /\ AsOf(states[i - 1].root.lane1, lane1[accumulator], stateBlocks[i])
        /\ AsOf(states[i - 1].root.lane2, LiveAnchors, stateBlocks[i])

\* getStateAtBlock(N) returns the newest state filed at or before N, and
\* reverts exactly when there is none.
QueriesFindNewestAtOrBefore ==
    \A b \in Blocks :
        LET before == {i \in 1..Len(stateBlocks) : stateBlocks[i] <= b} IN
        GetStateAtBlock(b) =
            IF before = {} THEN NoState ELSE states[Cardinality(before) - 1]

\* One proof can serve two checkpoints (the journal has no checkpoint id) only
\* when governance changed the parameters or the verifier between them.
RepeatedStatementNeedsRotation ==
    \A i, j \in Ids :
        (/\ i < j
         /\ CheckpointOf(i).acc = CheckpointOf(j).acc
         /\ pin[i].anchorAcc = pin[j].anchorAcc)
        => \E k \in i..(j - 1) : \/ pin[k].params # pin[k + 1].params
                                 \/ pin[k].verifier # pin[k + 1].verifier

\* Under a schedule no epoch gets two checkpoints and the phase never drifts:
\* the checkpoints frozen since the schedule was anchored are in pairwise
\* different epochs, none in the anchoring epoch, and the last consumed
\* boundary is a whole number of epochs after the origin.
OneCheckpointPerEpoch ==
    epochLength > 0 =>
        LET epoch(id) ==
                (FilingBlock(id) - epochOriginBlock) \div epochLength
            since == {id \in Ids : FilingBlock(id) > epochOriginBlock}
        IN  /\ \A i \in since : epoch(i) >= 1
            /\ \A i, j \in since : i # j => epoch(i) # epoch(j)
            /\ (lastTriggerBlock - epochOriginBlock) % epochLength = 0

\* An accepted checkpoint's record, payee and pins are never rewritten, and
\* the applied checkpoint only moves forward.
AcceptedRecordsAreFinal ==
    [][/\ \A id \in CheckpointIds :
             /\ acceptedCheckpoints[id] # NoState =>
                   acceptedCheckpoints'[id] = acceptedCheckpoints[id]
             /\ id < nextCheckpointId => pin'[id] = pin[id]
             /\ hasAppliedCheckpoint /\ id <= lastAppliedCheckpoint =>
                   checkpointRecipient'[id] = checkpointRecipient[id]
       /\ lastAppliedCheckpoint' >= lastAppliedCheckpoint]_vars

-----------------------------------------------------------------------------
(* The strengthening that makes the safety invariants inductive.           *)

\* The schedule never looks ahead of the chain.
ClockBounds == epochOriginBlock <= block /\ lastTriggerBlock <= block

\* A checkpoint is complete, pinned and of the past, and ids follow blocks.
CheckpointsWellFormed ==
    /\ \A id \in Ids :
          /\ CheckpointOf(id).leafCount = Len(CheckpointOf(id).acc)
          /\ CheckpointOf(id).blockNumber <= block
          /\ pin[id].anchorCount = Len(pin[id].anchorAcc)
          /\ pin[id].params \in Params
          /\ pin[id].verifier \in Verifiers
    /\ \A i, j \in Ids :
          i <= j => CheckpointOf(i).blockNumber <= CheckpointOf(j).blockNumber

\* Accepted records are of checkpoints up to the applied one, which exists;
\* there are at most as many slots as checkpoints up to it.
AppliedBounds ==
    /\ hasAppliedCheckpoint =>
          /\ lastAppliedCheckpoint < nextCheckpointId
          /\ Len(stateBlocks) <= lastAppliedCheckpoint + 1
    /\ ~hasAppliedCheckpoint => lastAppliedCheckpoint = 0
    /\ \A id \in CheckpointIds :
          acceptedCheckpoints[id] # NoState =>
              hasAppliedCheckpoint /\ id <= lastAppliedCheckpoint

\* The event log ends with the applied checkpoint.
AppliedLogEnds ==
    /\ hasAppliedCheckpoint <=> applied # <<>>
    /\ hasAppliedCheckpoint =>
          applied[Len(applied)].checkpointId = lastAppliedCheckpoint

SnapshotInv ==
    /\ TypeOK
    /\ IdsInStep
    /\ ClockBounds
    /\ CheckpointsWellFormed
    /\ HistoryAscending
    /\ AppliedBounds
    /\ AppliedLogEnds

\* What a checkpoint froze, as a consumer sees it.
FrozenAt(id) ==
    [lane1 |-> checkpoints[accumulator][id + 1].acc,
     lane2 |-> pin[id].anchorAcc,
     params |-> pin[id].params, verifier |-> pin[id].verifier]
FrozenInputs == [lane1 : Logs, lane2 : Logs, params : Params,
                 verifier : Verifiers]
ComputeFrozen(v, s) == Compute(v, s.lane1, s.lane2, s.params)

History == INSTANCE ProvenHistory WITH
    Frozen <- FrozenInputs, Programs <- Verifiers,
    Payees <- Recipients \cup {NoRecipient}, Output <- ComputeFrozen,
    issued <- [k \in 1..nextCheckpointId |-> FrozenAt(k - 1)],
    accepted <- applied

\* The contract implements the append-only history its consumers rely on:
\* whatever governance, provers and triggers do, in any order, what was frozen
\* and what was accepted is only ever appended to, as ProvenHistory allows.
ImplementsProvenHistory == History!Spec
=============================================================================
