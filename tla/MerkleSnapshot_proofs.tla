------------------------ MODULE MerkleSnapshot_proofs ------------------------
(***************************************************************************)
(* Proofs about MerkleSnapshot, for every number of blocks, leaves,        *)
(* anchors, checkpoints, contracts, parameters, verifiers and payees, and  *)
(* about the other half of the contract, SnapshotGovernance.               *)
(*                                                                         *)
(* SnapshotInv is inductive.  Its heart is the pair CheckpointsWellFormed  *)
(* (freeze blocks follow checkpoint ids) and HistoryAscending (the newest  *)
(* slot is the applied checkpoint's): together they give that a newer      *)
(* checkpoint is never refused by the NonMonotonicStateBlock check.        *)
(*                                                                         *)
(* FrozenInv says what was frozen: both lanes as of the freeze block, more *)
(* of them in every later checkpoint.  The content of the slots, the       *)
(* schedule and the binary search each have an invariant of their own.     *)
(***************************************************************************)
EXTENDS MerkleSnapshot, SnapshotGovernance, SumTheorems, SequenceTheorems,
        FiniteSetTheorems, TLAPS

\* The boundary a scheduled trigger consumes is between the schedule's origin
\* and the current block, less than one epoch behind it.
LEMMA BoundaryWithin ==
    ASSUME NEW o \in Nat, NEW b \in Nat, NEW n \in Nat, n > 0, o <= b
    PROVE  /\ o + ((b - o) \div n) * n \in Nat
           /\ o + ((b - o) \div n) * n <= b
           /\ o <= o + ((b - o) \div n) * n
           /\ b < o + ((b - o) \div n) * n + n
<1> DEFINE q == (b - o) \div n
<1>1. q \in Int /\ b - o >= 0 /\ b - o = n * q + ((b - o) % n)
  OBVIOUS
<1>2. (b - o) % n \in 0..(n - 1)
  OBVIOUS
<1>3. q >= 0
  OBVIOUS
<1>4. n * q = q * n /\ n * q \in Int /\ n * q >= 0
  BY <1>1, <1>3
<1> QED
  BY <1>1, <1>2, <1>3, <1>4

\* The initial state satisfies the invariant.
LEMMA InitInv == Init => SnapshotInv
<1> SUFFICES ASSUME Init PROVE SnapshotInv
  OBVIOUS
<1>1. TypeOK
  <2>1. Unpinned \in Pin
    BY DEF Unpinned, Pin, Logs
  <2>2. /\ block \in Blocks /\ epochOriginBlock \in Blocks
        /\ lastTriggerBlock \in Blocks
        /\ nextCheckpointId \in 0..MaxCheckpoints
        /\ lastAppliedCheckpoint \in Nat
        /\ blockToStateIndex \in [Blocks -> Nat]
    BY BoundsAssumption DEF Init, Blocks
  <2>3. /\ lane1 \in [Accumulators -> Logs]
        /\ lane2 \in [Registries -> Logs]
        /\ checkpoints \in [Accumulators -> Seq(Checkpoint)]
        /\ stateBlocks \in Seq(Blocks)
        /\ applied \in Seq([checkpointId : CheckpointIds, root : Roots,
                            recipient : Recipients \cup {NoRecipient}])
    BY DEF Init, Logs
  <2> QED
    BY <2>1, <2>2, <2>3 DEF Init, TypeOK
<1>2. IdsInStep /\ ClockBounds
  BY DEF Init, IdsInStep, ClockBounds
<1>3. CheckpointsWellFormed
  BY DEF Init, CheckpointsWellFormed, Ids
<1>4. HistoryAscending /\ AppliedBounds /\ AppliedLogEnds
  BY DEF Init, HistoryAscending, AppliedBounds, AppliedLogEnds, CheckpointIds
<1> QED
  BY <1>1, <1>2, <1>3, <1>4 DEF SnapshotInv

\* Every issued id names a checkpoint and its pins.
LEMMA IssuedType ==
    ASSUME SnapshotInv, NEW id \in Ids
    PROVE  /\ id \in CheckpointIds /\ id \in Nat /\ id < nextCheckpointId
           /\ id < Len(checkpoints[accumulator])
           /\ CheckpointOf(id) \in Checkpoint
           /\ CheckpointOf(id).blockNumber \in Nat
           /\ pin[id] \in Pin
<1>1. TypeOK /\ Len(checkpoints[accumulator]) = nextCheckpointId
  BY DEF SnapshotInv, IdsInStep
<1>2. nextCheckpointId \in Nat /\ nextCheckpointId <= MaxCheckpoints
  BY <1>1, BoundsAssumption DEF TypeOK
<1>3. id \in CheckpointIds /\ id \in Nat /\ id < nextCheckpointId
  BY <1>2, BoundsAssumption DEF Ids, CheckpointIds
<1>4. checkpoints[accumulator] \in Seq(Checkpoint)
  BY <1>1 DEF TypeOK
<1>5. CheckpointOf(id) \in Checkpoint
  BY <1>1, <1>2, <1>3, <1>4 DEF CheckpointOf
<1>6. CheckpointOf(id).blockNumber \in Nat
  BY <1>5 DEF Checkpoint, Blocks
<1>7. pin[id] \in Pin
  BY <1>1, <1>3 DEF TypeOK
<1> QED
  BY <1>1, <1>3, <1>5, <1>6, <1>7

\* A step that leaves the frozen checkpoints, the accumulator and the history
\* alone and keeps the types and the clock keeps the invariant.
LEMMA FrameInv ==
    ASSUME SnapshotInv, TypeOK', ClockBounds', block' >= block,
           UNCHANGED <<accumulator, checkpoints, nextCheckpointId, pin,
                       historyVars>>
    PROVE  SnapshotInv'
<1>1. IdsInStep'
  BY DEF SnapshotInv, IdsInStep
<1>2. CheckpointsWellFormed'
  <2>2. \A id \in Ids : CheckpointOf(id).blockNumber \in Int
    BY IssuedType
  <2>3. block \in Int /\ block' \in Int
    BY DEF SnapshotInv, TypeOK, Blocks
  <2>4. \A id \in Ids : CheckpointOf(id).blockNumber <= block'
    BY <2>2, <2>3 DEF SnapshotInv, CheckpointsWellFormed
  <2>5. Ids' = Ids /\ \A id \in Ids : CheckpointOf(id)' = CheckpointOf(id)
    BY DEF Ids, CheckpointOf
  <2> QED
    BY <2>4, <2>5 DEF SnapshotInv, CheckpointsWellFormed
<1>3. HistoryAscending' /\ AppliedBounds' /\ AppliedLogEnds'
  BY DEF SnapshotInv, HistoryAscending, AppliedBounds, AppliedLogEnds,
         FilingBlock, CheckpointOf, historyVars
<1> QED
  BY <1>1, <1>2, <1>3 DEF SnapshotInv

\* A new block moves the clock only.
LEMMA TickInv == SnapshotInv /\ Tick => SnapshotInv'
<1> SUFFICES ASSUME SnapshotInv, Tick PROVE SnapshotInv'
  OBVIOUS
<1>1. TypeOK' /\ ClockBounds' /\ block' >= block
  BY BoundsAssumption
     DEF SnapshotInv, Tick, TypeOK, ClockBounds, Blocks, laneVars, configVars,
         freezeVars, historyVars
<1> QED
  BY <1>1, FrameInv DEF Tick, configVars, freezeVars

\* A fold extends a live log; no frozen checkpoint reads it.
LEMMA FoldInv ==
    ASSUME SnapshotInv, NEW a \in Accumulators, FoldAt(a)
    PROVE  SnapshotInv'
<1>1. lane1' \in [Accumulators -> Logs]
  BY DEF SnapshotInv, TypeOK, FoldAt, Logs
<1>2. TypeOK' /\ ClockBounds' /\ block' >= block
  BY <1>1
     DEF SnapshotInv, FoldAt, TypeOK, ClockBounds, Blocks, configVars,
         historyVars
<1> QED
  BY <1>2, FrameInv DEF FoldAt, configVars

\* An anchor extends a live log; no frozen checkpoint reads it.
LEMMA AnchorInv ==
    ASSUME SnapshotInv, NEW r \in Registries, NEW w \in WorkUnits, Anchor(r, w)
    PROVE  SnapshotInv'
<1>1. lane2' \in [Registries -> Logs] /\ work' \in [Registries -> Nat]
  BY BoundsAssumption DEF SnapshotInv, TypeOK, Anchor, Logs
<1>2. TypeOK' /\ ClockBounds' /\ block' >= block
  BY <1>1
     DEF SnapshotInv, Anchor, TypeOK, ClockBounds, Blocks, configVars,
         freezeVars, historyVars
<1> QED
  BY <1>2, FrameInv DEF Anchor, configVars, freezeVars

\* Binding an accumulator freezes nothing.
LEMMA BindInv ==
    ASSUME SnapshotInv, NEW a \in Accumulators, BindSnapshot(a)
    PROVE  SnapshotInv'
<1>1. TypeOK' /\ ClockBounds' /\ block' >= block
  BY DEF SnapshotInv, BindSnapshot, TypeOK, ClockBounds, Blocks, configVars,
         freezeVars, historyVars
<1> QED
  BY <1>1, FrameInv DEF BindSnapshot, configVars, freezeVars

\* Governance.  Only a rotation of the accumulator touches what the invariant
\* is about, and it is possible only before the first checkpoint.
LEMMA GovernInv == SnapshotInv /\ Govern => SnapshotInv'
<1> SUFFICES ASSUME SnapshotInv, Govern PROVE SnapshotInv'
  OBVIOUS
<1>1. ASSUME NEW v \in Verifiers, SetZkVerifier(v) PROVE SnapshotInv'
  <2>1. TypeOK' /\ ClockBounds' /\ block' >= block
    BY <1>1
       DEF SnapshotInv, SetZkVerifier, TypeOK, ClockBounds, Blocks, laneVars,
           freezeVars, historyVars
  <2> QED
    BY <1>1, <2>1, FrameInv DEF SetZkVerifier, freezeVars
<1>2. ASSUME NEW a \in Accumulators, SetAccumulator(a) PROVE SnapshotInv'
  <2>1. TypeOK' /\ ClockBounds' /\ block' >= block
    BY <1>2
       DEF SnapshotInv, SetAccumulator, TypeOK, ClockBounds, Blocks, laneVars,
           freezeVars, historyVars
  <2>2. CASE a = accumulator
    BY <1>2, <2>1, <2>2, FrameInv DEF SetAccumulator, freezeVars
  <2>3. CASE a # accumulator
    <3>1. /\ checkpoints[accumulator] = <<>> /\ checkpoints[a] = <<>>
          /\ nextCheckpointId = 0 /\ ~hasAppliedCheckpoint
          /\ stateBlocks = <<>>
      BY <1>2, <2>3
         DEF SetAccumulator, SnapshotInv, IdsInStep, AppliedBounds,
             HistoryAscending, TypeOK
    <3>2. IdsInStep'
      BY <1>2, <3>1 DEF SetAccumulator, SnapshotInv, IdsInStep, freezeVars
    <3>3. CheckpointsWellFormed'
      BY <1>2, <3>1 DEF SetAccumulator, CheckpointsWellFormed, Ids, freezeVars
    <3>4. HistoryAscending' /\ AppliedBounds' /\ AppliedLogEnds'
      BY <1>2, <3>1
         DEF SetAccumulator, SnapshotInv, HistoryAscending, AppliedBounds,
             AppliedLogEnds, historyVars, freezeVars
    <3> QED
      BY <2>1, <3>2, <3>3, <3>4 DEF SnapshotInv
  <2> QED
    BY <2>2, <2>3
<1>3. ASSUME NEW p \in Params \cup {NoParams}, SetParamsHash(p)
      PROVE  SnapshotInv'
  <2>1. TypeOK' /\ ClockBounds' /\ block' >= block
    BY <1>3
       DEF SnapshotInv, SetParamsHash, TypeOK, ClockBounds, Blocks, laneVars,
           freezeVars, historyVars
  <2> QED
    BY <1>3, <2>1, FrameInv DEF SetParamsHash, freezeVars
<1>4. ASSUME EnableStateProvenance PROVE SnapshotInv'
  <2>1. TypeOK' /\ ClockBounds' /\ block' >= block
    BY <1>4
       DEF SnapshotInv, EnableStateProvenance, TypeOK, ClockBounds, Blocks,
           laneVars, configVars, freezeVars, historyVars
  <2> QED
    BY <1>4, <2>1, FrameInv DEF EnableStateProvenance, configVars, freezeVars
<1>5. ASSUME NEW r \in Registries \cup {NoRegistry}, SetAnchorRegistry(r)
      PROVE  SnapshotInv'
  <2>1. TypeOK' /\ ClockBounds' /\ block' >= block
    BY <1>5
       DEF SnapshotInv, SetAnchorRegistry, TypeOK, ClockBounds, Blocks,
           laneVars, freezeVars, historyVars
  <2> QED
    BY <1>5, <2>1, FrameInv DEF SetAnchorRegistry, freezeVars
<1>6. ASSUME NEW n \in EpochLengths, SetEpochLength(n) PROVE SnapshotInv'
  <2>1. TypeOK' /\ ClockBounds' /\ block' >= block
    BY <1>6, BoundsAssumption
       DEF SnapshotInv, SetEpochLength, TypeOK, ClockBounds, Blocks, laneVars,
           historyVars
  <2> QED
    BY <1>6, <2>1, FrameInv DEF SetEpochLength
<1> QED
  BY <1>1, <1>2, <1>3, <1>4, <1>5, <1>6 DEF Govern

\* The lane-2 reads are a log and a size.
LEMMA LiveAnchorsType ==
    ASSUME TypeOK
    PROVE  /\ LiveAnchors \in Logs
           /\ Len(LiveAnchors) \in Nat
           /\ LiveAnchorWork(Len(LiveAnchors)) \in Nat
<1>1. LiveAnchors \in Logs
  BY DEF TypeOK, LiveAnchors, Logs
<1>2. Len(LiveAnchors) \in Nat
  BY <1>1 DEF Logs
<1>3. LiveAnchorWork(Len(LiveAnchors)) \in Nat
  BY <1>2 DEF TypeOK, LiveAnchorWork
<1> QED
  BY <1>1, <1>2, <1>3

\* trigger() appends one checkpoint, frozen now, under the expected id.
LEMMA TriggerInv == SnapshotInv /\ Trigger => SnapshotInv'
<1> SUFFICES ASSUME SnapshotInv, Trigger PROVE SnapshotInv'
  OBVIOUS
<1> DEFINE c == [acc |-> lane1[accumulator],
                 leafCount |-> Len(lane1[accumulator]),
                 blockNumber |-> block]
           p == [params |-> paramsHash, verifier |-> zkVerifier,
                 anchorAcc |-> LiveAnchors, anchorCount |-> Len(LiveAnchors),
                 workCount |-> LiveAnchorWork(Len(LiveAnchors))]
<1> PICK n : n = nextCheckpointId
  OBVIOUS
<1> PICK s : s = checkpoints[accumulator]
  OBVIOUS
<1>0. TypeOK /\ UNCHANGED <<block, laneVars, configVars, provenanceEnabled,
                            historyVars>>
  BY DEF SnapshotInv, Trigger
<1>1. c \in Checkpoint
  BY <1>0 DEF TypeOK, Checkpoint, Logs
<1>2. /\ checkpoints' = [checkpoints EXCEPT ![accumulator] = Append(@, c)]
      /\ checkpoints' \in [Accumulators -> Seq(Checkpoint)]
      /\ checkpoints'[accumulator] = Append(checkpoints[accumulator], c)
      /\ \A a \in Accumulators \ {accumulator} :
            checkpoints'[a] = checkpoints[a]
  BY <1>0, <1>1 DEF Trigger, AccumulatorCheckpoint, TypeOK
<1>3. /\ n \in CheckpointIds /\ n \in Nat
      /\ nextCheckpointId' = n + 1 /\ nextCheckpointId' \in 0..MaxCheckpoints
      /\ Len(checkpoints[accumulator]) = n
  BY <1>0, BoundsAssumption DEF Trigger, TypeOK, CheckpointIds
<1>4. p \in Pin
  BY <1>0, LiveAnchorsType DEF Pin, TypeOK
<1>5. /\ pin' = [pin EXCEPT ![n] = p]
      /\ pin' \in [CheckpointIds -> Pin]
      /\ pin'[n] = p
      /\ \A id \in CheckpointIds \ {n} : pin'[id] = pin[id]
  BY <1>0, <1>3, <1>4 DEF Trigger, PinCheckpoint, TypeOK
<1>6. lastTriggerBlock' \in Blocks /\ lastTriggerBlock' <= block
  <2>1. /\ epochOriginBlock \in Nat /\ block \in Nat /\ block <= MaxBlock
        /\ epochLength \in Nat /\ epochOriginBlock <= block
    <3>1. epochOriginBlock <= block
      BY DEF SnapshotInv, ClockBounds
    <3> QED
      BY <1>0, <3>1, BoundsAssumption DEF TypeOK, Blocks
  <2>2. lastTriggerBlock' = ConsumedBoundary
    BY DEF Trigger
  <2>3. CASE epochLength = 0
    BY <2>1, <2>2, <2>3, BoundsAssumption DEF ConsumedBoundary, Blocks
  <2>4. CASE epochLength > 0
    BY <2>1, <2>2, <2>4, BoundaryWithin, BoundsAssumption
       DEF ConsumedBoundary, Blocks
  <2> QED
    BY <2>1, <2>3, <2>4
<1>7. TypeOK'
  BY <1>0, <1>2, <1>3, <1>5, <1>6
     DEF TypeOK, laneVars, configVars, historyVars
<1>8. ClockBounds'
  BY <1>0, <1>6 DEF SnapshotInv, ClockBounds, configVars
<1>9. accumulator' = accumulator
  BY <1>0 DEF configVars
<1>10. IdsInStep'
  <2>1. Len(checkpoints'[accumulator]) = n + 1
    BY <1>0, <1>1, <1>2, <1>3 DEF TypeOK
  <2> QED
    BY <2>1, <1>2, <1>3, <1>9 DEF SnapshotInv, IdsInStep
<1>11. /\ Ids' = Ids \cup {n}
       /\ \A id \in Ids : id < n /\ CheckpointOf(id)' = CheckpointOf(id)
                           /\ pin'[id] = pin[id]
       /\ CheckpointOf(n)' = c
  <2>1. Ids' = Ids \cup {n} /\ \A id \in Ids : id \in Nat /\ id < n
    BY <1>3 DEF Ids
  <2>2. s \in Seq(Checkpoint) /\ Len(s) = n
    BY <1>0, <1>3 DEF TypeOK
  <2>3. \A k \in 1..n : Append(s, c)[k] = s[k]
    BY <1>1, <2>2
  <2>4. Append(s, c)[n + 1] = c
    BY <1>1, <2>2
  <2>6. \A id : CheckpointOf(id)' = Append(s, c)[id + 1]
    BY <1>2, <1>9 DEF CheckpointOf
  <2>7. \A id \in Ids : CheckpointOf(id)' = CheckpointOf(id)
    BY <2>1, <2>3, <2>6, <1>3 DEF CheckpointOf
  <2>8. CheckpointOf(n)' = c
    BY <2>4, <2>6
  <2>5. \A id \in Ids : id \in CheckpointIds \ {n}
    BY <2>1, <1>3, BoundsAssumption DEF CheckpointIds, Ids
  <2> QED
    BY <2>1, <2>5, <2>7, <2>8, <1>5
<1>12. CheckpointsWellFormed'
  <2>1. \A id \in Ids' :
           /\ (CheckpointOf(id).leafCount = Len(CheckpointOf(id).acc))'
           /\ (CheckpointOf(id).blockNumber <= block)'
           /\ (pin[id].anchorCount = Len(pin[id].anchorAcc))'
           /\ (pin[id].params \in Params)'
           /\ (pin[id].verifier \in Verifiers)'
    <3> TAKE id \in Ids'
    <3>1. CASE id \in Ids
      BY <1>0, <1>11, <3>1 DEF SnapshotInv, CheckpointsWellFormed
    <3>2. CASE id = n
      <4>1. block \in Int
        BY <1>0 DEF TypeOK, Blocks
      <4> QED
        BY <1>0, <1>11, <1>5, <3>2, <4>1 DEF TypeOK
    <3> QED
      BY <1>11, <3>1, <3>2
  <2>2. \A i, j \in Ids' :
           i <= j => (CheckpointOf(i).blockNumber
                        <= CheckpointOf(j).blockNumber)'
    <3> TAKE i, j \in Ids'
    <3> HAVE i <= j
    <3>1. CASE j \in Ids
      <4>1. i \in Ids
        BY <1>3, <3>1, <1>11 DEF Ids
      <4> QED
        BY <1>11, <3>1, <4>1 DEF SnapshotInv, CheckpointsWellFormed
    <3>2. CASE j = n /\ i \in Ids
      BY <1>11, <3>2 DEF SnapshotInv, CheckpointsWellFormed
    <3>3. CASE j = n /\ i = n
      <4>1. block \in Int
        BY <1>0 DEF TypeOK, Blocks
      <4> QED
        BY <1>11, <3>3, <4>1
    <3> QED
      BY <1>11, <3>1, <3>2, <3>3
  <2> QED
    BY <2>1, <2>2 DEF CheckpointsWellFormed
<1>13. AppliedBounds' /\ AppliedLogEnds'
  BY <1>0, <1>3
     DEF SnapshotInv, AppliedBounds, AppliedLogEnds, historyVars, TypeOK
<1>14. HistoryAscending'
  <2>1. hasAppliedCheckpoint => lastAppliedCheckpoint \in Ids
    BY <1>0, <1>3 DEF SnapshotInv, AppliedBounds, TypeOK, Ids
  <2>2. hasAppliedCheckpoint =>
           FilingBlock(lastAppliedCheckpoint)' =
             FilingBlock(lastAppliedCheckpoint)
    BY <1>0, <1>11, <2>1 DEF FilingBlock, historyVars
  <2> QED
    BY <1>0, <2>2 DEF SnapshotInv, HistoryAscending, historyVars
<1> QED
  BY <1>7, <1>8, <1>10, <1>12, <1>13, <1>14 DEF SnapshotInv

\* What a prover may submit is the output of some program on some checkpoint.
LEMMA ProvableRootsType ==
    ASSUME SnapshotInv
    PROVE  ProvableRoots \subseteq Roots
<1> SUFFICES ASSUME NEW v \in Verifiers, NEW q \in Params, NEW id \in Ids
             PROVE  Compute(v, CheckpointOf(id).acc, pin[id].anchorAcc, q)
                       \in Roots
  BY DEF ProvableRoots, Ids
<1>1. CheckpointOf(id) \in Checkpoint /\ pin[id] \in Pin
  BY IssuedType
<1> QED
  BY <1>1 DEF Compute, Roots, Checkpoint, Pin

\* submitProof() moves the applied checkpoint forward and files its state in
\* a new slot after every other, or in the newest one when it was filed at the
\* same block.
LEMMA SubmitInv ==
    ASSUME SnapshotInv, NEW id \in Ids, NEW root \in ProvableRoots,
           NEW recipient \in Recipients \cup {NoRecipient},
           SubmitProof(id, root, recipient)
    PROVE  SnapshotInv'
<1> PICK b : b = FilingBlock(id)
  OBVIOUS
<1> PICK len : len = Len(stateBlocks)
  OBVIOUS
<1> PICK slot : slot = StateIndexAt(b)
  OBVIOUS
<1>0. /\ TypeOK
      /\ UNCHANGED <<block, laneVars, configVars, freezeVars,
                     provenanceEnabled>>
      /\ lastAppliedCheckpoint' = id /\ hasAppliedCheckpoint' = TRUE
  BY DEF SnapshotInv, SubmitProof
<1>1. CheckpointOf(id) \in Checkpoint /\ b \in Blocks
  BY IssuedType DEF FilingBlock, Checkpoint
<1>2. /\ id \in CheckpointIds /\ id \in Nat /\ id < nextCheckpointId
      /\ pin[id] \in Pin /\ pin[id].params \in Params
  BY IssuedType DEF SnapshotInv, CheckpointsWellFormed
<1>3. root \in Roots /\ block \in Blocks /\ zkVerifier \in Verifiers
  BY <1>0, ProvableRootsType DEF TypeOK
<1>4. len \in Nat /\ len <= id
  <2>1. CASE hasAppliedCheckpoint
    BY <1>0, <1>2, <2>1
       DEF SnapshotInv, AppliedBounds, TypeOK, SubmitProof, Accepts, NotStale
  <2>2. CASE ~hasAppliedCheckpoint
    BY <1>0, <1>2, <2>2 DEF SnapshotInv, HistoryAscending, TypeOK
  <2> QED
    BY <1>0, <2>1, <2>2 DEF TypeOK
<1>5. Monotonic(b) /\ UpdateStateAtBlock(b, root)
  BY DEF SubmitProof, UpdateStateAtBlock
<1> DEFINE m == [blockNumber |-> b, timestamp |-> block, root |-> root]
           Filed ==
              /\ slot \in StateIndices
              /\ stateBlocks' \in Seq(Blocks)
              /\ blockToStateIndex' \in [Blocks -> Nat]
              /\ Len(stateBlocks') \in 1..(id + 1)
              /\ stateBlocks'[Len(stateBlocks')] = b
              /\ \A i, j \in 1..Len(stateBlocks') :
                    i < j => stateBlocks'[i] < stateBlocks'[j]
              /\ \A i \in 1..Len(stateBlocks') :
                    blockToStateIndex'[stateBlocks'[i]] = i - 1
<1>6. ASSUME stateBlocks = <<>> \/ stateBlocks[len] # b PROVE Filed
  <2>1. slot = len /\ slot \in StateIndices
    BY <1>2, <1>4, <1>6, BoundsAssumption
       DEF StateIndexAt, StateIndices, CheckpointIds
  <2>2. /\ stateBlocks' = Append(stateBlocks, b)
        /\ blockToStateIndex' = [blockToStateIndex EXCEPT ![b] = len]
    BY <1>5, <1>6, <2>1 DEF UpdateStateAtBlock
  <2>3. stateBlocks \in Seq(Blocks) /\ blockToStateIndex \in [Blocks -> Nat]
    BY <1>0 DEF TypeOK
  <2>4. /\ Len(stateBlocks') = len + 1
        /\ stateBlocks'[len + 1] = b
        /\ \A i \in 1..len : stateBlocks'[i] = stateBlocks[i]
        /\ \A i \in 1..len : stateBlocks[i] \in Blocks
        /\ stateBlocks' \in Seq(Blocks)
    BY <1>1, <1>4, <2>2, <2>3
  <2>5. \A i \in 1..len : stateBlocks[i] < b
    <3>1. len # 0 => stateBlocks[len] < b
      BY <1>1, <1>4, <1>5, <1>6, <2>3, <2>4 DEF Monotonic, Blocks
    <3>2. \A i \in 1..len : i < len => stateBlocks[i] < stateBlocks[len]
      BY <1>4 DEF SnapshotInv, HistoryAscending
    <3> QED
      BY <1>1, <1>4, <2>4, <3>1, <3>2 DEF Blocks
  <2>6. \A i, j \in 1..(len + 1) :
           i < j => stateBlocks'[i] < stateBlocks'[j]
    <3> TAKE i, j \in 1..(len + 1)
    <3> HAVE i < j
    <3>1. i \in 1..len
      BY <1>4
    <3>2. CASE j = len + 1
      BY <2>4, <2>5, <3>1, <3>2
    <3>3. CASE j \in 1..len
      BY <2>4, <3>1, <3>3 DEF SnapshotInv, HistoryAscending
    <3> QED
      BY <1>4, <3>2, <3>3
  <2>7. \A i \in 1..(len + 1) : blockToStateIndex'[stateBlocks'[i]] = i - 1
    <3> TAKE i \in 1..(len + 1)
    <3>1. CASE i = len + 1
      BY <1>1, <1>4, <2>2, <2>3, <2>4, <3>1
    <3>2. CASE i \in 1..len
      <4>1. stateBlocks'[i] = stateBlocks[i] /\ stateBlocks[i] \in Blocks
            /\ stateBlocks[i] # b
        BY <1>1, <2>4, <2>5, <3>2 DEF Blocks
      <4>2. blockToStateIndex'[stateBlocks[i]]
               = blockToStateIndex[stateBlocks[i]]
        BY <2>2, <2>3, <4>1
      <4> QED
        BY <3>2, <4>1, <4>2 DEF SnapshotInv, HistoryAscending
    <3> QED
      BY <1>4, <3>1, <3>2
  <2>8. blockToStateIndex' \in [Blocks -> Nat]
    BY <1>4, <2>2, <2>3
  <2> QED
    BY <1>2, <1>4, <2>1, <2>4, <2>6, <2>7, <2>8
<1>7. ASSUME stateBlocks # <<>>, stateBlocks[len] = b PROVE Filed
  <2>1. len \in 1..Len(stateBlocks) /\ stateBlocks \in Seq(Blocks)
    BY <1>0, <1>4, <1>7 DEF TypeOK
  <2>2. slot = len - 1
    BY <1>7, <2>1 DEF StateIndexAt, SnapshotInv, HistoryAscending
  <2>3. UNCHANGED <<stateBlocks, blockToStateIndex>>
    BY <1>5, <1>7 DEF UpdateStateAtBlock
  <2>4. slot \in StateIndices
    BY <1>2, <1>4, <2>1, <2>2, BoundsAssumption
       DEF StateIndices, CheckpointIds
  <2> QED
    BY <1>0, <1>2, <1>4, <1>7, <2>1, <2>3, <2>4
       DEF TypeOK, SnapshotInv, HistoryAscending
<1>8. Filed
  BY <1>6, <1>7
<1> HIDE DEF Filed
<1>9. states' \in [StateIndices -> MerkleState \cup {NoState}]
  <2>1. m \in MerkleState
    BY <1>1, <1>3 DEF MerkleState
  <2>2. states' = [states EXCEPT ![slot] = m]
    BY <1>5 DEF UpdateStateAtBlock
  <2> QED
    BY <1>0, <2>1, <2>2 DEF TypeOK
<1>10. /\ stateProvenance' \in [StateIndices -> Provenance \cup {NoState}]
       /\ acceptedCheckpoints' \in [CheckpointIds ->
             [state : MerkleState, provenance : Provenance] \cup {NoState}]
       /\ \A k \in CheckpointIds :
             k # id => acceptedCheckpoints'[k] = acceptedCheckpoints[k]
  <2> DEFINE p == [stateIndex |-> slot, checkpointId |-> id,
                   acceptedAtBlock |-> block, params |-> pin[id].params,
                   verifier |-> zkVerifier]
             r == [state |-> m, provenance |-> p]
  <2>1. CASE provenanceEnabled
    <3>1. p \in Provenance
      BY <1>2, <1>3, <1>8 DEF Filed, Provenance
    <3>2. r \in [state : MerkleState, provenance : Provenance]
      BY <1>1, <1>3, <3>1 DEF MerkleState
    <3>3. /\ stateProvenance' = [stateProvenance EXCEPT ![slot] = p]
          /\ acceptedCheckpoints' = [acceptedCheckpoints EXCEPT ![id] = r]
      BY <2>1 DEF SubmitProof, RecordProvenance
    <3> QED
      BY <1>0, <3>1, <3>2, <3>3 DEF TypeOK
  <2>2. CASE ~provenanceEnabled
    BY <1>0, <2>2 DEF SubmitProof, RecordProvenance, TypeOK
  <2> QED
    BY <2>1, <2>2
<1>11. /\ checkpointRecipient' \in
             [CheckpointIds -> Recipients \cup {NoRecipient}]
       /\ applied' \in Seq([checkpointId : CheckpointIds, root : Roots,
                             recipient : Recipients \cup {NoRecipient}])
  BY <1>0, <1>2, <1>3 DEF SubmitProof, TypeOK
<1>12. TypeOK'
  BY <1>0, <1>2, <1>8, <1>9, <1>10, <1>11
     DEF Filed, TypeOK, laneVars, configVars, freezeVars
<1>13. IdsInStep' /\ ClockBounds' /\ CheckpointsWellFormed'
  BY <1>0 DEF SnapshotInv, IdsInStep, ClockBounds, CheckpointsWellFormed,
              CheckpointOf, Ids, configVars, freezeVars
<1>14. AppliedBounds'
  <2>1. \A k \in CheckpointIds :
           acceptedCheckpoints'[k] # NoState => k <= id
    <3> TAKE k \in CheckpointIds
    <3> HAVE acceptedCheckpoints'[k] # NoState
    <3>1. CASE k = id
      BY <1>2, <3>1
    <3>2. CASE k # id
      BY <1>0, <1>2, <1>10, <3>2, BoundsAssumption
         DEF SnapshotInv, AppliedBounds, SubmitProof, Accepts, NotStale,
             TypeOK, CheckpointIds
    <3> QED
      BY <3>1, <3>2
  <2>2. Len(stateBlocks') <= id + 1
    BY <1>2, <1>8 DEF Filed
  <2> QED
    BY <1>0, <1>2, <2>1, <2>2 DEF AppliedBounds, freezeVars
<1>15. HistoryAscending'
  <2>1. FilingBlock(id)' = b
    BY <1>0 DEF FilingBlock, CheckpointOf, configVars, freezeVars
  <2>2. stateBlocks' # <<>>
    BY <1>8 DEF Filed
  <2>3. FilingBlock(lastAppliedCheckpoint)' = b
    BY <1>0, <2>1 DEF FilingBlock, CheckpointOf
  <2> QED
    BY <1>0, <1>8, <2>2, <2>3 DEF Filed, HistoryAscending
<1>16. AppliedLogEnds'
  <2> DEFINE e == [checkpointId |-> id, root |-> root, recipient |-> recipient]
  <2>1. applied' = Append(applied, e) /\ Len(applied) \in Nat
    BY <1>0 DEF SubmitProof, TypeOK
  <2>2. applied' # <<>> /\ applied'[Len(applied')] = e
    BY <1>0, <2>1 DEF TypeOK
  <2> QED
    BY <1>0, <2>2 DEF AppliedLogEnds
<1> QED
  BY <1>12, <1>13, <1>14, <1>15, <1>16 DEF SnapshotInv

-----------------------------------------------------------------------------
\* Every step, stuttering included, preserves the invariant.
LEMMA NextInv == SnapshotInv /\ [Next]_vars => SnapshotInv'
<1> SUFFICES ASSUME SnapshotInv, [Next]_vars PROVE SnapshotInv'
  OBVIOUS
<1>1. ASSUME NEW a \in Accumulators, FoldAt(a) PROVE SnapshotInv'
  BY <1>1, FoldInv
<1>2. ASSUME NEW r \in Registries, NEW w \in WorkUnits, Anchor(r, w)
      PROVE  SnapshotInv'
  BY <1>2, AnchorInv
<1>3. ASSUME NEW a \in Accumulators, BindSnapshot(a) PROVE SnapshotInv'
  BY <1>3, BindInv
<1>4. ASSUME NEW id \in 0..(nextCheckpointId - 1), NEW root \in ProvableRoots,
             NEW recipient \in Recipients \cup {NoRecipient},
             SubmitProof(id, root, recipient)
      PROVE  SnapshotInv'
  BY <1>4, SubmitInv DEF Ids
<1>5. CASE UNCHANGED vars
  <2>1. TypeOK' /\ ClockBounds' /\ block' >= block
    BY <1>5 DEF SnapshotInv, TypeOK, ClockBounds, Blocks, vars, laneVars,
                configVars, freezeVars, historyVars
  <2> QED
    BY <1>5, <2>1, FrameInv DEF vars, configVars, freezeVars
<1> QED
  BY <1>1, <1>2, <1>3, <1>4, <1>5, TickInv, GovernInv, TriggerInv DEF Next

\* SnapshotInv holds in every reachable state.
THEOREM SnapshotInvariant == Spec => []SnapshotInv
  BY InitInv, NextInv, PTL DEF Spec

\* Type correctness of the whole lifecycle.
THEOREM TypeCorrect == Spec => []TypeOK
<1>1. SnapshotInv => TypeOK
  BY DEF SnapshotInv
<1> QED
  BY <1>1, SnapshotInvariant, PTL

\* trigger() is never wedged by its id check, and ids are never reused under
\* another accumulator.
THEOREM IdsStayInStep == Spec => []IdsInStep
<1>1. SnapshotInv => IdsInStep
  BY DEF SnapshotInv
<1> QED
  BY <1>1, SnapshotInvariant, PTL

\* The history is ascending by block with inverse indexes, and its newest slot
\* is the applied checkpoint's.
THEOREM HistoryStaysAscending == Spec => []HistoryAscending
<1>1. SnapshotInv => HistoryAscending
  BY DEF SnapshotInv
<1> QED
  BY <1>1, SnapshotInvariant, PTL

\* A checkpoint newer than the applied one is never stranded: an honest proof
\* of it under the verifier in force passes every check of submitProof().
THEOREM PendingNeverStranded == Spec => []PendingStaysProvable
<1>1. ASSUME SnapshotInv PROVE PendingStaysProvable
  <2> SUFFICES ASSUME NEW id \in Ids, NotStale(id),
                      NEW recipient \in Recipients \cup {NoRecipient}
               PROVE  Accepts(id, Compute(zkVerifier, CheckpointOf(id).acc,
                                          pin[id].anchorAcc, pin[id].params),
                              recipient)
    BY DEF PendingStaysProvable
  <2>1. id < Len(checkpoints[accumulator])
    BY <1>1, IssuedType
  <2>2. pin[id].params # NoParams
    BY <1>1, ZeroValuesAssumption DEF SnapshotInv, CheckpointsWellFormed
  <2>3. Verify(zkVerifier,
               Journal(id, Compute(zkVerifier, CheckpointOf(id).acc,
                                   pin[id].anchorAcc, pin[id].params),
                       recipient))
    BY <1>1 DEF SnapshotInv, CheckpointsWellFormed, Verify, Journal
  <2>4. Monotonic(FilingBlock(id))
    <3> SUFFICES ASSUME stateBlocks # <<>>
                 PROVE  FilingBlock(id) >= stateBlocks[Len(stateBlocks)]
      BY DEF Monotonic
    <3> PICK last : last = lastAppliedCheckpoint
      OBVIOUS
    <3>1. /\ last \in Ids /\ last <= id
          /\ stateBlocks[Len(stateBlocks)] = FilingBlock(last)
      BY <1>1 DEF SnapshotInv, HistoryAscending, AppliedBounds, TypeOK, Ids,
                  NotStale
    <3>2. CheckpointOf(last).blockNumber <= CheckpointOf(id).blockNumber
      BY <1>1, <3>1 DEF SnapshotInv, CheckpointsWellFormed
    <3>3. /\ CheckpointOf(last).blockNumber \in Nat
          /\ CheckpointOf(id).blockNumber \in Nat
      BY <1>1, <3>1, IssuedType
    <3> QED
      BY <3>1, <3>2, <3>3 DEF FilingBlock
  <2> QED
    BY <2>1, <2>2, <2>3, <2>4 DEF Accepts
<1> QED
  BY <1>1, SnapshotInvariant, PTL

-----------------------------------------------------------------------------
\* No step rewrites the record, the payee or the pins of a checkpoint once
\* they are set, and the applied checkpoint never moves back.
THEOREM RecordsStayFinal == Spec => AcceptedRecordsAreFinal
<1> DEFINE Final ==
      /\ \A id \in CheckpointIds :
            /\ acceptedCheckpoints[id] # NoState =>
                  acceptedCheckpoints'[id] = acceptedCheckpoints[id]
            /\ id < nextCheckpointId => pin'[id] = pin[id]
            /\ hasAppliedCheckpoint /\ id <= lastAppliedCheckpoint =>
                  checkpointRecipient'[id] = checkpointRecipient[id]
      /\ lastAppliedCheckpoint' >= lastAppliedCheckpoint
<1>1. ASSUME SnapshotInv, [Next]_vars PROVE [Final]_vars
  <2>0. TypeOK
    BY <1>1 DEF SnapshotInv
  <2>1. ASSUME UNCHANGED <<pin, historyVars>> PROVE Final
    BY <2>0, <2>1 DEF TypeOK, historyVars
  <2>2. CASE Trigger
    <3>1. nextCheckpointId \in CheckpointIds
      BY <2>0, <2>2, BoundsAssumption DEF Trigger, TypeOK, CheckpointIds
    <3>2. \A id \in CheckpointIds : id < nextCheckpointId => pin'[id] = pin[id]
      BY <2>0, <2>2, <3>1 DEF Trigger, PinCheckpoint, TypeOK, CheckpointIds
    <3> QED
      BY <2>0, <2>2, <3>2 DEF Trigger, TypeOK, historyVars
  <2>3. ASSUME NEW id \in 0..(nextCheckpointId - 1), NEW root \in ProvableRoots,
               NEW recipient \in Recipients \cup {NoRecipient},
               SubmitProof(id, root, recipient)
        PROVE  Final
    <3>1. /\ id \in Nat /\ id \in CheckpointIds
          /\ hasAppliedCheckpoint => id > lastAppliedCheckpoint
          /\ ~hasAppliedCheckpoint => lastAppliedCheckpoint = 0
      BY <1>1, <2>3, IssuedType
         DEF SubmitProof, Accepts, NotStale, Ids, SnapshotInv, AppliedBounds
    <3>2. \A k \in CheckpointIds : k # id =>
             /\ acceptedCheckpoints'[k] = acceptedCheckpoints[k]
             /\ checkpointRecipient'[k] = checkpointRecipient[k]
      BY <2>0, <2>3, <3>1 DEF SubmitProof, RecordProvenance, TypeOK
    <3>3. \A k \in CheckpointIds :
             acceptedCheckpoints[k] # NoState => k # id
      BY <1>1, <2>0, <3>1
         DEF SnapshotInv, AppliedBounds, TypeOK, CheckpointIds
    <3>4. \A k \in CheckpointIds :
             hasAppliedCheckpoint /\ k <= lastAppliedCheckpoint => k # id
      BY <2>0, <3>1 DEF TypeOK, CheckpointIds
    <3>5. pin' = pin /\ lastAppliedCheckpoint' >= lastAppliedCheckpoint
      BY <2>0, <2>3, <3>1 DEF SubmitProof, freezeVars, TypeOK
    <3> QED
      BY <3>2, <3>3, <3>4, <3>5
  <2>4. CASE Tick
    BY <2>1, <2>4 DEF Tick, freezeVars
  <2>5. ASSUME NEW a \in Accumulators, FoldAt(a) \/ BindSnapshot(a)
        PROVE  Final
    BY <2>1, <2>5 DEF FoldAt, BindSnapshot, freezeVars
  <2>6. ASSUME NEW r \in Registries, NEW w \in WorkUnits, Anchor(r, w)
        PROVE  Final
    BY <2>1, <2>6 DEF Anchor, freezeVars
  <2>7. CASE Govern
    <3>1. UNCHANGED <<pin, historyVars>>
      BY <2>7
         DEF Govern, SetZkVerifier, SetAccumulator, SetParamsHash,
             EnableStateProvenance, SetAnchorRegistry, SetEpochLength,
             freezeVars
    <3> QED
      BY <2>1, <3>1
  <2> QED
    BY <1>1, <2>2, <2>3, <2>4, <2>5, <2>6, <2>7 DEF Next
<1> QED
  BY <1>1, SnapshotInvariant, PTL DEF Spec, AcceptedRecordsAreFinal

-----------------------------------------------------------------------------
\* The issued list of the refinement mapping.
IssuedBar == [k \in 1..nextCheckpointId |-> FrozenAt(k - 1)]

\* What a trigger() now would freeze.
Live == [lane1 |-> lane1[accumulator], lane2 |-> LiveAnchors,
         params |-> paramsHash, verifier |-> zkVerifier]

\* The issued list is a sequence of well-formed frozen inputs.
LEMMA IssuedBarType ==
    ASSUME SnapshotInv
    PROVE  /\ IssuedBar \in Seq(FrozenInputs)
           /\ Len(IssuedBar) = nextCheckpointId
           /\ \A id \in Ids : id + 1 \in 1..nextCheckpointId
                               /\ IssuedBar[id + 1] = FrozenAt(id)
<1>1. nextCheckpointId \in Nat
  BY DEF SnapshotInv, TypeOK
<1>2. \A id \in Ids : FrozenAt(id) \in FrozenInputs
  <2> TAKE id \in Ids
  <2>1. CheckpointOf(id) \in Checkpoint /\ pin[id] \in Pin
    BY IssuedType
  <2>2. pin[id].params \in Params /\ pin[id].verifier \in Verifiers
    BY DEF SnapshotInv, CheckpointsWellFormed
  <2> QED
    BY <2>1, <2>2 DEF FrozenAt, FrozenInputs, Checkpoint, Pin, CheckpointOf
<1>3. \A k \in 1..nextCheckpointId : k - 1 \in Ids
  BY <1>1 DEF Ids
<1>4. IssuedBar \in [1..nextCheckpointId -> FrozenInputs]
  BY <1>2, <1>3 DEF IssuedBar
<1>5. IssuedBar \in Seq(FrozenInputs) /\ Len(IssuedBar) = nextCheckpointId
  BY <1>1, <1>4
<1>6. \A id \in Ids : id + 1 \in 1..nextCheckpointId /\ (id + 1) - 1 = id
  BY <1>1 DEF Ids
<1> QED
  BY <1>5, <1>6 DEF IssuedBar

\* A step that keeps the checkpoints of the accumulator and their pins keeps
\* the issued list.
LEMMA IssuedBarKept ==
    ASSUME UNCHANGED <<accumulator, checkpoints, nextCheckpointId, pin>>
    PROVE  IssuedBar' = IssuedBar
  BY DEF IssuedBar, FrozenAt, CheckpointOf

\* trigger() issues the live inputs, and something differs from what its
\* predecessor froze.
LEMMA TriggerIssues ==
    ASSUME SnapshotInv, SnapshotInv', Trigger
    PROVE  /\ IssuedBar' = Append(IssuedBar, Live)
           /\ Live \in FrozenInputs
           /\ IssuedBar # <<>> => IssuedBar[Len(IssuedBar)] # Live
<1> PICK n : n = nextCheckpointId
  OBVIOUS
<1> PICK s : s = checkpoints[accumulator]
  OBVIOUS
<1> DEFINE c == [acc |-> lane1[accumulator],
                 leafCount |-> Len(lane1[accumulator]),
                 blockNumber |-> block]
<1>0. TypeOK /\ s \in Seq(Checkpoint) /\ accumulator \in Accumulators
  BY DEF SnapshotInv, TypeOK
<1>1. /\ n \in Nat /\ n \in CheckpointIds /\ nextCheckpointId' = n + 1
      /\ Len(s) = n /\ accumulator' = accumulator
  BY <1>0, BoundsAssumption DEF Trigger, TypeOK, CheckpointIds, configVars
<1>2. checkpoints'[accumulator] = Append(s, c)
  BY <1>0 DEF Trigger, AccumulatorCheckpoint, TypeOK
<1>3. /\ \A k \in 1..n : checkpoints'[accumulator'][k] = s[k]
      /\ checkpoints'[accumulator'][n + 1] = c
  <2>1. c \in Checkpoint
    BY <1>0 DEF TypeOK, Checkpoint, Logs
  <2>2. \A k \in 1..n : Append(s, c)[k] = s[k]
    BY <1>0, <1>1, <2>1
  <2>3. Append(s, c)[n + 1] = c
    BY <1>0, <1>1, <2>1
  <2> QED
    BY <1>1, <1>2, <2>2, <2>3
<1>4. /\ \A id \in CheckpointIds \ {n} : pin'[id] = pin[id]
      /\ pin'[n] = [params |-> paramsHash, verifier |-> zkVerifier,
                    anchorAcc |-> LiveAnchors,
                    anchorCount |-> Len(LiveAnchors),
                    workCount |-> LiveAnchorWork(Len(LiveAnchors))]
  BY <1>0, <1>1 DEF Trigger, PinCheckpoint, TypeOK
<1>5. Live \in FrozenInputs
  BY <1>0, LiveAnchorsType DEF Live, FrozenInputs, TypeOK
<1>6. IssuedBar' = Append(IssuedBar, Live)
  <2>1. IssuedBar \in Seq(FrozenInputs) /\ Len(IssuedBar) = n
    BY IssuedBarType
  <2>2. IssuedBar' = [k \in 1..(n + 1) |->
           [lane1 |-> checkpoints'[accumulator'][(k - 1) + 1].acc,
            lane2 |-> pin'[k - 1].anchorAcc,
            params |-> pin'[k - 1].params,
            verifier |-> pin'[k - 1].verifier]]
    BY <1>1 DEF IssuedBar, FrozenAt
  <2>3. \A k \in 1..n : IssuedBar'[k] = IssuedBar[k]
    <3> TAKE k \in 1..n
    <3>1. /\ k \in 1..(n + 1) /\ (k - 1) + 1 = k
          /\ k - 1 \in CheckpointIds \ {n}
      BY <1>1, BoundsAssumption DEF CheckpointIds
    <3> QED
      BY <1>3, <1>4, <2>2, <3>1 DEF IssuedBar, FrozenAt
  <2>4. IssuedBar'[n + 1] = Live
    <3>1. n + 1 \in 1..(n + 1) /\ (n + 1) - 1 = n
      BY <1>1
    <3> QED
      BY <1>3, <1>4, <2>2, <3>1 DEF Live
  <2>5. /\ Append(IssuedBar, Live) \in Seq(FrozenInputs)
        /\ Len(Append(IssuedBar, Live)) = n + 1
        /\ \A k \in 1..n : Append(IssuedBar, Live)[k] = IssuedBar[k]
        /\ Append(IssuedBar, Live)[n + 1] = Live
    BY <1>1, <1>5, <2>1
  <2>6. \A k \in 1..(n + 1) : IssuedBar'[k] = Append(IssuedBar, Live)[k]
    BY <1>1, <2>3, <2>4, <2>5
  <2>7. \A k \in 1..(n + 1) : Append(IssuedBar, Live)[k] \in FrozenInputs
    BY <1>1, <2>5
  <2>8. IssuedBar' \in [1..(n + 1) -> FrozenInputs]
    BY <2>2, <2>6, <2>7
  <2>9. IssuedBar' \in Seq(FrozenInputs) /\ Len(IssuedBar') = n + 1
    BY <1>1, <2>8
  <2> QED
    BY <2>5, <2>6, <2>9, SeqEqual
<1>7. ASSUME IssuedBar # <<>>, IssuedBar[Len(IssuedBar)] = Live
      PROVE  FALSE
  <2>1. IssuedBar \in Seq(FrozenInputs) /\ Len(IssuedBar) = n /\ n # 0
    BY <1>7, IssuedBarType
  <2>2. n - 1 \in Ids /\ n > 0 /\ (n - 1) + 1 = n
    BY <1>1, <2>1 DEF Ids
  <2>3. FrozenAt(n - 1) = Live
    BY <1>7, <2>1, <2>2, IssuedBarType
  <2>4. /\ s[n].acc = lane1[accumulator]
        /\ pin[n - 1].anchorAcc = LiveAnchors
        /\ pin[n - 1].params = paramsHash
        /\ pin[n - 1].verifier = zkVerifier
    BY <2>2, <2>3 DEF FrozenAt, Live
  <2>5. /\ s[n].leafCount = Len(s[n].acc)
        /\ pin[n - 1].anchorCount = Len(pin[n - 1].anchorAcc)
    BY <2>2 DEF SnapshotInv, CheckpointsWellFormed, CheckpointOf
  <2>6. NoNewInputs
    BY <1>1, <2>2, <2>4, <2>5 DEF NoNewInputs, HasCheckpoints
  <2> QED
    BY <2>6 DEF Trigger
<1> QED
  BY <1>5, <1>6, <1>7

\* A trigger is an Issue step of the abstract history.
LEMMA TriggerRefines ==
    ASSUME SnapshotInv, SnapshotInv', Trigger
    PROVE  History!Next
<1>1. /\ IssuedBar' = Append(IssuedBar, Live)
      /\ Live \in FrozenInputs
      /\ IssuedBar # <<>> => IssuedBar[Len(IssuedBar)] # Live
      /\ IssuedBar \in Seq(FrozenInputs)
  BY TriggerIssues, IssuedBarType
<1>2. /\ Len(IssuedBar') = Len(IssuedBar) + 1
      /\ IssuedBar'[Len(IssuedBar')] = Live
  BY <1>1, AppendProperties
<1>3. applied' = applied
  BY DEF Trigger, historyVars
<1> QED
  BY <1>1, <1>2, <1>3
     DEF History!Next, History!Issue, History!Freeze, IssuedBar

\* An accepted proof is an Accept step of the abstract history.
LEMMA SubmitRefines ==
    ASSUME SnapshotInv, NEW id \in Ids, NEW root,
           NEW recipient \in Recipients \cup {NoRecipient},
           SubmitProof(id, root, recipient)
    PROVE  History!Next
<1>1. IssuedBar' = IssuedBar
  BY IssuedBarKept DEF SubmitProof, configVars, freezeVars
<1>2. /\ id \in 0..(Len(IssuedBar) - 1) /\ id < Len(IssuedBar)
      /\ IssuedBar[id + 1] = FrozenAt(id)
  BY IssuedBarType DEF Ids, SnapshotInv, TypeOK
<1>3. root = ComputeFrozen(zkVerifier, IssuedBar[id + 1])
  BY <1>2
     DEF SubmitProof, Accepts, Verify, Journal, ComputeFrozen, FrozenAt,
         CheckpointOf, Compute
<1>4. applied # <<>> => id > applied[Len(applied)].checkpointId
  BY DEF SnapshotInv, AppliedLogEnds, SubmitProof, Accepts, NotStale
<1>5. applied' = Append(applied, [checkpointId |-> id, root |-> root,
                                  recipient |-> recipient])
  BY DEF SubmitProof
<1>6. zkVerifier \in Verifiers
  BY DEF SnapshotInv, TypeOK
<1>7. History!Accept(id, zkVerifier, recipient)
  BY <1>1, <1>2, <1>3, <1>4, <1>5 DEF History!Accept, IssuedBar
<1> QED
  BY <1>2, <1>6, <1>7 DEF History!Next, IssuedBar

\* The contract implements the append-only history: every behaviour of the
\* lifecycle, seen through what was frozen and what was accepted, is one that
\* ProvenHistory allows.
THEOREM SnapshotImplementsHistory == Spec => ImplementsProvenHistory
<1>1. ASSUME Init PROVE History!Init
  <2>1. SnapshotInv /\ nextCheckpointId = 0 /\ applied = <<>>
    BY <1>1, InitInv DEF Init
  <2>2. IssuedBar = <<>>
    BY <2>1, IssuedBarType
  <2> QED
    BY <2>1, <2>2 DEF History!Init, IssuedBar
<1>2. ASSUME SnapshotInv, SnapshotInv', [Next]_vars
      PROVE  [History!Next]_(History!historyVars)
  <2>1. ASSUME UNCHANGED <<accumulator, checkpoints, nextCheckpointId, pin,
                           applied>>
        PROVE  UNCHANGED History!historyVars
    BY <2>1, IssuedBarKept DEF History!historyVars, IssuedBar
  <2>2. CASE Trigger
    BY <1>2, <2>2, TriggerRefines
  <2>3. ASSUME NEW id \in 0..(nextCheckpointId - 1), NEW root \in ProvableRoots,
               NEW recipient \in Recipients \cup {NoRecipient},
               SubmitProof(id, root, recipient)
        PROVE  History!Next
    BY <1>2, <2>3, SubmitRefines DEF Ids
  <2>4. ASSUME \/ Tick
               \/ \E a \in Accumulators : FoldAt(a) \/ BindSnapshot(a)
               \/ \E r \in Registries, w \in WorkUnits : Anchor(r, w)
               \/ UNCHANGED vars
        PROVE  UNCHANGED History!historyVars
    BY <2>1, <2>4
       DEF Tick, FoldAt, BindSnapshot, Anchor, vars, configVars, freezeVars,
           historyVars
  <2>5. CASE Govern
    <3>1. ASSUME NEW a \in Accumulators, SetAccumulator(a), a # accumulator
          PROVE  UNCHANGED History!historyVars
      <4>1. /\ nextCheckpointId = 0 /\ nextCheckpointId' = 0
            /\ applied' = applied
        BY <1>2, <3>1
           DEF SetAccumulator, SnapshotInv, IdsInStep, freezeVars, historyVars
      <4>2. IssuedBar = [k \in 1..0 |-> FrozenAt(k - 1)]
            /\ IssuedBar' = [k \in 1..0 |-> FrozenAt(k - 1)']
        BY <4>1 DEF IssuedBar
      <4>3. IssuedBar' = IssuedBar
        BY <4>2
      <4> QED
        BY <4>1, <4>3 DEF History!historyVars, IssuedBar
    <3>2. ASSUME NEW a \in Accumulators, SetAccumulator(a), a = accumulator
          PROVE  UNCHANGED History!historyVars
      BY <2>1, <3>2 DEF SetAccumulator, freezeVars, historyVars
    <3> QED
      BY <2>1, <2>5, <3>1, <3>2
         DEF Govern, SetZkVerifier, SetParamsHash, EnableStateProvenance,
             SetAnchorRegistry, SetEpochLength, configVars, freezeVars,
             historyVars
  <2> QED
    BY <1>2, <2>2, <2>3, <2>4, <2>5 DEF Next
<1> QED
  BY <1>1, <1>2, SnapshotInvariant, PTL
     DEF Spec, ImplementsProvenHistory, History!Spec

-----------------------------------------------------------------------------
(* What the filed states are computed from.                                *)

\* What one transaction may do to the frozen checkpoints: nothing already
\* frozen changes, new ones come only from trigger(), and once there is one the
\* two contracts the snapshot reads stay.
FrozenStay ==
    /\ \A id \in Ids : /\ id \in Ids'
                       /\ CheckpointOf(id)' = CheckpointOf(id)
                       /\ pin'[id] = pin[id]
    /\ nextCheckpointId > 0 => UNCHANGED <<accumulator, anchorRegistry>>
    /\ Trigger \/ nextCheckpointId' = nextCheckpointId

LEMMA FrozenStays == SnapshotInv /\ [Next]_vars => FrozenStay
<1> SUFFICES ASSUME SnapshotInv, [Next]_vars PROVE FrozenStay
  OBVIOUS
<1>0. nextCheckpointId \in Nat /\ TypeOK
  BY DEF SnapshotInv, TypeOK
<1>1. ASSUME UNCHANGED <<accumulator, checkpoints, nextCheckpointId, pin>>,
             nextCheckpointId > 0 => anchorRegistry' = anchorRegistry
      PROVE  FrozenStay
  BY <1>1 DEF FrozenStay, Ids, CheckpointOf
<1>2. CASE Trigger
  <2> DEFINE c == [acc |-> lane1[accumulator],
                   leafCount |-> Len(lane1[accumulator]),
                   blockNumber |-> block]
  <2> PICK n : n = nextCheckpointId
    OBVIOUS
  <2>1. /\ UNCHANGED <<accumulator, anchorRegistry>>
        /\ nextCheckpointId' = n + 1 /\ n \in Nat /\ n \in CheckpointIds
        /\ Len(checkpoints[accumulator]) = n
        /\ checkpoints[accumulator] \in Seq(Checkpoint)
    BY <1>0, <1>2, BoundsAssumption
       DEF Trigger, configVars, TypeOK, CheckpointIds
  <2>2. checkpoints'[accumulator] = Append(checkpoints[accumulator], c)
    BY <1>0, <1>2 DEF Trigger, AccumulatorCheckpoint, TypeOK
  <2>3. \A id \in Ids : id \in Ids' /\ pin'[id] = pin[id]
    BY <1>0, <1>2, <2>1, BoundsAssumption
       DEF Trigger, PinCheckpoint, TypeOK, Ids, CheckpointIds
  <2>4. \A k \in 1..n : checkpoints'[accumulator][k] = checkpoints[accumulator][k]
    BY <2>1, <2>2
  <2>5. \A id \in Ids : id + 1 \in 1..n
    BY <2>1 DEF Ids
  <2>6. \A id \in Ids : CheckpointOf(id)' = CheckpointOf(id)
    BY <2>1, <2>4, <2>5 DEF CheckpointOf
  <2> QED
    BY <1>2, <2>1, <2>3, <2>6 DEF FrozenStay
<1>3. ASSUME NEW a \in Accumulators, SetAccumulator(a)
      PROVE  FrozenStay
  <2>1. CASE a = accumulator
    BY <1>1, <1>3, <2>1 DEF SetAccumulator, freezeVars
  <2>2. CASE a # accumulator
    <3>1. nextCheckpointId = 0 /\ nextCheckpointId' = 0
      BY <1>0, <1>3, <2>2 DEF SetAccumulator, SnapshotInv, IdsInStep, freezeVars
    <3> QED
      BY <3>1 DEF FrozenStay, Ids
  <2> QED
    BY <2>1, <2>2
<1>4. ASSUME NEW r \in Registries \cup {NoRegistry}, SetAnchorRegistry(r)
      PROVE  FrozenStay
  BY <1>1, <1>4 DEF SetAnchorRegistry, HasCheckpoints, freezeVars
<1>5. ASSUME NEW n \in EpochLengths, SetEpochLength(n) PROVE FrozenStay
  BY <1>1, <1>5 DEF SetEpochLength
<1>6. ASSUME UNCHANGED <<configVars, freezeVars>> PROVE FrozenStay
  BY <1>1, <1>6 DEF configVars, freezeVars
<1>7. ASSUME NEW v \in Verifiers, SetZkVerifier(v) PROVE FrozenStay
  BY <1>1, <1>7 DEF SetZkVerifier, freezeVars
<1>8. ASSUME NEW p \in Params \cup {NoParams}, SetParamsHash(p)
      PROVE  FrozenStay
  BY <1>1, <1>8 DEF SetParamsHash, freezeVars
<1>9. ASSUME NEW a \in Accumulators, FoldAt(a) PROVE FrozenStay
  BY <1>1, <1>9 DEF FoldAt, configVars
<1>10. ASSUME NEW r \in Registries, NEW w \in WorkUnits, Anchor(r, w)
       PROVE  FrozenStay
  BY <1>6, <1>10 DEF Anchor
<1>11. ASSUME NEW a \in Accumulators, BindSnapshot(a) PROVE FrozenStay
  BY <1>6, <1>11 DEF BindSnapshot
<1>12. CASE Tick \/ EnableStateProvenance \/ UNCHANGED vars
  BY <1>6, <1>12 DEF Tick, EnableStateProvenance, vars
<1>13. ASSUME NEW id, NEW root, NEW recipient, SubmitProof(id, root, recipient)
       PROVE  FrozenStay
  BY <1>6, <1>13 DEF SubmitProof
<1>14. CASE Govern
  BY <1>3, <1>4, <1>5, <1>7, <1>8, <1>12, <1>14 DEF Govern
<1> QED
  BY <1>2, <1>9, <1>10, <1>11, <1>12, <1>13, <1>14 DEF Next

\* What one transaction may do to a lane: append an entry of its own block.
Appended(log, new) == new = log \/ new = Append(log, block)

LanesExtend ==
    /\ \A a \in Accumulators : Appended(lane1[a], lane1'[a])
    /\ \A r \in Registries : Appended(lane2[r], lane2'[r])
    /\ block' = block \/ block' = block + 1
    /\ Trigger => UNCHANGED <<block, lane1, lane2>>

LEMMA LanesAreExtended == SnapshotInv /\ [Next]_vars => LanesExtend
<1> SUFFICES ASSUME SnapshotInv, [Next]_vars PROVE LanesExtend
  OBVIOUS
<1>0. TypeOK
  BY DEF SnapshotInv
<1>1. CASE UNCHANGED <<block, laneVars>>
  BY <1>1 DEF LanesExtend, Appended, laneVars
<1>2. ASSUME NEW a \in Accumulators, FoldAt(a) PROVE LanesExtend
  <2>1. /\ \A b \in Accumulators : Appended(lane1[b], lane1'[b])
        /\ UNCHANGED <<block, lane2>>
    BY <1>0, <1>2 DEF FoldAt, Appended, TypeOK
  <2>2. ~Trigger
    BY <1>0, <1>2 DEF FoldAt, Trigger, TypeOK
  <2> QED
    BY <2>1, <2>2 DEF LanesExtend, Appended
<1>3. ASSUME NEW r \in Registries, NEW w \in WorkUnits, Anchor(r, w)
      PROVE  LanesExtend
  <2>1. /\ \A q \in Registries : Appended(lane2[q], lane2'[q])
        /\ UNCHANGED <<block, lane1>>
    BY <1>0, <1>3 DEF Anchor, Appended, TypeOK
  <2>2. ~Trigger
    BY <1>0, <1>3 DEF Anchor, Trigger, TypeOK, freezeVars
  <2> QED
    BY <2>1, <2>2 DEF LanesExtend, Appended
<1>4. CASE Tick
  <2>1. ~Trigger
    BY <1>0, <1>4 DEF Tick, Trigger, TypeOK, freezeVars
  <2> QED
    BY <1>4, <2>1 DEF Tick, LanesExtend, Appended, laneVars
<1>5. ASSUME NEW a \in Accumulators, BindSnapshot(a) PROVE LanesExtend
  BY <1>5 DEF BindSnapshot, LanesExtend, Appended
<1>6. CASE Govern
  BY <1>1, <1>6
     DEF Govern, SetZkVerifier, SetAccumulator, SetParamsHash,
         EnableStateProvenance, SetAnchorRegistry, SetEpochLength
<1>7. CASE Trigger
  BY <1>1, <1>7 DEF Trigger
<1>8. ASSUME NEW id, NEW root, NEW recipient, SubmitProof(id, root, recipient)
      PROVE  LanesExtend
  BY <1>1, <1>8 DEF SubmitProof
<1>9. CASE UNCHANGED vars
  BY <1>1, <1>9 DEF vars
<1> QED
  BY <1>2, <1>3, <1>4, <1>5, <1>6, <1>7, <1>8, <1>9 DEF Next

\* A log stays a prefix, as of its block, when the live log is appended to.
LEMMA AsOfExtends ==
    ASSUME NEW p \in Logs, NEW log \in Logs, NEW new \in Logs,
           NEW b \in Blocks, block \in Blocks, b <= block,
           AsOf(p, log, b), Appended(log, new)
    PROVE  AsOf(p, new, b)
<1>0. /\ Len(p) \in Nat /\ Len(log) \in Nat /\ b \in Int /\ block \in Int
      /\ Len(p) <= Len(log)
  BY DEF Logs, Blocks, AsOf
<1>1. CASE new = log
  BY <1>1
<1>2. CASE new = Append(log, block)
  <2>1. /\ Len(new) = Len(log) + 1
        /\ \A k \in 1..Len(log) : new[k] = log[k]
        /\ new[Len(log) + 1] = block
    BY <1>2 DEF Logs
  <2>2. \A k \in 1..Len(p) : k \in 1..Len(log)
    BY <1>0
  <2>3. \A k \in (Len(p) + 1)..Len(new) :
           k = Len(log) + 1 \/ k \in (Len(p) + 1)..Len(log)
    BY <1>0, <2>1
  <2>4. \A k \in (Len(p) + 1)..Len(log) : k \in 1..Len(log)
    BY <1>0
  <2>5. \A k \in (Len(p) + 1)..Len(new) : new[k] >= b
    BY <1>0, <2>1, <2>3, <2>4 DEF AsOf
  <2>6. \A k \in 1..Len(p) : p[k] = new[k] /\ new[k] <= b
    BY <2>1, <2>2 DEF AsOf
  <2> QED
    BY <1>0, <2>1, <2>5, <2>6 DEF AsOf
<1> QED
  BY <1>1, <1>2 DEF Appended

\* Nothing in a live lane is of a block still to come.
LanesOfThePast ==
    /\ \A a \in Accumulators : \A k \in 1..Len(lane1[a]) : lane1[a][k] <= block
    /\ \A r \in Registries : \A k \in 1..Len(lane2[r]) : lane2[r][k] <= block

\* A checkpoint froze both lanes as they stood in its block.
FrozenAsOf ==
    \A id \in Ids :
        /\ AsOf(CheckpointOf(id).acc, lane1[accumulator], FilingBlock(id))
        /\ AsOf(pin[id].anchorAcc, LiveAnchors, FilingBlock(id))

\* A later checkpoint never froze less.
FrozenGrows ==
    \A i, j \in Ids :
        i <= j => /\ Len(CheckpointOf(i).acc) <= Len(CheckpointOf(j).acc)
                  /\ Len(pin[i].anchorAcc) <= Len(pin[j].anchorAcc)

\* The events name checkpoints that exist.
AppliedIssued == \A k \in 1..Len(applied) : applied[k].checkpointId \in Ids

\* SnapshotInv with what it takes to say what a filed state was computed from.
FrozenInv ==
    /\ SnapshotInv
    /\ LanesOfThePast
    /\ FrozenAsOf
    /\ FrozenGrows
    /\ RepeatedStatementNeedsRotation

\* An entry of a block appended to a log of the past is of the past.
LEMMA AppendedOfThePast ==
    ASSUME NEW log \in Logs, NEW new, block \in Nat, block' \in Nat,
           block <= block', Appended(log, new),
           \A k \in 1..Len(log) : log[k] <= block
    PROVE  \A k \in 1..Len(new) : new[k] <= block'
<1>0. Len(log) \in Nat /\ \A k \in 1..Len(log) : log[k] \in Int
  <2>1. log \in Seq(Blocks) /\ Len(log) \in Nat
    BY DEF Logs
  <2>2. \A k \in 1..Len(log) : log[k] \in Blocks
    BY <2>1
  <2> QED
    BY <2>1, <2>2 DEF Blocks
<1>1. \A k \in 1..Len(log) : log[k] <= block'
  BY <1>0
<1>2. CASE new = log
  BY <1>1, <1>2
<1>3. CASE new = Append(log, block)
  <2>1. /\ Len(new) = Len(log) + 1
        /\ \A k \in 1..Len(log) : new[k] = log[k]
        /\ new[Len(log) + 1] = block
    BY <1>3 DEF Logs
  <2> QED
    BY <1>0, <1>1, <2>1
<1> QED
  BY <1>2, <1>3 DEF Appended

\* What trigger() freezes is the live pair of lanes, in this block.
LEMMA TriggerFreezesLive ==
    ASSUME SnapshotInv, Trigger, LanesExtend,
           NEW n, n = nextCheckpointId
    PROVE  /\ n \in Nat /\ Ids' = Ids \cup {n} /\ \A id \in Ids : id < n
           /\ CheckpointOf(n)'.acc = lane1[accumulator]
           /\ FilingBlock(n)' = block
           /\ pin'[n].anchorAcc = LiveAnchors
           /\ pin'[n].params = paramsHash
           /\ pin'[n].verifier = zkVerifier
           /\ UNCHANGED <<accumulator, anchorRegistry, block, lane1, lane2>>
           /\ LiveAnchors' = LiveAnchors
<1> DEFINE c == [acc |-> lane1[accumulator],
                 leafCount |-> Len(lane1[accumulator]),
                 blockNumber |-> block]
<1>1. /\ n \in Nat /\ n \in CheckpointIds /\ nextCheckpointId' = n + 1
      /\ checkpoints[accumulator] \in Seq(Checkpoint)
      /\ Len(checkpoints[accumulator]) = n
      /\ accumulator \in Accumulators
      /\ UNCHANGED <<accumulator, anchorRegistry, block, lane1, lane2>>
  BY BoundsAssumption
     DEF SnapshotInv, TypeOK, Trigger, CheckpointIds, configVars, LanesExtend
<1>2. Ids' = Ids \cup {n} /\ \A id \in Ids : id < n
  BY <1>1 DEF Ids
<1>3. checkpoints'[accumulator] = Append(checkpoints[accumulator], c)
  BY <1>1 DEF Trigger, AccumulatorCheckpoint, SnapshotInv, TypeOK
<1>4. checkpoints'[accumulator'][n + 1] = c
  BY <1>1, <1>3
<1>5. CheckpointOf(n)' = c
  BY <1>4 DEF CheckpointOf
<1>6. pin'[n] = [params |-> paramsHash, verifier |-> zkVerifier,
                 anchorAcc |-> LiveAnchors, anchorCount |-> Len(LiveAnchors),
                 workCount |-> LiveAnchorWork(Len(LiveAnchors))]
  BY <1>1 DEF Trigger, PinCheckpoint, SnapshotInv, TypeOK
<1>7. LiveAnchors' = LiveAnchors
  BY <1>1 DEF LiveAnchors
<1>8. FilingBlock(n)' = block /\ CheckpointOf(n)'.acc = lane1[accumulator]
  BY <1>5 DEF FilingBlock
<1> QED
  BY <1>1, <1>2, <1>6, <1>7, <1>8

\* The lanes and what was frozen of them, over one transaction.
LEMMA NextFrozen == FrozenInv /\ SnapshotInv' /\ [Next]_vars => FrozenInv'
<1> SUFFICES ASSUME FrozenInv, SnapshotInv', [Next]_vars PROVE FrozenInv'
  OBVIOUS
<1>0. /\ SnapshotInv /\ TypeOK /\ TypeOK' /\ FrozenStay /\ LanesExtend
      /\ nextCheckpointId \in Nat
  <2>1. SnapshotInv /\ SnapshotInv'
    BY DEF FrozenInv
  <2>2. FrozenStay /\ LanesExtend
    BY <2>1, FrozenStays, LanesAreExtended
  <2>3. TypeOK /\ TypeOK'
    BY <2>1 DEF SnapshotInv
  <2>4. nextCheckpointId \in Nat
    BY <2>3 DEF TypeOK
  <2> QED
    BY <2>1, <2>2, <2>3, <2>4
<1>1. block \in Nat /\ block' \in Nat /\ block <= block' /\ block \in Blocks
  BY <1>0, BoundsAssumption DEF LanesExtend, TypeOK, Blocks
<1>2. /\ \A a \in Accumulators : lane1[a] \in Logs /\ lane1'[a] \in Logs
      /\ \A r \in Registries : lane2[r] \in Logs /\ lane2'[r] \in Logs
      /\ accumulator \in Accumulators
  BY <1>0 DEF TypeOK
<1>3. LanesOfThePast'
  <2>1. \A a \in Accumulators : \A k \in 1..Len(lane1'[a]) : lane1'[a][k] <= block'
    BY <1>0, <1>1, <1>2, AppendedOfThePast
       DEF FrozenInv, LanesOfThePast, LanesExtend
  <2>2. \A r \in Registries : \A k \in 1..Len(lane2'[r]) : lane2'[r][k] <= block'
    BY <1>0, <1>1, <1>2, AppendedOfThePast
       DEF FrozenInv, LanesOfThePast, LanesExtend
  <2> QED
    BY <2>1, <2>2 DEF LanesOfThePast
<1>4. \A id \in Ids : /\ CheckpointOf(id).acc \in Logs
                      /\ pin[id].anchorAcc \in Logs
                      /\ FilingBlock(id) \in Blocks /\ FilingBlock(id) <= block
                      /\ FilingBlock(id)' = FilingBlock(id)
                      /\ nextCheckpointId > 0
  <2> TAKE id \in Ids
  <2>1. /\ CheckpointOf(id) \in Checkpoint /\ pin[id] \in Pin
        /\ id \in Nat /\ id < nextCheckpointId
    BY <1>0, IssuedType
  <2> QED
    BY <1>0, <2>1
       DEF Checkpoint, Pin, FilingBlock, SnapshotInv, CheckpointsWellFormed,
           FrozenStay
<1>5. LiveAnchors \in Logs /\ LiveAnchors' \in Logs
  <2>1. <<>> \in Logs
    BY DEF Logs
  <2>2. LiveAnchors' \in Logs
    BY <1>0, <2>1 DEF LiveAnchors, TypeOK
  <2> QED
    BY <1>0, <2>2, LiveAnchorsType
<1>6. \A id \in Ids :
         /\ AsOf(CheckpointOf(id).acc, lane1'[accumulator'], FilingBlock(id))
         /\ AsOf(pin[id].anchorAcc, LiveAnchors', FilingBlock(id))
  <2> TAKE id \in Ids
  <2>1. UNCHANGED <<accumulator, anchorRegistry>>
    BY <1>0, <1>4 DEF FrozenStay
  <2>2. Appended(lane1[accumulator], lane1'[accumulator'])
    BY <1>0, <1>2, <2>1 DEF LanesExtend
  <2>3. Appended(LiveAnchors, LiveAnchors')
    BY <1>0, <2>1 DEF LanesExtend, LiveAnchors, Appended, TypeOK
  <2>4. /\ AsOf(CheckpointOf(id).acc, lane1[accumulator], FilingBlock(id))
        /\ AsOf(pin[id].anchorAcc, LiveAnchors, FilingBlock(id))
    BY DEF FrozenInv, FrozenAsOf
  <2>5. lane1'[accumulator'] \in Logs
    BY <1>2, <2>1
  <2>6. AsOf(CheckpointOf(id).acc, lane1'[accumulator'], FilingBlock(id))
    BY <1>1, <1>2, <1>4, <2>2, <2>4, <2>5, AsOfExtends
  <2>7. AsOf(pin[id].anchorAcc, LiveAnchors', FilingBlock(id))
    BY <1>1, <1>4, <1>5, <2>3, <2>4, AsOfExtends
  <2> QED
    BY <2>6, <2>7
<1>7. CASE nextCheckpointId' = nextCheckpointId
  <2>1. Ids' = Ids
    BY <1>7 DEF Ids
  <2>2. \A id \in Ids : CheckpointOf(id)' = CheckpointOf(id) /\ pin'[id] = pin[id]
    BY <1>0 DEF FrozenStay
  <2>3. FrozenAsOf'
    BY <1>4, <1>6, <2>1, <2>2 DEF FrozenAsOf
  <2>4. FrozenGrows'
    BY <2>1, <2>2 DEF FrozenInv, FrozenGrows
  <2>5. RepeatedStatementNeedsRotation'
    <3> SUFFICES ASSUME NEW i \in Ids, NEW j \in Ids, i < j,
                        CheckpointOf(i).acc = CheckpointOf(j).acc,
                        pin[i].anchorAcc = pin[j].anchorAcc
                 PROVE  \E k \in i..(j - 1) : \/ pin'[k].params # pin'[k + 1].params
                                              \/ pin'[k].verifier # pin'[k + 1].verifier
      BY <2>1, <2>2 DEF RepeatedStatementNeedsRotation
    <3>1. PICK k \in i..(j - 1) : \/ pin[k].params # pin[k + 1].params
                                  \/ pin[k].verifier # pin[k + 1].verifier
      BY DEF FrozenInv, RepeatedStatementNeedsRotation
    <3>2. k \in Ids /\ k + 1 \in Ids
      BY <1>0 DEF Ids
    <3> QED
      BY <2>2, <3>1, <3>2
  <2> QED
    BY <1>3, <2>3, <2>4, <2>5 DEF FrozenInv
<1>8. CASE Trigger
  <2> PICK n : n = nextCheckpointId
    OBVIOUS
  <2>1. /\ n \in Nat /\ Ids' = Ids \cup {n}
        /\ \A id \in Ids : id < n /\ id \in Nat
        /\ CheckpointOf(n)'.acc = lane1[accumulator]
        /\ FilingBlock(n)' = block
        /\ pin'[n].anchorAcc = LiveAnchors
        /\ pin'[n].params = paramsHash
        /\ pin'[n].verifier = zkVerifier
        /\ UNCHANGED <<accumulator, anchorRegistry, block, lane1, lane2>>
        /\ LiveAnchors' = LiveAnchors
    <3>1. \A id \in Ids : id \in Nat
      BY <1>0, IssuedType
    <3> QED
      BY <1>0, <1>8, <3>1, TriggerFreezesLive
  <2>2. \A id \in Ids : CheckpointOf(id)' = CheckpointOf(id) /\ pin'[id] = pin[id]
    BY <1>0 DEF FrozenStay
  <2>3. /\ AsOf(lane1[accumulator], lane1[accumulator], block)
        /\ AsOf(LiveAnchors, LiveAnchors, block)
    <3>1. /\ \A k \in 1..Len(lane1[accumulator]) : lane1[accumulator][k] <= block
          /\ \A k \in 1..Len(LiveAnchors) : LiveAnchors[k] <= block
      <4>1. CASE anchorRegistry = NoRegistry
        BY <1>2, <4>1 DEF FrozenInv, LanesOfThePast, LiveAnchors
      <4>2. CASE anchorRegistry # NoRegistry
        BY <1>0, <1>2, <4>2 DEF FrozenInv, LanesOfThePast, LiveAnchors, TypeOK
      <4> QED
        BY <4>1, <4>2
    <3>2. /\ Len(lane1[accumulator]) \in Nat /\ Len(LiveAnchors) \in Nat
          /\ \A m \in Nat : (m + 1)..m = {}
      BY <1>2, <1>5 DEF Logs
    <3> QED
      BY <3>1, <3>2 DEF AsOf
  <2>4. FrozenAsOf'
    <3> SUFFICES ASSUME NEW id \in Ids'
                 PROVE  /\ AsOf(CheckpointOf(id)'.acc, lane1'[accumulator'],
                                FilingBlock(id)')
                        /\ AsOf(pin'[id].anchorAcc, LiveAnchors', FilingBlock(id)')
      BY DEF FrozenAsOf
    <3>1. CASE id = n
      BY <2>1, <2>3, <3>1
    <3>2. CASE id \in Ids
      BY <1>4, <1>6, <2>2, <3>2
    <3> QED
      BY <2>1, <3>1, <3>2
  <2>5. \A id \in Ids : /\ Len(CheckpointOf(id).acc) <= Len(lane1[accumulator])
                        /\ Len(pin[id].anchorAcc) <= Len(LiveAnchors)
    BY DEF FrozenInv, FrozenAsOf, AsOf
  <2>6. FrozenGrows'
    <3> SUFFICES ASSUME NEW i \in Ids', NEW j \in Ids', i <= j
                 PROVE  /\ Len(CheckpointOf(i)'.acc) <= Len(CheckpointOf(j)'.acc)
                        /\ Len(pin'[i].anchorAcc) <= Len(pin'[j].anchorAcc)
      BY DEF FrozenGrows
    <3>1. CASE j \in Ids
      <4>1. i \in Ids
        BY <2>1, <3>1
      <4> QED
        BY <2>2, <3>1, <4>1 DEF FrozenInv, FrozenGrows
    <3>2. CASE j = n /\ i \in Ids
      BY <2>1, <2>2, <2>5, <3>2
    <3>3. CASE j = n /\ i = n
      <4>1. Len(lane1[accumulator]) \in Nat /\ Len(LiveAnchors) \in Nat
        BY <1>2, <1>5 DEF Logs
      <4> QED
        BY <2>1, <3>3, <4>1
    <3> QED
      BY <2>1, <3>1, <3>2, <3>3
  <2>7. RepeatedStatementNeedsRotation'
    <3> SUFFICES ASSUME NEW i \in Ids', NEW j \in Ids', i < j,
                        CheckpointOf(i)'.acc = CheckpointOf(j)'.acc,
                        pin'[i].anchorAcc = pin'[j].anchorAcc
                 PROVE  \E k \in i..(j - 1) : \/ pin'[k].params # pin'[k + 1].params
                                              \/ pin'[k].verifier # pin'[k + 1].verifier
      BY DEF RepeatedStatementNeedsRotation
    <3>1. CASE j \in Ids
      <4>1. i \in Ids
        BY <2>1, <3>1
      <4>2. PICK k \in i..(j - 1) : \/ pin[k].params # pin[k + 1].params
                                    \/ pin[k].verifier # pin[k + 1].verifier
        BY <2>2, <3>1, <4>1 DEF FrozenInv, RepeatedStatementNeedsRotation
      <4>3. k \in Ids /\ k + 1 \in Ids
        BY <1>0, <2>1, <3>1, <4>1 DEF Ids
      <4> QED
        BY <2>2, <4>2, <4>3
    <3>2. CASE j = n
      <4> DEFINE prev == n - 1
      <4>1. i \in Ids /\ i <= prev /\ prev \in Ids /\ prev \in i..(j - 1)
            /\ prev + 1 = n /\ n > 0
        BY <2>1, <3>2 DEF Ids
      <4>2. /\ Len(CheckpointOf(i).acc) = Len(lane1[accumulator])
            /\ Len(pin[i].anchorAcc) = Len(LiveAnchors)
        BY <2>1, <2>2, <3>2, <4>1
      <4> HIDE DEF prev
      <4>3. /\ Len(CheckpointOf(prev).acc) = Len(lane1[accumulator])
            /\ Len(pin[prev].anchorAcc) = Len(LiveAnchors)
        <5>1. /\ Len(CheckpointOf(prev).acc) \in Nat
              /\ Len(lane1[accumulator]) \in Nat
              /\ Len(pin[prev].anchorAcc) \in Nat /\ Len(LiveAnchors) \in Nat
          BY <1>2, <1>4, <1>5, <4>1 DEF Logs
        <5>2. /\ Len(CheckpointOf(i).acc) <= Len(CheckpointOf(prev).acc)
              /\ Len(pin[i].anchorAcc) <= Len(pin[prev].anchorAcc)
          BY <4>1 DEF FrozenInv, FrozenGrows
        <5> QED
          BY <2>5, <4>1, <4>2, <5>1, <5>2
      <4>4. CheckpointOf(prev).acc = lane1[accumulator]
        <5>1. \A k \in 1..Len(CheckpointOf(prev).acc) :
                 CheckpointOf(prev).acc[k] = lane1[accumulator][k]
          BY <4>1 DEF FrozenInv, FrozenAsOf, AsOf
        <5> QED
          BY <1>2, <1>4, <4>1, <4>3, <5>1, SeqEqual DEF Logs
      <4>5. pin[prev].anchorAcc = LiveAnchors
        <5>1. \A k \in 1..Len(pin[prev].anchorAcc) :
                 pin[prev].anchorAcc[k] = LiveAnchors[k]
          BY <4>1 DEF FrozenInv, FrozenAsOf, AsOf
        <5> QED
          BY <1>4, <1>5, <4>1, <4>3, <5>1, SeqEqual DEF Logs
      <4>6. /\ CheckpointOf(prev).leafCount = Len(CheckpointOf(prev).acc)
            /\ pin[prev].anchorCount = Len(pin[prev].anchorAcc)
            /\ Len(checkpoints[accumulator]) = n
        BY <1>0, <4>1 DEF SnapshotInv, CheckpointsWellFormed, IdsInStep
      <4>7. paramsHash # pin[prev].params \/ zkVerifier # pin[prev].verifier
        <5> SUFFICES ASSUME paramsHash = pin[prev].params,
                            zkVerifier = pin[prev].verifier
                     PROVE  NoNewInputs
          BY <1>8 DEF Trigger
        <5>1. checkpoints[accumulator][(n - 1) + 1] = CheckpointOf(prev)
          BY DEF CheckpointOf, prev
        <5> QED
          BY <4>1, <4>4, <4>5, <4>6, <5>1 DEF NoNewInputs, HasCheckpoints, prev
      <4>8. pin'[prev] = pin[prev]
        BY <2>2, <4>1
      <4> QED
        BY <2>1, <4>1, <4>7, <4>8
    <3> QED
      BY <2>1, <3>1, <3>2
  <2> QED
    BY <1>3, <2>4, <2>6, <2>7 DEF FrozenInv
<1> QED
  BY <1>0, <1>7, <1>8 DEF FrozenStay

\* What was frozen is as of its block, and more of it in every later checkpoint.
THEOREM FrozenInvariant == Spec => []FrozenInv
<1>1. Init => FrozenInv
  <2> SUFFICES ASSUME Init PROVE FrozenInv
    OBVIOUS
  <2>1. SnapshotInv /\ Ids = {}
    BY InitInv DEF Init, Ids
  <2>2. LanesOfThePast
    BY DEF Init, LanesOfThePast
  <2> QED
    BY <2>1, <2>2
       DEF FrozenInv, FrozenAsOf, FrozenGrows, RepeatedStatementNeedsRotation
<1> QED
  BY <1>1, NextFrozen, SnapshotInvariant, PTL DEF Spec

\* One proof never serves two checkpoints unless governance turned a knob.
THEOREM RepeatsNeedRotation == Spec => []RepeatedStatementNeedsRotation
<1>1. FrozenInv => RepeatedStatementNeedsRotation
  BY DEF FrozenInv
<1> QED
  BY <1>1, FrozenInvariant, PTL

\* What a transaction may do to the history: only an accepted proof changes it.
LEMMA HistoryMoves ==
    ASSUME SnapshotInv, [Next]_vars
    PROVE  \/ UNCHANGED historyVars
           \/ \E id \in Ids, root \in ProvableRoots,
                 recipient \in Recipients \cup {NoRecipient} :
                 SubmitProof(id, root, recipient)
BY DEF Next, Tick, FoldAt, Anchor, BindSnapshot, Govern, SetZkVerifier,
       SetAccumulator, SetParamsHash, EnableStateProvenance, SetAnchorRegistry,
       SetEpochLength, Trigger, vars, Ids

\* Slot i holds what the k-th accepted proof computed, and no later proof was
\* of the same block.
SlotProves(i, k) ==
    LET id == applied[k].checkpointId IN
    /\ FilingBlock(id) = stateBlocks[i]
    /\ \A l \in (k + 1)..Len(applied) :
          FilingBlock(applied[l].checkpointId) # stateBlocks[i]
    /\ states[i - 1].blockNumber = stateBlocks[i]
    /\ states[i - 1].root =
          Compute(states[i - 1].root.program, CheckpointOf(id).acc,
                  pin[id].anchorAcc, pin[id].params)

\* What the slots hold, with the facts about the log of accepted proofs that
\* keep it so.
SlotsInv == AppliedIssued /\ SlotsProvePinnedInputs

LEMMA SlotBySlotProof ==
    SlotsProvePinnedInputs <=>
        \A i \in 1..Len(stateBlocks) : \E k \in 1..Len(applied) : SlotProves(i, k)
  BY DEF SlotsProvePinnedInputs, SlotProves

\* A transaction that leaves the history alone leaves what it proves alone.
LEMMA SlotsKept ==
    ASSUME SnapshotInv, SnapshotInv', FrozenStay, SlotsInv, UNCHANGED historyVars
    PROVE  SlotsInv'
<1>1. AppliedIssued'
  BY DEF AppliedIssued, SlotsInv, FrozenStay, historyVars
<1>2. ASSUME NEW i \in 1..Len(stateBlocks), NEW k \in 1..Len(applied),
             SlotProves(i, k)
      PROVE  SlotProves(i, k)'
  <2> DEFINE id == applied[k].checkpointId
  <2>0. UNCHANGED <<applied, stateBlocks, states>>
    BY DEF historyVars
  <2>1. \A l \in 1..Len(applied) :
           /\ applied[l].checkpointId \in Ids
           /\ CheckpointOf(applied[l].checkpointId)' =
                 CheckpointOf(applied[l].checkpointId)
           /\ FilingBlock(applied[l].checkpointId)' =
                 FilingBlock(applied[l].checkpointId)
           /\ pin'[applied[l].checkpointId] = pin[applied[l].checkpointId]
    <3> TAKE l \in 1..Len(applied)
    <3> PICK c : c = applied[l].checkpointId
      OBVIOUS
    <3>1. c \in Ids
      BY DEF SlotsInv, AppliedIssued
    <3>2. CheckpointOf(c)' = CheckpointOf(c) /\ pin'[c] = pin[c]
      BY <3>1 DEF FrozenStay
    <3>3. applied'[l].checkpointId = c
      BY <2>0
    <3> QED
      BY <3>1, <3>2, <3>3 DEF FilingBlock, CheckpointOf
  <2>2. \A l \in (k + 1)..Len(applied) : l \in 1..Len(applied)
    OBVIOUS
  <2> QED
    BY <1>2, <2>0, <2>1, <2>2 DEF SlotProves
<1>3. UNCHANGED <<applied, stateBlocks>>
  BY DEF historyVars
<1>4. \A i \in 1..Len(stateBlocks) : \E k \in 1..Len(applied) : SlotProves(i, k)
  BY SlotBySlotProof DEF SlotsInv
<1>5. \A i \in 1..Len(stateBlocks') : \E k \in 1..Len(applied') : SlotProves(i, k)'
  BY <1>2, <1>3, <1>4
<1>6. SlotsProvePinnedInputs'
  BY <1>5 DEF SlotsProvePinnedInputs, SlotProves
<1> QED
  BY <1>1, <1>6 DEF SlotsInv

\* An accepted proof writes one slot with the output for exactly the pinned
\* inputs; every other slot and the proof behind it stay.
LEMMA SlotsSubmitted ==
    ASSUME SnapshotInv, SnapshotInv', SlotsInv, NEW id \in Ids,
           NEW root \in ProvableRoots,
           NEW recipient \in Recipients \cup {NoRecipient},
           SubmitProof(id, root, recipient)
    PROVE  SlotsInv'
<1> PICK b : b = FilingBlock(id)
  OBVIOUS
<1> PICK n : n = Len(applied)
  OBVIOUS
<1> PICK len : len = Len(stateBlocks)
  OBVIOUS
<1> PICK slot : slot = StateIndexAt(b)
  OBVIOUS
<1> DEFINE e == [checkpointId |-> id, root |-> root, recipient |-> recipient]
           m == [blockNumber |-> b, timestamp |-> block, root |-> root]
<1>0. /\ TypeOK /\ TypeOK'
      /\ UNCHANGED <<accumulator, checkpoints, nextCheckpointId, pin>>
      /\ Ids' = Ids
      /\ n \in Nat /\ len \in Nat
  <2>1. TypeOK /\ TypeOK'
    BY DEF SnapshotInv
  <2>2. UNCHANGED <<accumulator, checkpoints, nextCheckpointId, pin>>
    BY DEF SubmitProof, configVars, freezeVars
  <2>3. Ids' = Ids
    BY <2>2 DEF Ids
  <2>4. TypeOK => n \in Nat /\ len \in Nat
    BY DEF TypeOK
  <2> QED
    BY <2>1, <2>2, <2>3, <2>4
<1>1. /\ Len(applied') = n + 1 /\ applied'[n + 1] = e
      /\ \A k \in 1..n : applied'[k] = applied[k]
  <2>1. applied' = Append(applied, e)
    BY DEF SubmitProof
  <2> QED
    BY <1>0, <2>1 DEF TypeOK
<1>2. AppliedIssued'
  <2> SUFFICES ASSUME NEW k \in 1..(n + 1) PROVE applied'[k].checkpointId \in Ids
    BY <1>0, <1>1 DEF AppliedIssued
  <2>1. CASE k = n + 1
    BY <1>1, <2>1
  <2>2. CASE k \in 1..n
    BY <1>1, <2>2 DEF SlotsInv, AppliedIssued
  <2> QED
    BY <1>0, <2>1, <2>2
<1>3. /\ \A c : CheckpointOf(c)' = CheckpointOf(c) /\ FilingBlock(c)' = FilingBlock(c)
  BY <1>0 DEF CheckpointOf, FilingBlock
<1>4. /\ Monotonic(b)
      /\ states' = [states EXCEPT ![slot] = m]
      /\ root = Compute(zkVerifier, CheckpointOf(id).acc, pin[id].anchorAcc,
                        pin[id].params)
      /\ b \in Blocks
      /\ len <= id /\ id < MaxCheckpoints /\ id \in Nat
  <2>1. Monotonic(b) /\ states' = [states EXCEPT ![slot] = m]
    BY DEF SubmitProof, UpdateStateAtBlock
  <2>2. root = Compute(zkVerifier, CheckpointOf(id).acc, pin[id].anchorAcc,
                       pin[id].params)
    BY DEF SubmitProof, Accepts, Verify, Journal
  <2>3. id \in Nat /\ id \in CheckpointIds /\ b \in Blocks
    BY IssuedType DEF FilingBlock, Checkpoint
  <2>4. len <= id
    <3>1. CASE hasAppliedCheckpoint
      BY <1>0, <2>3, <3>1
         DEF SnapshotInv, AppliedBounds, TypeOK, SubmitProof, Accepts, NotStale
    <3>2. CASE ~hasAppliedCheckpoint
      BY <1>0, <2>3, <3>2 DEF SnapshotInv, HistoryAscending, TypeOK
    <3> QED
      BY <1>0, <3>1, <3>2 DEF TypeOK
  <2> QED
    BY <2>1, <2>2, <2>3, <2>4, BoundsAssumption DEF CheckpointIds
<1>5. /\ \/ /\ len # 0 => stateBlocks[len] # b
            /\ slot = len /\ Len(stateBlocks') = len + 1
            /\ stateBlocks'[len + 1] = b
            /\ \A i \in 1..len : stateBlocks'[i] = stateBlocks[i]
         \/ /\ len # 0 /\ stateBlocks[len] = b
            /\ slot = len - 1 /\ stateBlocks' = stateBlocks
  <2>1. stateBlocks \in Seq(Blocks) /\ (stateBlocks = <<>> <=> len = 0)
    BY <1>0 DEF TypeOK
  <2>2. CASE len = 0 \/ stateBlocks[len] # b
    <3>1. slot = len /\ stateBlocks' = Append(stateBlocks, b)
      BY <2>1, <2>2 DEF SubmitProof, UpdateStateAtBlock, StateIndexAt
    <3> QED
      BY <1>0, <1>4, <2>1, <2>2, <3>1
  <2>3. CASE len # 0 /\ stateBlocks[len] = b
    <3>1. stateBlocks' = stateBlocks /\ slot = blockToStateIndex[b]
      BY <2>1, <2>3 DEF SubmitProof, UpdateStateAtBlock, StateIndexAt
    <3>2. blockToStateIndex[stateBlocks[len]] = len - 1
      BY <1>0, <2>3 DEF SnapshotInv, HistoryAscending
    <3> QED
      BY <2>3, <3>1, <3>2
  <2> QED
    BY <2>2, <2>3
<1>6. /\ slot \in StateIndices
      /\ states'[slot] = m
      /\ \A i \in StateIndices \ {slot} : states'[i] = states[i]
      /\ StateIndices = 0..(MaxCheckpoints - 1) /\ MaxCheckpoints \in Nat
  <2>1. slot \in StateIndices
    BY <1>0, <1>4, <1>5, BoundsAssumption DEF StateIndices
  <2> QED
    BY <1>0, <1>4, <2>1, BoundsAssumption DEF TypeOK, StateIndices
<1>7. \A i \in 1..Len(stateBlocks') : /\ i # slot + 1 => i \in 1..len
                                      /\ stateBlocks'[i] = b <=> i = slot + 1
                                      /\ i \in 1..len => stateBlocks'[i] = stateBlocks[i]
  <2> TAKE i \in 1..Len(stateBlocks')
  <2>1. Len(stateBlocks') = slot + 1 /\ slot + 1 \in 1..Len(stateBlocks')
    BY <1>0, <1>4, <1>5, BoundsAssumption
  <2>2. stateBlocks'[slot + 1] = b
    BY <1>0, <1>5
  <2>3. i # slot + 1 => stateBlocks'[i] < stateBlocks'[slot + 1]
    BY <2>1 DEF SnapshotInv, HistoryAscending
  <2>4. b \in Int
    BY <1>4 DEF Blocks
  <2> QED
    BY <1>0, <1>5, <2>1, <2>2, <2>3, <2>4
<1>8. \A i \in 1..Len(stateBlocks') : \E k \in 1..(n + 1) : SlotProves(i, k)'
  <2> TAKE i \in 1..Len(stateBlocks')
  <2>1. CASE i = slot + 1
    <3>1. i - 1 = slot /\ stateBlocks'[i] = b
      BY <1>6, <1>7, <2>1
    <3>2. SlotProves(i, n + 1)'
      <4>1. applied'[n + 1].checkpointId = id
        BY <1>1
      <4>2. states'[i - 1].blockNumber = b /\ states'[i - 1].root = root
        BY <1>6, <3>1
      <4>3. root.program = zkVerifier
        BY <1>4 DEF Compute
      <4>4. (n + 1 + 1)..(n + 1) = {}
        BY <1>0
      <4> QED
        BY <1>0, <1>1, <1>3, <1>4, <3>1, <4>1, <4>2, <4>3, <4>4 DEF SlotProves
    <3> QED
      BY <1>0, <3>2
  <2>2. CASE i # slot + 1
    <3>1. i \in 1..len /\ stateBlocks'[i] = stateBlocks[i] /\ stateBlocks[i] # b
      BY <1>7, <2>2
    <3>2. PICK k \in 1..n : SlotProves(i, k)
      BY <3>1, SlotBySlotProof DEF SlotsInv
    <3>3. states'[i - 1] = states[i - 1]
      BY <1>0, <1>4, <1>6, <2>2, <3>1
    <3>4. \A l \in (k + 1)..(n + 1) : l \in 1..n \/ l = n + 1
      BY <1>0
    <3>5. \A l \in (k + 1)..(n + 1) :
             FilingBlock(applied'[l].checkpointId) # stateBlocks[i]
      <4> TAKE l \in (k + 1)..(n + 1)
      <4>1. CASE l = n + 1
        BY <1>1, <3>1, <4>1
      <4>2. CASE l \in 1..n
        BY <1>0, <1>1, <3>2, <4>2 DEF SlotProves
      <4> QED
        BY <3>4, <4>1, <4>2
    <3>6. applied'[k] = applied[k] /\ k \in 1..(n + 1)
      BY <1>0, <1>1
    <3>7. SlotProves(i, k)'
      BY <1>0, <1>1, <1>3, <3>1, <3>2, <3>3, <3>5, <3>6 DEF SlotProves
    <3> QED
      BY <3>6, <3>7
  <2> QED
    BY <2>1, <2>2
<1>9. SlotsProvePinnedInputs'
  <2>1. \A i \in 1..Len(stateBlocks') :
           \E k \in 1..Len(applied') : SlotProves(i, k)'
    BY <1>1, <1>8
  <2> QED
    BY <2>1 DEF SlotsProvePinnedInputs, SlotProves
<1> QED
  BY <1>2, <1>9 DEF SlotsInv

LEMMA SlotsInvariant == Spec => []SlotsInv
<1>1. Init => SlotsInv
  BY DEF Init, SlotsInv, AppliedIssued, SlotsProvePinnedInputs
<1>2. SlotsInv /\ SnapshotInv /\ SnapshotInv' /\ [Next]_vars => SlotsInv'
  BY FrozenStays, HistoryMoves, SlotsKept, SlotsSubmitted
<1> QED
  BY <1>1, <1>2, SnapshotInvariant, PTL DEF Spec

\* Every slot of the history holds what some program computed from exactly the
\* inputs and the parameters the newest proof of its block was pinned to.
THEOREM SlotsProvePinned == Spec => []SlotsProvePinnedInputs
<1>1. SlotsInv => SlotsProvePinnedInputs
  BY DEF SlotsInv
<1> QED
  BY <1>1, SlotsInvariant, PTL

\* "Score as of block N" is honest for any chain: the state filed at block N
\* was computed from both lanes as they stood in block N.
THEOREM StatesStayAsOf == Spec => []StatesAreAsOfTheirBlock
<1>1. ASSUME FrozenInv, SlotsInv PROVE StatesAreAsOfTheirBlock
  <2> SUFFICES ASSUME NEW i \in 1..Len(stateBlocks)
               PROVE  /\ AsOf(states[i - 1].root.lane1, lane1[accumulator],
                              stateBlocks[i])
                      /\ AsOf(states[i - 1].root.lane2, LiveAnchors,
                              stateBlocks[i])
    BY DEF StatesAreAsOfTheirBlock
  <2>1. PICK k \in 1..Len(applied) : SlotProves(i, k)
    BY <1>1, SlotBySlotProof DEF SlotsInv
  <2> PICK id : id = applied[k].checkpointId
    OBVIOUS
  <2>2. id \in Ids
    BY <1>1 DEF SlotsInv, AppliedIssued
  <2>3. /\ states[i - 1].root.lane1 = CheckpointOf(id).acc
        /\ states[i - 1].root.lane2 = pin[id].anchorAcc
        /\ FilingBlock(id) = stateBlocks[i]
    BY <2>1 DEF SlotProves, Compute
  <2> QED
    BY <1>1, <2>2, <2>3 DEF FrozenInv, FrozenAsOf
<1> QED
  BY <1>1, SlotsInvariant, FrozenInvariant, PTL

-----------------------------------------------------------------------------
(* The schedule.                                                           *)

\* Which epoch an offset is in: an offset below the end of y's epoch is in no
\* later one, when y is a whole number of epochs, and one at or after that end
\* is in a later one.
LEMMA EpochOfOffset ==
    ASSUME NEW x \in Nat, NEW y \in Nat, NEW n \in Nat, n > 0, y % n = 0
    PROVE  /\ x \div n \in Nat /\ y \div n \in Nat
           /\ x < y + n => x \div n <= y \div n
           /\ x >= y + n => x \div n >= y \div n + 1
           /\ x >= n => x \div n >= 1
           /\ ((x \div n) * n) % n = 0
<1> DEFINE p == x \div n
           q == y \div n
           r == x % n
<1>1. /\ p \in Nat /\ q \in Nat /\ r \in 0..(n - 1)
      /\ x = p * n + r /\ y = q * n
  OBVIOUS
<1>2. ((x \div n) * n) % n = 0
  <2>1. \A k \in Nat : (k * n) % n = 0
    OBVIOUS
  <2> QED
    BY <1>1, <2>1
<1> HIDE DEF p, q, r
<1>3. ASSUME x < y + n PROVE p <= q
  <2> SUFFICES ASSUME p >= q + 1 PROVE FALSE
    BY <1>1
  <2>1. PICK d \in Nat : p = q + 1 + d
    <3>1. p - (q + 1) \in Nat /\ p = q + 1 + (p - (q + 1))
      BY <1>1
    <3> QED
      BY <3>1
  <2>2. p * n = q * n + n + d * n /\ d * n \in Nat
    BY <1>1, <2>1
  <2> QED
    BY <1>1, <1>3, <2>2
<1>4. ASSUME x >= y + n PROVE p >= q + 1
  <2> SUFFICES ASSUME p <= q PROVE FALSE
    BY <1>1
  <2>1. PICK d \in Nat : q = p + d
    <3>1. q - p \in Nat /\ q = p + (q - p)
      BY <1>1
    <3> QED
      BY <3>1
  <2>2. q * n = p * n + d * n /\ d * n \in Nat /\ p * n \in Nat
    BY <1>1, <2>1
  <2> QED
    BY <1>1, <1>4, <2>2
<1>5. ASSUME x >= n PROVE p >= 1
  <2> SUFFICES ASSUME p = 0 PROVE FALSE
    BY <1>1
  <2> QED
    BY <1>1, <1>5
<1> QED
  BY <1>1, <1>2, <1>3, <1>4, <1>5 DEF p, q

\* Why no epoch gets two checkpoints: the last consumed boundary is a whole
\* number of epochs after the origin, and everything frozen so far is before
\* the end of the epoch it opened.
ScheduleInv ==
    epochLength > 0 =>
        /\ epochOriginBlock <= lastTriggerBlock
        /\ (lastTriggerBlock - epochOriginBlock) % epochLength = 0
        /\ \A id \in Ids : FilingBlock(id) < lastTriggerBlock + epochLength

\* OneCheckpointPerEpoch in terms of one epoch function.
Epoch(id) == (FilingBlock(id) - epochOriginBlock) \div epochLength
SinceAnchored == {id \in Ids : FilingBlock(id) > epochOriginBlock}

LEMMA PerEpoch ==
    OneCheckpointPerEpoch <=>
        (epochLength > 0 =>
            /\ \A i \in SinceAnchored : Epoch(i) >= 1
            /\ \A i, j \in SinceAnchored : i # j => Epoch(i) # Epoch(j)
            /\ (lastTriggerBlock - epochOriginBlock) % epochLength = 0)
  BY DEF OneCheckpointPerEpoch, Epoch, SinceAnchored

\* A transaction that touches neither the schedule nor the checkpoints.
LEMMA ScheduleKept ==
    ASSUME SnapshotInv, FrozenStay, ScheduleInv, OneCheckpointPerEpoch,
           nextCheckpointId' = nextCheckpointId,
           UNCHANGED <<epochLength, epochOriginBlock, lastTriggerBlock>>
    PROVE  ScheduleInv' /\ OneCheckpointPerEpoch'
<1>1. Ids' = Ids /\ \A id \in Ids : FilingBlock(id)' = FilingBlock(id)
  BY DEF Ids, FrozenStay, FilingBlock
<1>2. SinceAnchored' = SinceAnchored /\ SinceAnchored \subseteq Ids
  BY <1>1 DEF SinceAnchored
<1>3. \A id \in Ids : Epoch(id)' = Epoch(id)
  BY <1>1 DEF Epoch
<1>4. ScheduleInv'
  BY <1>1 DEF ScheduleInv
<1>5. OneCheckpointPerEpoch'
  BY <1>2, <1>3, PerEpoch DEF OneCheckpointPerEpoch, Epoch, SinceAnchored
<1> QED
  BY <1>4, <1>5

\* A newly anchored schedule starts with no checkpoint of its own.
LEMMA ScheduleSet ==
    ASSUME SnapshotInv, FrozenStay, ScheduleInv, OneCheckpointPerEpoch,
           NEW n \in EpochLengths, SetEpochLength(n)
    PROVE  ScheduleInv' /\ OneCheckpointPerEpoch'
<1>0. nextCheckpointId' = nextCheckpointId
  BY DEF SetEpochLength
<1>1. CASE n = epochLength
  BY <1>0, <1>1, ScheduleKept DEF SetEpochLength
<1>2. CASE n # epochLength /\ n = 0
  <2>1. epochLength' = 0
    BY <1>2 DEF SetEpochLength
  <2> QED
    BY <2>1 DEF ScheduleInv, OneCheckpointPerEpoch
<1>3. CASE n # epochLength /\ n # 0
  <2>1. /\ epochLength' = n /\ epochOriginBlock' = block
        /\ lastTriggerBlock' = block
        /\ n \in Nat /\ n > 0 /\ block \in Nat
    BY <1>3, BoundsAssumption DEF SetEpochLength, SnapshotInv, TypeOK, Blocks
  <2>2. \A id \in Ids' : FilingBlock(id)' \in Nat /\ FilingBlock(id)' <= block
    <3>1. Ids' = Ids
      BY <1>0 DEF Ids
    <3>2. \A id \in Ids : FilingBlock(id)' = CheckpointOf(id).blockNumber
      BY DEF FrozenStay, FilingBlock
    <3>3. \A id \in Ids : /\ CheckpointOf(id).blockNumber \in Nat
                          /\ CheckpointOf(id).blockNumber <= block
      BY IssuedType DEF SnapshotInv, CheckpointsWellFormed
    <3> QED
      BY <3>1, <3>2, <3>3
  <2>3. (block - block) % n = 0
    BY <2>1
  <2>4. ScheduleInv'
    BY <2>1, <2>2, <2>3 DEF ScheduleInv
  <2>5. SinceAnchored' = {}
    BY <2>1, <2>2 DEF SinceAnchored
  <2>6. OneCheckpointPerEpoch'
    BY <2>1, <2>3, <2>5 DEF OneCheckpointPerEpoch, SinceAnchored
  <2> QED
    BY <2>4, <2>6
<1> QED
  BY <1>1, <1>2, <1>3

\* trigger() consumes the boundary of the epoch it runs in, which is later than
\* every epoch that has a checkpoint.
LEMMA ScheduleTriggered ==
    ASSUME SnapshotInv, FrozenStay, LanesExtend, ScheduleInv,
           OneCheckpointPerEpoch, Trigger
    PROVE  ScheduleInv' /\ OneCheckpointPerEpoch'
<1> PICK n : n = nextCheckpointId
  OBVIOUS
<1> PICK len : len = epochLength
  OBVIOUS
<1> PICK o : o = epochOriginBlock
  OBVIOUS
<1> PICK last : last = lastTriggerBlock
  OBVIOUS
<1> PICK now : now = block
  OBVIOUS
<1>0. /\ epochLength' = len /\ epochOriginBlock' = o
      /\ lastTriggerBlock' = ConsumedBoundary
      /\ len \in Nat /\ o \in Nat /\ last \in Nat /\ now \in Nat
      /\ o <= now /\ last <= now
      /\ len > 0 => now >= last + len
  BY BoundsAssumption
     DEF Trigger, configVars, SnapshotInv, TypeOK, ClockBounds, Blocks,
         EpochElapsed
<1> SUFFICES ASSUME len > 0
             PROVE  ScheduleInv' /\ OneCheckpointPerEpoch'
  BY <1>0 DEF ScheduleInv, OneCheckpointPerEpoch
<1> DEFINE boundary == o + ((now - o) \div len) * len
<1>1. /\ lastTriggerBlock' = boundary
      /\ boundary \in Nat /\ o <= boundary /\ now < boundary + len
  BY <1>0, BoundaryWithin DEF ConsumedBoundary
<1>2. /\ o <= last /\ (last - o) % len = 0
      /\ \A id \in Ids : FilingBlock(id) < last + len
      /\ \A i \in SinceAnchored : Epoch(i) >= 1
      /\ \A i, j \in SinceAnchored : i # j => Epoch(i) # Epoch(j)
  BY PerEpoch DEF ScheduleInv
<1>3. /\ Ids' = Ids \cup {n} /\ FilingBlock(n)' = now
      /\ \A id \in Ids : id < n
      /\ n \in Nat
  BY TriggerFreezesLive
<1>4. \A id \in Ids : /\ FilingBlock(id)' = FilingBlock(id)
                      /\ FilingBlock(id) \in Nat
  BY IssuedType DEF FrozenStay, FilingBlock
<1>5. (boundary - o) % len = 0
  <2>1. /\ (((now - o) \div len) * len) % len = 0
        /\ (now - o) \div len \in Nat
    BY <1>0, <1>2, EpochOfOffset
  <2>2. boundary - o = ((now - o) \div len) * len
    BY <1>0, <2>1
  <2> QED
    BY <2>1, <2>2
<1>6. last + len <= boundary + len
  <2>1. (now - o) \div len >= (last - o) \div len + 1
    BY <1>0, <1>2, EpochOfOffset
  <2>2. last - o = ((last - o) \div len) * len
    BY <1>0, <1>2
  <2> DEFINE p == (now - o) \div len
             q == (last - o) \div len
  <2>3. p \in Nat /\ q \in Nat
    BY <1>0, <1>2, EpochOfOffset
  <2>4. boundary = o + p * len /\ last - o = q * len /\ p >= q + 1
    BY <2>1, <2>2
  <2> HIDE DEF p, q, boundary
  <2>5. PICK d \in Nat : p = q + 1 + d
    <3>1. p - (q + 1) \in Nat /\ p = q + 1 + (p - (q + 1))
      BY <2>3, <2>4
    <3> QED
      BY <3>1
  <2>6. p * len = q * len + len + d * len /\ d * len \in Nat
    BY <1>0, <2>3, <2>5
  <2> QED
    BY <1>0, <1>1, <2>3, <2>4, <2>6
<1>7. ScheduleInv'
  <2>1. \A id \in Ids' : FilingBlock(id)' < boundary + len
    BY <1>0, <1>1, <1>2, <1>3, <1>4, <1>6
  <2> QED
    BY <1>0, <1>1, <1>5, <2>1 DEF ScheduleInv
<1>8. SinceAnchored' = SinceAnchored \cup {n}
  <2>1. now > o
    BY <1>0, <1>2
  <2> QED
    BY <1>0, <1>3, <1>4, <2>1 DEF SinceAnchored
<1>9. \A id \in SinceAnchored :
         /\ id \in Ids /\ Epoch(id)' = Epoch(id)
         /\ Epoch(id) <= (last - o) \div len /\ Epoch(id) \in Nat
  <2> TAKE id \in SinceAnchored
  <2>1. id \in Ids /\ FilingBlock(id) > o
    BY DEF SinceAnchored
  <2>2. FilingBlock(id) - o \in Nat /\ FilingBlock(id) - o < (last - o) + len
    BY <1>0, <1>2, <1>4, <2>1
  <2>3. /\ Epoch(id) = (FilingBlock(id) - o) \div len
        /\ Epoch(id)' = (FilingBlock(id) - o) \div len
    BY <1>0, <1>4, <2>1 DEF Epoch
  <2> QED
    BY <1>0, <1>2, <2>1, <2>2, <2>3, EpochOfOffset
<1>10. /\ Epoch(n)' \in Nat /\ Epoch(n)' >= 1
       /\ Epoch(n)' >= (last - o) \div len + 1
       /\ (last - o) \div len \in Nat
  <2>1. Epoch(n)' = (now - o) \div len
    BY <1>0, <1>3 DEF Epoch
  <2>2. now - o \in Nat /\ now - o >= (last - o) + len /\ last - o \in Nat
        /\ now - o >= len
    BY <1>0, <1>2
  <2> QED
    BY <1>0, <1>2, <2>1, <2>2, EpochOfOffset
<1>11. \A i \in SinceAnchored' : Epoch(i)' >= 1
  BY <1>2, <1>8, <1>9, <1>10
<1>12. \A i, j \in SinceAnchored' : i # j => Epoch(i)' # Epoch(j)'
  <2> TAKE i, j \in SinceAnchored'
  <2>1. CASE i \in SinceAnchored /\ j \in SinceAnchored
    BY <1>2, <1>9, <2>1
  <2>2. CASE i = n /\ j \in SinceAnchored
    BY <1>9, <1>10, <2>2
  <2>3. CASE j = n /\ i \in SinceAnchored
    BY <1>9, <1>10, <2>3
  <2> QED
    BY <1>8, <2>1, <2>2, <2>3
<1>13. OneCheckpointPerEpoch'
  BY <1>0, <1>1, <1>5, <1>11, <1>12
     DEF OneCheckpointPerEpoch, Epoch, SinceAnchored
<1> QED
  BY <1>7, <1>13

\* Under a schedule no epoch ever gets two checkpoints and the phase never
\* drifts, however late trigger() is called and however the schedule is changed.
THEOREM NoEpochHasTwo == Spec => []OneCheckpointPerEpoch
<1> DEFINE Inv == ScheduleInv /\ OneCheckpointPerEpoch
<1>1. Init => Inv
  BY DEF Init, ScheduleInv, OneCheckpointPerEpoch
<1>2. ASSUME Inv, SnapshotInv, SnapshotInv', [Next]_vars PROVE Inv'
  <2>1. FrozenStay /\ LanesExtend
    BY <1>2, FrozenStays, LanesAreExtended
  <2>2. CASE Trigger
    BY <1>2, <2>1, <2>2, ScheduleTriggered
  <2>3. ASSUME NEW n \in EpochLengths, SetEpochLength(n) PROVE Inv'
    BY <1>2, <2>1, <2>3, ScheduleSet
  <2>4. \/ Trigger
        \/ \E n \in EpochLengths : SetEpochLength(n)
        \/ UNCHANGED <<epochLength, epochOriginBlock, lastTriggerBlock>>
    BY <1>2
       DEF Next, Tick, FoldAt, Anchor, BindSnapshot, Govern, SetZkVerifier,
           SetAccumulator, SetParamsHash, EnableStateProvenance,
           SetAnchorRegistry, SubmitProof, vars, configVars, freezeVars
  <2>5. CASE /\ nextCheckpointId' = nextCheckpointId
             /\ UNCHANGED <<epochLength, epochOriginBlock, lastTriggerBlock>>
    BY <1>2, <2>1, <2>5, ScheduleKept
  <2> QED
    BY <2>1, <2>2, <2>3, <2>4, <2>5 DEF FrozenStay
<1>3. Inv => OneCheckpointPerEpoch
  OBVIOUS
<1> QED
  BY <1>1, <1>2, <1>3, SnapshotInvariant, PTL DEF Spec

-----------------------------------------------------------------------------
(* Reads of the history.                                                   *)

\* The state of the search before its first turn.
Whole == [left |-> 0, right |-> Len(stateBlocks), result |-> -1]

\* The loop is a function: each turn starts from what the last one left.
LEMMA SearchIsALoop ==
    ASSUME NEW b, Len(stateBlocks) \in Nat
    PROVE  \A n \in 0..Len(stateBlocks) :
              Search(b)[n] = IF n = 0 THEN Whole
                             ELSE SearchTurn(b, Search(b)[n - 1])
<1> DEFINE Loop(m, g) == g = [n \in 0..m |-> IF n = 0 THEN Whole
                                            ELSE SearchTurn(b, g[n - 1])]
           P == {m \in Nat : \E g : Loop(m, g)}
<1>1. 0 \in P
  <2> DEFINE g == [n \in 0..0 |-> Whole]
  <2>1. g = [n \in 0..0 |-> IF n = 0 THEN Whole ELSE SearchTurn(b, g[n - 1])]
    OBVIOUS
  <2> QED
    BY <2>1
<1>2. ASSUME NEW m \in P PROVE m + 1 \in P
  <2>1. PICK g : Loop(m, g)
    OBVIOUS
  <2> DEFINE h == [n \in 0..(m + 1) |->
                     IF n = m + 1 THEN SearchTurn(b, g[m]) ELSE g[n]]
  <2>2. m \in Nat
    OBVIOUS
  <2>3. \A n \in 0..m : g[n] = IF n = 0 THEN Whole ELSE SearchTurn(b, g[n - 1])
    BY <2>1, Zenon
  <2>4. \A n \in 0..m : h[n] = g[n]
    BY <2>2
  <2>5. \A n \in 0..(m + 1) :
           h[n] = IF n = 0 THEN Whole ELSE SearchTurn(b, h[n - 1])
    <3> TAKE n \in 0..(m + 1)
    <3>1. CASE n = m + 1
      <4>1. h[n] = SearchTurn(b, g[m]) /\ n # 0 /\ n - 1 = m /\ h[m] = g[m]
        <5>1. n \in 0..(m + 1) /\ m \in 0..m /\ n # 0 /\ n - 1 = m
          BY <2>2, <3>1
        <5>2. h[n] = SearchTurn(b, g[m])
          BY <3>1, <5>1, Zenon
        <5>3. h[m] = g[m]
          BY <2>4, <5>1
        <5> QED
          BY <5>1, <5>2, <5>3
      <4> QED
        BY <4>1
    <3>2. CASE n \in 0..m /\ n # 0
      <4>1. n - 1 \in 0..m
        BY <2>2, <3>2
      <4> QED
        BY <2>3, <2>4, <3>2, <4>1
    <3>3. CASE n = 0
      BY <2>2, <2>3, <2>4, <3>3
    <3> QED
      BY <2>2, <3>1, <3>2, <3>3
  <2>6. Loop(m + 1, h)
    <3>1. h = [n \in 0..(m + 1) |-> h[n]]
      OBVIOUS
    <3> HIDE DEF h
    <3> QED
      BY <2>5, <3>1, Zenon
  <2> HIDE DEF Loop, h
  <2> QED
    BY <2>2, <2>6
<1>3. Len(stateBlocks) \in P
  <2> HIDE DEF P
  <2>1. P = Nat
    <3>1. P \in SUBSET Nat
      BY DEF P
    <3> QED
      BY <1>1, <1>2, <3>1, NumbersByInduction
  <2> QED
    BY <2>1
<1>4. PICK g : Loop(Len(stateBlocks), g)
  BY <1>3
<1>5. Search(b) = CHOOSE f : Loop(Len(stateBlocks), f)
  BY Zenon DEF Search, Whole
<1>6. Loop(Len(stateBlocks), Search(b))
  <2> HIDE DEF Loop
  <2> QED
    BY <1>4, <1>5, Zenon
<1> QED
  BY <1>6, Zenon

\* The search has found everything left of the interval to be filed at or
\* before b, and everything right of it later.
Splits(b, s) ==
    /\ s = [left |-> s.left, right |-> s.right, result |-> s.left - 1]
    /\ s.left \in 0..Len(stateBlocks) /\ s.right \in 0..Len(stateBlocks)
    /\ s.left <= s.right
    /\ \A i \in 1..s.left : stateBlocks[i] <= b
    /\ \A i \in (s.right + 1)..Len(stateBlocks) : stateBlocks[i] > b

\* A turn keeps that, and shortens the interval until it is empty.
LEMMA TurnSplits ==
    ASSUME SnapshotInv, NEW b \in Blocks, NEW s, Splits(b, s)
    PROVE  LET t == SearchTurn(b, s)
           IN  /\ Splits(b, t)
               /\ t.left # t.right => t.right - t.left < s.right - s.left
<1> PICK len : len = Len(stateBlocks)
  OBVIOUS
<1> DEFINE mid == (s.left + s.right) \div 2
           midBlock == stateBlocks[mid + 1]
           t == SearchTurn(b, s)
<1>0. TypeOK /\ HistoryAscending
  BY DEF SnapshotInv
<1>1. /\ stateBlocks \in Seq(Blocks) /\ len \in Nat /\ b \in Int
      /\ \A i \in 1..len : stateBlocks[i] \in Int
      /\ \A i, j \in 1..len : i < j => stateBlocks[i] < stateBlocks[j]
      /\ \A i \in 1..len : blockToStateIndex[stateBlocks[i]] = i - 1
      /\ s.left \in 0..len /\ s.right \in 0..len /\ s.left \in Nat
      /\ s.right \in Nat
  <2>1. stateBlocks \in Seq(Blocks) /\ len \in Nat
    BY <1>0 DEF TypeOK
  <2>2. \A i \in 1..len : stateBlocks[i] \in Blocks
    BY <2>1
  <2>3. s.left \in 0..len /\ s.right \in 0..len
    BY DEF Splits
  <2> QED
    BY <1>0, <2>1, <2>2, <2>3 DEF HistoryAscending, Blocks
<1>2. CASE s.left >= s.right
  <2>1. t = s
    BY <1>2 DEF SearchTurn
  <2> QED
    BY <1>1, <1>2, <2>1 DEF Splits
<1>3. CASE s.left < s.right
  <2>1. /\ mid \in Nat /\ s.left <= mid /\ mid < s.right
        /\ mid + 1 \in 1..len /\ mid + 1 \in 0..len
    BY <1>1, <1>3
  <2>2. blockToStateIndex[midBlock] = mid /\ midBlock \in Int
    BY <1>1, <2>1
  <2> HIDE DEF mid
  <2>3. /\ \A i \in 1..(mid + 1) : stateBlocks[i] <= midBlock
        /\ \A i \in (mid + 1)..len : stateBlocks[i] >= midBlock
        /\ \A i \in (mid + 1 + 1)..len : stateBlocks[i] > midBlock
    <3>1. ASSUME NEW i \in 1..(mid + 1) PROVE stateBlocks[i] <= midBlock
      <4>1. i \in 1..len
        BY <1>1, <2>1
      <4>2. CASE i = mid + 1
        BY <1>1, <2>2, <4>1, <4>2
      <4>3. CASE i < mid + 1
        BY <1>1, <2>1, <2>2, <4>1, <4>3
      <4> QED
        BY <2>1, <4>2, <4>3
    <3>2. ASSUME NEW i \in (mid + 1 + 1)..len PROVE stateBlocks[i] > midBlock
      BY <1>1, <2>1, <2>2
    <3>3. ASSUME NEW i \in (mid + 1)..len PROVE stateBlocks[i] >= midBlock
      <4>1. i = mid + 1 \/ i \in (mid + 1 + 1)..len
        BY <1>1, <2>1
      <4>2. i \in 1..len
        BY <1>1, <2>1
      <4> QED
        BY <1>1, <2>2, <3>2, <4>1, <4>2
    <3> QED
      BY <3>1, <3>2, <3>3
  <2>4. CASE midBlock = b
    <3>1. t = [left |-> mid + 1, right |-> mid + 1, result |-> mid]
      BY <1>1, <1>3, <2>2, <2>4 DEF SearchTurn, mid
    <3>2. /\ t.left = mid + 1 /\ t.right = mid + 1 /\ mid + 1 - 1 = mid
          /\ t = [left |-> t.left, right |-> t.right, result |-> t.left - 1]
      BY <2>1, <3>1
    <3>3. Splits(b, t)
      <4> HIDE DEF t
      <4> QED
        BY <2>1, <2>3, <2>4, <3>2 DEF Splits
    <3> QED
      BY <3>2, <3>3
  <2>5. CASE midBlock # b /\ midBlock < b
    <3>1. t = [left |-> mid + 1, right |-> s.right, result |-> mid]
      BY <1>1, <1>3, <2>2, <2>5 DEF SearchTurn, mid
    <3>2. /\ t.left = mid + 1 /\ t.right = s.right /\ mid + 1 - 1 = mid
          /\ t = [left |-> t.left, right |-> t.right, result |-> t.left - 1]
      BY <2>1, <3>1
    <3>3. \A i \in 1..(mid + 1) : stateBlocks[i] <= b
      <4>1. \A i \in 1..(mid + 1) : i \in 1..len
        BY <1>1, <2>1
      <4> QED
        BY <1>1, <2>2, <2>3, <2>5, <4>1
    <3>4. Splits(b, t)
      <4> HIDE DEF t
      <4> QED
        BY <1>1, <2>1, <3>2, <3>3 DEF Splits
    <3> QED
      BY <1>1, <2>1, <3>2, <3>4
  <2>6. CASE midBlock # b /\ ~(midBlock < b)
    <3>1. t = [left |-> s.left, right |-> mid, result |-> s.result]
      BY <1>1, <1>3, <2>2, <2>6 DEF SearchTurn, mid
    <3>2. /\ t.left = s.left /\ t.right = mid
          /\ t = [left |-> t.left, right |-> t.right, result |-> t.left - 1]
      <4>1. s.result = s.left - 1
        BY DEF Splits
      <4> QED
        BY <3>1, <4>1
    <3>3. \A i \in (mid + 1)..len : stateBlocks[i] > b
      <4>1. \A i \in (mid + 1)..len : i \in 1..len
        BY <1>1, <2>1
      <4> QED
        BY <1>1, <2>2, <2>3, <2>6, <4>1
    <3>4. Splits(b, t)
      <4>1. mid \in 0..len
        BY <1>1, <2>1
      <4> HIDE DEF t
      <4> QED
        BY <1>1, <2>1, <3>2, <3>3, <4>1 DEF Splits
    <3> QED
      BY <1>1, <2>1, <3>2, <3>4
  <2> QED
    BY <2>4, <2>5, <2>6
<1> QED
  BY <1>1, <1>2, <1>3

\* As many turns as there are blocks end the search, at the newest block filed
\* at or before b.
LEMMA SearchEnds ==
    ASSUME SnapshotInv, NEW b \in Blocks
    PROVE  LET s == Search(b)[Len(stateBlocks)]
           IN  Splits(b, s) /\ s.left = s.right
<1> PICK len : len = Len(stateBlocks)
  OBVIOUS
<1> DEFINE S(n) == Search(b)[n]
           P == {n \in Nat : n <= len =>
                   /\ Splits(b, S(n))
                   /\ S(n).right - S(n).left <= len - n}
<1>0. len \in Nat /\ Len(stateBlocks) \in Nat
  BY DEF SnapshotInv, TypeOK
<1>1. \A n \in 0..len : S(n) = IF n = 0 THEN Whole ELSE SearchTurn(b, S(n - 1))
  BY <1>0, SearchIsALoop
<1> HIDE DEF S
<1>2. 0 \in P
  <2>1. S(0) = Whole
    BY <1>0, <1>1
  <2> QED
    BY <1>0, <2>1 DEF Splits, Whole
<1>3. ASSUME NEW n \in P PROVE n + 1 \in P
  <2> SUFFICES ASSUME n + 1 <= len
               PROVE  /\ Splits(b, S(n + 1))
                      /\ S(n + 1).right - S(n + 1).left <= len - (n + 1)
    OBVIOUS
  <2>1. n \in Nat /\ n + 1 \in 0..len /\ n + 1 # 0 /\ (n + 1) - 1 = n
    BY <1>0
  <2>2. Splits(b, S(n)) /\ S(n).right - S(n).left <= len - n
    BY <1>0, <2>1
  <2>3. S(n + 1) = SearchTurn(b, S(n))
    BY <1>1, <2>1
  <2>4. /\ Splits(b, S(n + 1))
        /\ S(n + 1).left # S(n + 1).right =>
              S(n + 1).right - S(n + 1).left < S(n).right - S(n).left
    BY <2>2, <2>3, TurnSplits
  <2>5. /\ S(n).left \in Int /\ S(n).right \in Int
        /\ S(n + 1).left \in Int /\ S(n + 1).right \in Int
    BY <1>0, <2>2, <2>4 DEF Splits
  <2> QED
    BY <1>0, <2>1, <2>2, <2>4, <2>5
<1>4. P = Nat
  <2> HIDE DEF P
  <2>1. P \in SUBSET Nat
    BY DEF P
  <2> QED
    BY <1>2, <1>3, <2>1, NumbersByInduction
<1>5. Splits(b, S(len)) /\ S(len).right - S(len).left <= 0
  BY <1>0, <1>4
<1>6. S(len).left = S(len).right
  BY <1>0, <1>5 DEF Splits
<1> QED
  BY <1>5, <1>6 DEF S

\* The index of a block, filed or not, is that of some slot.
IndexInRange ==
    stateBlocks # <<>> =>
        \A b \in Blocks : blockToStateIndex[b] < Len(stateBlocks)

\* Every index is zero until the first state is filed.
NoIndexYet ==
    stateBlocks = <<>> => \A b \in Blocks : blockToStateIndex[b] = 0

LEMMA IndexSubmitted ==
    ASSUME SnapshotInv, IndexInRange, NoIndexYet, NEW id \in Ids, NEW root,
           NEW recipient, SubmitProof(id, root, recipient)
    PROVE  IndexInRange' /\ NoIndexYet'
<1> PICK b : b = FilingBlock(id)
  OBVIOUS
<1> PICK len : len = Len(stateBlocks)
  OBVIOUS
<1>1. /\ stateBlocks \in Seq(Blocks) /\ len \in Nat /\ b \in Blocks
      /\ blockToStateIndex \in [Blocks -> Nat]
      /\ stateBlocks = <<>> <=> len = 0
  <2>1. b \in Blocks
    BY IssuedType DEF FilingBlock, Checkpoint
  <2>2. stateBlocks \in Seq(Blocks) /\ blockToStateIndex \in [Blocks -> Nat]
    BY DEF SnapshotInv, TypeOK
  <2> QED
    BY <2>1, <2>2
<1>2. CASE len = 0 \/ stateBlocks[len] # b
  <2>1. /\ stateBlocks' = Append(stateBlocks, b)
        /\ blockToStateIndex' = [blockToStateIndex EXCEPT ![b] = len]
    BY <1>1, <1>2 DEF SubmitProof, UpdateStateAtBlock, StateIndexAt
  <2>2. Len(stateBlocks') = len + 1 /\ stateBlocks' # <<>>
    BY <1>1, <2>1
  <2>3. \A c \in Blocks : blockToStateIndex'[c] < len + 1
    <3>1. \A c \in Blocks : blockToStateIndex[c] < len + 1
      BY <1>1 DEF IndexInRange, NoIndexYet
    <3> QED
      BY <1>1, <2>1, <3>1
  <2> QED
    BY <2>2, <2>3 DEF IndexInRange, NoIndexYet
<1>3. CASE len # 0 /\ stateBlocks[len] = b
  <2>1. stateBlocks' = stateBlocks /\ blockToStateIndex' = blockToStateIndex
    BY <1>1, <1>3 DEF SubmitProof, UpdateStateAtBlock
  <2> QED
    BY <2>1 DEF IndexInRange, NoIndexYet
<1> QED
  BY <1>2, <1>3

\* getStateAtBlock(N) answers with the newest state filed at or before N, for
\* every history and every N, and reverts exactly when there is none.
THEOREM QueriesAreRight == Spec => []QueriesFindNewestAtOrBefore
<1> DEFINE Inv == IndexInRange /\ NoIndexYet
<1>1. Init => Inv
  BY DEF Init, IndexInRange, NoIndexYet
<1>2. ASSUME Inv, SnapshotInv, [Next]_vars PROVE Inv'
  <2>1. CASE UNCHANGED historyVars
    BY <1>2, <2>1 DEF historyVars, IndexInRange, NoIndexYet
  <2> QED
    BY <1>2, <2>1, HistoryMoves, IndexSubmitted
<1>3. ASSUME Inv, SnapshotInv PROVE QueriesFindNewestAtOrBefore
  <2> SUFFICES ASSUME NEW b \in Blocks
               PROVE  LET before == {i \in 1..Len(stateBlocks) :
                                        stateBlocks[i] <= b}
                      IN  GetStateAtBlock(b) =
                            IF before = {} THEN NoState
                            ELSE states[Cardinality(before) - 1]
    BY DEF QueriesFindNewestAtOrBefore
  <2> PICK len : len = Len(stateBlocks)
    OBVIOUS
  <2> PICK s : s = Search(b)[len]
    OBVIOUS
  <2> DEFINE before == {i \in 1..len : stateBlocks[i] <= b}
             cut == s.left
             direct == blockToStateIndex[b]
  <2>1. /\ cut \in 0..len /\ cut \in Nat /\ len \in Nat
        /\ s.result = cut - 1
        /\ \A i \in 1..cut : stateBlocks[i] <= b
        /\ \A i \in (cut + 1)..len : stateBlocks[i] > b
    <3>1. Splits(b, s) /\ s.left = s.right
      BY <1>3, SearchEnds
    <3>2. len \in Nat
      BY <1>3 DEF SnapshotInv, TypeOK
    <3> QED
      BY <3>1, <3>2 DEF Splits
  <2>2. /\ b \in Int /\ stateBlocks \in Seq(Blocks)
        /\ \A i \in 1..len : stateBlocks[i] \in Int
    <3>1. stateBlocks \in Seq(Blocks)
      BY <1>3 DEF SnapshotInv, TypeOK
    <3>2. \A i \in 1..len : stateBlocks[i] \in Blocks
      BY <3>1
    <3> QED
      BY <3>1, <3>2 DEF Blocks
  <2> HIDE DEF cut
  <2>3. before = 1..cut
    <3>1. ASSUME NEW i \in 1..len
          PROVE  stateBlocks[i] <= b <=> i \in 1..cut
      <4>1. i \in 1..cut \/ i \in (cut + 1)..len
        BY <2>1
      <4> QED
        BY <2>1, <2>2, <4>1
    <3>2. 1..cut \subseteq 1..len
      BY <2>1
    <3> QED
      BY <3>1, <3>2
  <2>4. Cardinality(before) = cut
    <3>1. Cardinality(1..cut) = IF 1 > cut THEN 0 ELSE cut - 1 + 1
      BY <2>1, FS_Interval
    <3>2. Cardinality(1..cut) = cut
      BY <2>1, <3>1
    <3> QED
      BY <2>3, <3>2, Zenon
  <2>5. before = {} <=> cut = 0
    BY <2>1, <2>3
  <2>6. FindStateIndexAtOrBeforeBlock(b) = cut - 1
    BY <2>1 DEF FindStateIndexAtOrBeforeBlock
  <2>7. CASE stateBlocks = <<>>
    <3>1. len = 0 /\ cut = 0
      BY <2>1, <2>7
    <3> QED
      BY <2>5, <2>7, <3>1 DEF GetStateAtBlock
  <2>8. CASE stateBlocks # <<>> /\ stateBlocks[direct + 1] = b
    <3>1. direct \in Nat /\ direct + 1 \in 1..len
      BY <1>3, <2>1, <2>8 DEF SnapshotInv, TypeOK, IndexInRange
    <3>2. direct + 1 \in 1..cut
      <4>1. direct + 1 \in before
        BY <2>2, <2>8, <3>1
      <4> QED
        BY <2>3, <4>1
    <3>3. ~(direct + 1 < cut)
      <4> SUFFICES ASSUME direct + 1 < cut PROVE FALSE
        OBVIOUS
      <4>1. cut \in 1..len /\ cut \in 1..cut
        BY <2>1, <3>1
      <4>2. stateBlocks[direct + 1] < stateBlocks[cut]
        BY <1>3, <3>1, <4>1 DEF SnapshotInv, HistoryAscending
      <4>3. stateBlocks[cut] <= b
        BY <2>1, <4>1
      <4> QED
        BY <2>2, <2>8, <4>1, <4>2, <4>3
    <3>4. direct = cut - 1 /\ cut # 0
      BY <2>1, <3>1, <3>2, <3>3
    <3>5. GetStateAtBlock(b) = states[direct]
      BY <2>8 DEF GetStateAtBlock
    <3> QED
      BY <2>4, <2>5, <3>4, <3>5
  <2>9. CASE stateBlocks # <<>> /\ stateBlocks[direct + 1] # b
    <3>1. GetStateAtBlock(b) = IF cut - 1 = -1 THEN NoState ELSE states[cut - 1]
      BY <2>6, <2>9 DEF GetStateAtBlock
    <3>2. cut - 1 = -1 <=> cut = 0
      BY <2>1
    <3> QED
      BY <2>4, <2>5, <3>1, <3>2
  <2> QED
    BY <2>7, <2>8, <2>9
<1> QED
  BY <1>1, <1>2, <1>3, SnapshotInvariant, PTL DEF Spec

-----------------------------------------------------------------------------
(* The other half of the contract.  Its roles, hooks and metadata share no *)
(* state with the lifecycle, so SnapshotGovernance has a specification of  *)
(* its own: GovernanceSpec.                                                *)

\* AuthorityNeverLost and HandoffOnlyByHolder, with the fact that makes the
\* holder counter a cardinality: holders are among the finitely many accounts.
AuthorityInv ==
    /\ constitutional \in SUBSET Accounts
    /\ AuthorityNeverLost
    /\ HandoffOnlyByHolder

\* The counter follows one account joining or leaving a finite set.
LEMMA CountsFollow ==
    ASSUME NEW S \in SUBSET Accounts, NEW x \in Accounts
    PROVE  /\ IsFiniteSet(S) /\ Cardinality(S) \in Nat
           /\ Cardinality(S \cup {x}) =
                 Cardinality(S) + IF x \in S THEN 0 ELSE 1
           /\ Cardinality(S \ {x}) =
                 Cardinality(S) - IF x \in S THEN 1 ELSE 0
           /\ x \in S /\ Cardinality(S) # 1 => S \ {x} # {}
<1>1. IsFiniteSet(S) /\ Cardinality(S) \in Nat
  BY FS_Subset, FS_CardinalityType, GovernanceAssumption
<1>2. Cardinality(S \cup {x}) = Cardinality(S) + IF x \in S THEN 0 ELSE 1
  <2>1. CASE x \in S
    <3>1. S \cup {x} = S
      BY <2>1
    <3>2. Cardinality(S \cup {x}) = Cardinality(S)
      BY <3>1, Zenon
    <3> QED
      BY <1>1, <2>1, <3>2
  <2>2. CASE x \notin S
    BY <1>1, <2>2, FS_AddElement
  <2> QED
    BY <2>1, <2>2
<1>3. Cardinality(S \ {x}) = Cardinality(S) - IF x \in S THEN 1 ELSE 0
  <2>1. CASE x \in S
    BY <1>1, <2>1, FS_RemoveElement
  <2>2. CASE x \notin S
    <3>1. S \ {x} = S
      BY <2>2
    <3>2. Cardinality(S \ {x}) = Cardinality(S)
      BY <3>1, Zenon
    <3> QED
      BY <1>1, <2>2, <3>2
  <2> QED
    BY <2>1, <2>2
<1>4. x \in S /\ Cardinality(S) # 1 => S \ {x} # {}
  BY <1>1, <1>3, FS_EmptySet
<1> QED
  BY <1>1, <1>2, <1>3, <1>4

\* The constructor leaves one holder and no handoff.
LEMMA InitAuthority == GovernanceInit => AuthorityInv
<1> SUFFICES ASSUME GovernanceInit PROVE AuthorityInv
  OBVIOUS
<1>1. PICK admin \in Accounts : constitutional = {admin}
  BY DEF GovernanceInit
<1>2. Cardinality({admin}) = 1
  BY FS_Singleton
<1> QED
  BY <1>1, <1>2 DEF GovernanceInit, AuthorityInv, AuthorityNeverLost, HandoffOnlyByHolder

\* No transaction loses the last holder or orphans a handoff.
LEMMA NextAuthority == AuthorityInv /\ [GovernanceNext]_governanceVars => AuthorityInv'
<1> SUFFICES ASSUME AuthorityInv, [GovernanceNext]_governanceVars PROVE AuthorityInv'
  OBVIOUS
<1> USE DEF AuthorityInv, AuthorityNeverLost, HandoffOnlyByHolder
<1>1. ASSUME NEW caller \in Accounts, NEW x \in Accounts, GrantRole(caller, x)
      PROVE  AuthorityInv'
  <2>1. CASE GrantConstitutional(x) /\ UNCHANGED <<transferor, successor>>
    <3>1. Cardinality(constitutional \cup {x}) =
             Cardinality(constitutional) + IF x \in constitutional THEN 0 ELSE 1
      BY CountsFollow
    <3>2. /\ constitutional' \in SUBSET Accounts /\ constitutional' # {}
          /\ constitutionalHolderCount' = Cardinality(constitutional')
      BY <2>1, <3>1 DEF GrantConstitutional
    <3> QED
      BY <2>1, <3>2 DEF GrantConstitutional
  <2>2. CASE UNCHANGED <<constitutional, constitutionalHolderCount, transferor,
                         successor>>
    BY <2>2
  <2> QED
    BY <1>1, <2>1, <2>2 DEF GrantRole
<1>2. ASSUME NEW caller \in Accounts, NEW x \in Accounts, RevokeRole(caller, x)
      PROVE  AuthorityInv'
  <2>1. CASE RevokeConstitutional(x)
    <3>1. /\ Cardinality(constitutional \ {x}) =
                Cardinality(constitutional) - IF x \in constitutional THEN 1 ELSE 0
          /\ x \in constitutional /\ Cardinality(constitutional) # 1 =>
                constitutional \ {x} # {}
      BY CountsFollow
    <3>2. constitutional' \in SUBSET Accounts /\ constitutional' # {}
      BY <2>1, <3>1 DEF RevokeConstitutional
    <3>3. constitutionalHolderCount' = Cardinality(constitutional')
      BY <2>1, <3>1 DEF RevokeConstitutional
    <3>4. HandoffOnlyByHolder'
      BY <2>1 DEF RevokeConstitutional
    <3> QED
      BY <3>2, <3>3, <3>4
  <2>2. CASE UNCHANGED <<constitutional, constitutionalHolderCount, transferor,
                         successor>>
    BY <2>2
  <2> QED
    BY <1>2, <2>1, <2>2 DEF RevokeRole
<1>3. ASSUME NEW caller \in Accounts, NEW x \in Accounts,
             ProposeConstitutionalTransfer(caller, x)
      PROVE  AuthorityInv'
  BY <1>3, GovernanceAssumption DEF ProposeConstitutionalTransfer
<1>4. ASSUME NEW caller \in Accounts, CancelConstitutionalTransfer(caller)
      PROVE  AuthorityInv'
  BY <1>4 DEF CancelConstitutionalTransfer
<1>5. ASSUME NEW caller \in Accounts, AcceptConstitutionalTransfer(caller)
      PROVE  AuthorityInv'
  <2>1. transferor \in constitutional /\ caller = successor
        /\ transferor # NoAccount /\ caller # transferor
    BY <1>5, GovernanceAssumption DEF AcceptConstitutionalTransfer
  <2> DEFINE grown == constitutional \cup {caller}
  <2>2. /\ grown \in SUBSET Accounts /\ transferor \in grown
        /\ Cardinality(grown) = Cardinality(constitutional)
                                + IF caller \in constitutional THEN 0 ELSE 1
        /\ Cardinality(constitutional) \in Nat
    BY <2>1, CountsFollow
  <2>3. Cardinality(grown \ {transferor}) = Cardinality(grown) - 1
    BY <2>1, <2>2, CountsFollow
  <2>4. /\ constitutional' = grown \ {transferor}
        /\ constitutionalHolderCount' = constitutionalHolderCount
              - IF caller \in constitutional THEN 1 ELSE 0
        /\ transferor' = NoAccount /\ successor' = NoAccount
    BY <1>5 DEF AcceptConstitutionalTransfer
  <2>5. caller \in constitutional'
    BY <2>1, <2>4
  <2>6. constitutionalHolderCount' = Cardinality(constitutional')
    BY <2>2, <2>3, <2>4
  <2> QED
    BY <2>2, <2>4, <2>5, <2>6
<1>6. ASSUME UNCHANGED roleVars PROVE AuthorityInv'
  BY <1>6 DEF roleVars
<1> QED
  BY <1>1, <1>2, <1>3, <1>4, <1>5, <1>6
     DEF GovernanceNext, AddHook, RemoveHook, SetMetadataURI, governanceVars

\* The last constitutional holder can never be removed, by any sequence of
\* grants, revocations, renunciations and handoffs.
THEOREM AuthorityIsNeverLost == GovernanceSpec => []AuthorityNeverLost
<1>1. AuthorityInv => AuthorityNeverLost
  BY DEF AuthorityInv
<1> QED
  BY <1>1, InitAuthority, NextAuthority, PTL DEF GovernanceSpec

\* A pending handoff was proposed by an account that still holds the role.
THEOREM HandoffsStayBacked == GovernanceSpec => []HandoffOnlyByHolder
<1>1. AuthorityInv => HandoffOnlyByHolder
  BY DEF AuthorityInv
<1> QED
  BY <1>1, InitAuthority, NextAuthority, PTL DEF GovernanceSpec

-----------------------------------------------------------------------------
(* The dense hook set.                                                     *)

\* HooksNotifiedOnce with the types it needs; HookSlots is as large as the set
\* of hooks, so a hook not yet installed always finds a slot.
HookInv ==
    /\ hooks \in [HookSlots -> Hooks \cup {NoHook}]
    /\ hookIndex \in [Hooks -> 0..Cardinality(Hooks)]
    /\ nextHookIndex \in 1..(Cardinality(Hooks) + 1)
    /\ HooksNotifiedOnce

\* HooksNotifiedOnce slot by slot.
LEMMA SlotBySlot ==
    ASSUME nextHookIndex \in Int
    PROVE  HooksNotifiedOnce <=>
             /\ \A i \in 1..(nextHookIndex - 1) :
                   hooks[i] \in Hooks /\ hookIndex[hooks[i]] = i
             /\ \A h \in Hooks : hookIndex[h] # 0 => hooks[hookIndex[h]] = h
             /\ \A h \in Hooks : hookIndex[h] < nextHookIndex
BY DEF HooksNotifiedOnce, NotificationOrder

\* While some hook is not installed, a slot is free: the installed hooks sit in
\* distinct slots, and there are fewer of them than hooks.
LEMMA SlotIsFree ==
    ASSUME HookInv, NEW h \in Hooks, hookIndex[h] = 0
    PROVE  nextHookIndex \in HookSlots
<1> DEFINE used == 1..(nextHookIndex - 1)
           others == Hooks \ {h}
           installed == [i \in used |-> hooks[i]]
<1>1. nextHookIndex \in Int /\ nextHookIndex >= 1 /\ Cardinality(Hooks) \in Nat
  BY FS_CardinalityType, GovernanceAssumption DEF HookInv
<1>2. \A i \in used : hooks[i] \in others /\ hookIndex[hooks[i]] = i
  BY <1>1, SlotBySlot DEF HookInv
<1>3. installed \in Injection(used, others)
  <2>1. installed \in [used -> others]
    BY <1>2
  <2>2. \A i, j \in used : installed[i] = installed[j] => i = j
    BY <1>2
  <2> QED
    BY <2>1, <2>2 DEF Injection, IsInjective
<1>4. IsFiniteSet(others) /\ Cardinality(others) = Cardinality(Hooks) - 1
  BY FS_RemoveElement, GovernanceAssumption
<1>5. Cardinality(used) = nextHookIndex - 1
  BY <1>1, FS_Interval
<1>6. Cardinality(used) <= Cardinality(others)
  <2> HIDE DEF used, others, installed
  <2> QED
    BY <1>3, <1>4, FS_Injection
<1> QED
  BY <1>1, <1>4, <1>5, <1>6 DEF HookSlots

\* No hook is installed by the constructor.
LEMMA InitHooks == GovernanceInit => HookInv
<1> SUFFICES ASSUME GovernanceInit PROVE HookInv
  OBVIOUS
<1>1. Cardinality(Hooks) \in Nat
  BY FS_CardinalityType, GovernanceAssumption
<1>2. nextHookIndex = 1 /\ nextHookIndex \in 1..(Cardinality(Hooks) + 1)
  BY <1>1 DEF GovernanceInit
<1>3. hooks \in [HookSlots -> Hooks \cup {NoHook}]
  BY DEF GovernanceInit
<1>4. hookIndex \in [Hooks -> 0..Cardinality(Hooks)] /\ \A h \in Hooks : hookIndex[h] = 0
  BY <1>1 DEF GovernanceInit
<1>5. HooksNotifiedOnce
  BY <1>2, <1>4, SlotBySlot
<1> QED
  BY <1>2, <1>3, <1>4, <1>5 DEF HookInv

\* A new hook takes the free slot behind the others.
LEMMA AddHookInv ==
    ASSUME HookInv, NEW caller \in Accounts, NEW h \in Hooks, AddHook(caller, h)
    PROVE  HookInv'
<1>1. nextHookIndex \in HookSlots /\ hookIndex[h] = 0
  BY SlotIsFree DEF AddHook
<1>2. Cardinality(Hooks) \in Nat /\ HookSlots = 1..Cardinality(Hooks)
  BY FS_CardinalityType, GovernanceAssumption DEF HookSlots
<1>3. /\ hooks' = [hooks EXCEPT ![nextHookIndex] = h]
      /\ hookIndex' = [hookIndex EXCEPT ![h] = nextHookIndex]
      /\ nextHookIndex' = nextHookIndex + 1
  BY DEF AddHook
<1>4. /\ hooks \in [HookSlots -> Hooks \cup {NoHook}]
      /\ hookIndex \in [Hooks -> 0..Cardinality(Hooks)]
      /\ nextHookIndex \in Int
  BY <1>1, <1>2 DEF HookInv
<1>5. /\ \A i \in 1..(nextHookIndex - 1) :
            hooks[i] \in Hooks /\ hookIndex[hooks[i]] = i
      /\ \A g \in Hooks : hookIndex[g] # 0 => hooks[hookIndex[g]] = g
      /\ \A g \in Hooks : hookIndex[g] < nextHookIndex
  BY <1>4, SlotBySlot DEF HookInv
<1>6. /\ hooks' \in [HookSlots -> Hooks \cup {NoHook}]
      /\ hookIndex' \in [Hooks -> 0..Cardinality(Hooks)]
      /\ nextHookIndex' \in 1..(Cardinality(Hooks) + 1)
  BY <1>1, <1>2, <1>3, <1>4
<1>7. HookSlots' = HookSlots
  BY DEF HookSlots
<1>8. \A i \in 1..(nextHookIndex' - 1) :
         hooks'[i] \in Hooks /\ hookIndex'[hooks'[i]] = i
  <2> SUFFICES ASSUME NEW i \in 1..nextHookIndex
               PROVE  hooks'[i] \in Hooks /\ hookIndex'[hooks'[i]] = i
    BY <1>3, <1>4
  <2>1. CASE i = nextHookIndex
    BY <1>1, <1>3, <1>4, <2>1
  <2>2. CASE i # nextHookIndex
    <3>1. i \in 1..(nextHookIndex - 1) /\ i \in HookSlots
      BY <1>1, <1>2, <2>2
    <3>2. hooks'[i] = hooks[i] /\ hooks[i] # h
      BY <1>1, <1>3, <1>4, <1>5, <2>2, <3>1
    <3> QED
      BY <1>3, <1>4, <1>5, <3>1, <3>2
  <2> QED
    BY <2>1, <2>2
<1>9. \A g \in Hooks : /\ hookIndex'[g] # 0 => hooks'[hookIndex'[g]] = g
                       /\ hookIndex'[g] < nextHookIndex'
  <2> SUFFICES ASSUME NEW g \in Hooks
               PROVE  /\ hookIndex'[g] # 0 => hooks'[hookIndex'[g]] = g
                      /\ hookIndex'[g] < nextHookIndex'
    OBVIOUS
  <2>1. CASE g = h
    BY <1>1, <1>3, <1>4, <2>1
  <2>2. CASE g # h
    <3>1. hookIndex'[g] = hookIndex[g] /\ hookIndex[g] < nextHookIndex
          /\ hookIndex[g] \in 0..Cardinality(Hooks)
      BY <1>3, <1>4, <1>5, <2>2
    <3>2. hookIndex[g] # 0 => hooks'[hookIndex[g]] = hooks[hookIndex[g]]
      BY <1>2, <1>3, <1>4, <3>1
    <3> QED
      BY <1>3, <1>4, <1>5, <3>1, <3>2
  <2> QED
    BY <2>1, <2>2
<1>10. HooksNotifiedOnce'
  <2>1. nextHookIndex' \in Int
    BY <1>6, <1>2
  <2> QED
    BY <1>8, <1>9, <2>1 DEF HooksNotifiedOnce, NotificationOrder
<1> QED
  BY <1>6, <1>7, <1>10 DEF HookInv

\* The last hook moves into the slot of the removed one, and its index with it.
LEMMA RemoveHookInv ==
    ASSUME HookInv, NEW caller \in Accounts, NEW h \in Hooks,
           RemoveHook(caller, h)
    PROVE  HookInv'
<1> DEFINE last == nextHookIndex - 1
           moved == hooks[last]
           gap == hookIndex[h]
<1>1. /\ gap # 0
      /\ hooks' = [hooks EXCEPT ![gap] = moved, ![last] = NoHook]
      /\ hookIndex' = [hookIndex EXCEPT ![moved] = gap, ![h] = 0]
      /\ nextHookIndex' = last
  BY DEF RemoveHook
<1>2. Cardinality(Hooks) \in Nat /\ HookSlots = 1..Cardinality(Hooks)
  BY FS_CardinalityType, GovernanceAssumption DEF HookSlots
<1>3. /\ hooks \in [HookSlots -> Hooks \cup {NoHook}]
      /\ hookIndex \in [Hooks -> 0..Cardinality(Hooks)]
      /\ nextHookIndex \in 1..(Cardinality(Hooks) + 1)
      /\ nextHookIndex \in Int
  BY <1>2 DEF HookInv
<1>4. /\ \A i \in 1..last : hooks[i] \in Hooks /\ hookIndex[hooks[i]] = i
      /\ \A g \in Hooks : hookIndex[g] # 0 => hooks[hookIndex[g]] = g
      /\ \A g \in Hooks : hookIndex[g] < nextHookIndex
  BY <1>3, SlotBySlot DEF HookInv
<1>5. /\ gap \in 1..last /\ last \in 1..Cardinality(Hooks)
      /\ gap \in HookSlots /\ last \in HookSlots /\ last \in Int /\ gap \in Int
  BY <1>1, <1>2, <1>3, <1>4
<1>6. /\ moved \in Hooks /\ hookIndex[moved] = last
      /\ hooks[gap] = h
      /\ moved = h <=> gap = last
  BY <1>1, <1>4, <1>5
<1> HIDE DEF last, moved, gap
<1>7. /\ \A i \in HookSlots : hooks'[i] = IF i = last THEN NoHook
                                         ELSE IF i = gap THEN moved ELSE hooks[i]
      /\ \A g \in Hooks : hookIndex'[g] = IF g = h THEN 0
                                         ELSE IF g = moved THEN gap
                                         ELSE hookIndex[g]
  BY <1>1, <1>3, <1>5, <1>6
<1>8. /\ hooks' \in [HookSlots -> Hooks \cup {NoHook}]
      /\ hookIndex' \in [Hooks -> 0..Cardinality(Hooks)]
      /\ nextHookIndex' \in 1..(Cardinality(Hooks) + 1)
  <2>1. hooks' \in [HookSlots -> Hooks \cup {NoHook}]
    BY <1>1, <1>3, <1>6
  <2>2. hookIndex' \in [Hooks -> 0..Cardinality(Hooks)]
    BY <1>1, <1>2, <1>3, <1>5, <1>6
  <2>3. nextHookIndex' \in 1..(Cardinality(Hooks) + 1)
    BY <1>1, <1>2, <1>5
  <2> QED
    BY <2>1, <2>2, <2>3
<1>9. \A i \in 1..(nextHookIndex' - 1) :
         hooks'[i] \in Hooks /\ hookIndex'[hooks'[i]] = i
  <2> SUFFICES ASSUME NEW i \in 1..(last - 1)
               PROVE  hooks'[i] \in Hooks /\ hookIndex'[hooks'[i]] = i
    BY <1>1
  <2>1. i \in HookSlots /\ i \in 1..last /\ i # last
    BY <1>2, <1>5
  <2>2. CASE i = gap
    <3>1. hooks'[i] = moved /\ moved # h
      BY <1>6, <1>7, <2>1, <2>2
    <3> QED
      BY <1>6, <1>7, <2>2, <3>1
  <2>3. CASE i # gap
    <3>1. hooks'[i] = hooks[i] /\ hooks[i] \in Hooks /\ hookIndex[hooks[i]] = i
      BY <1>4, <1>7, <2>1, <2>3
    <3>2. hooks[i] # h /\ hooks[i] # moved
      BY <1>6, <2>1, <2>3, <3>1 DEF gap
    <3> QED
      BY <1>7, <3>1, <3>2
  <2> QED
    BY <2>2, <2>3
<1>10. \A g \in Hooks : /\ hookIndex'[g] # 0 => hooks'[hookIndex'[g]] = g
                        /\ hookIndex'[g] < nextHookIndex'
  <2> SUFFICES ASSUME NEW g \in Hooks
               PROVE  /\ hookIndex'[g] # 0 => hooks'[hookIndex'[g]] = g
                      /\ hookIndex'[g] < last
    BY <1>1
  <2>1. CASE g = h
    <3>1. hookIndex'[g] = 0
      BY <1>7, <2>1
    <3> QED
      BY <1>5, <3>1
  <2>2. CASE g # h /\ g = moved
    <3>1. hookIndex'[g] = gap /\ gap # last
      BY <1>6, <1>7, <2>2
    <3>2. hooks'[gap] = moved
      BY <1>5, <1>7, <3>1
    <3> QED
      BY <1>5, <2>2, <3>1, <3>2
  <2>3. CASE g # h /\ g # moved
    <3>1. hookIndex'[g] = hookIndex[g]
      BY <1>7, <2>3
    <3>2. /\ hookIndex[g] < nextHookIndex
          /\ hookIndex[g] # 0 => hooks[hookIndex[g]] = g
          /\ hookIndex[g] \in 0..Cardinality(Hooks)
      BY <1>3, <1>4
    <3>3. hookIndex[g] # last /\ hookIndex[g] # gap
      BY <1>1, <1>5, <1>6, <2>3, <3>2 DEF moved
    <3>4. hookIndex[g] # 0 => hooks'[hookIndex[g]] = hooks[hookIndex[g]]
      BY <1>2, <1>7, <3>2, <3>3
    <3> QED
      BY <1>2, <1>3, <3>1, <3>2, <3>3, <3>4 DEF last
  <2> QED
    BY <2>1, <2>2, <2>3
<1>11. HooksNotifiedOnce'
  <2>1. nextHookIndex' \in Int
    BY <1>2, <1>8
  <2> QED
    BY <1>9, <1>10, <2>1 DEF HooksNotifiedOnce, NotificationOrder
<1>12. HookSlots' = HookSlots
  BY DEF HookSlots
<1> QED
  BY <1>8, <1>11, <1>12 DEF HookInv

\* However hooks are added and removed, an accepted root reaches each installed
\* one exactly once.
THEOREM HooksAreNotifiedOnce == GovernanceSpec => []HooksNotifiedOnce
<1>1. HookInv /\ [GovernanceNext]_governanceVars => HookInv'
  <2> SUFFICES ASSUME HookInv, [GovernanceNext]_governanceVars PROVE HookInv'
    OBVIOUS
  <2>1. CASE UNCHANGED hookVars
    BY <2>1 DEF hookVars, HookInv, HookSlots, HooksNotifiedOnce, NotificationOrder
  <2>2. ASSUME NEW caller \in Accounts, NEW h \in Hooks,
               AddHook(caller, h) \/ RemoveHook(caller, h)
        PROVE  HookInv'
    BY <2>2, AddHookInv, RemoveHookInv
  <2> QED
    BY <2>1, <2>2
       DEF GovernanceNext, governanceVars, GrantRole, RevokeRole,
           ProposeConstitutionalTransfer, CancelConstitutionalTransfer,
           AcceptConstitutionalTransfer, SetMetadataURI
<1>2. HookInv => HooksNotifiedOnce
  BY DEF HookInv
<1> QED
  BY <1>1, <1>2, InitHooks, PTL DEF GovernanceSpec
=============================================================================
