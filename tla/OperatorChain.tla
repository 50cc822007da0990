---------------------------- MODULE OperatorChain ----------------------------
(***************************************************************************)
(* One instance on chain as the operator sees it through its RPC node:     *)
(* checkpoints frozen by anybody's trigger(), roots accepted by            *)
(* submitProof(), the operator's own transactions, and the blocks that     *)
(* replace others in a reorganisation.                                     *)
(*                                                                         *)
(* Only depth matters of a block, and only up to Confirmations, so an      *)
(* event carries its age: how many blocks were built on the one it is in,  *)
(* counted up to that number.  A block holds at most one event.  The same  *)
(* checkpoint or transaction in another block differs in `block', a number *)
(* given to the block when it is built (its hash).                         *)
(***************************************************************************)
EXTENDS Integers, Sequences, FiniteSets

CONSTANTS
    MaxInputs,          \* bound: attestations
    Confirmations,      \* [finality] confirmations
    ReorgDepth          \* bound: blocks a reorganisation replaces

ASSUME ChainAssumption ==
    /\ MaxInputs \in Nat /\ Confirmations \in Nat
    \* confirmations are chosen so that deeper reorganisations do not happen
    /\ ReorgDepth \in 0..Confirmations

VARIABLES
    live,           \* attestations so far
    frozen,         \* frozen[id]: the inputs, age and block of a checkpoint
    roots,          \* accepted roots, oldest first
    txs,            \* the operator's submissions, oldest first
    accepting,      \* whether the contracts accept a valid submission of ours
    blocks          \* blocks numbered so far

chainVars == <<live, frozen, roots, txs, accepting, blocks>>

Ages == 0..Confirmations
Checkpoint == [inputs : Nat, age : Ages, block : Nat]
Root == [id : Nat, age : Ages]
TxStates == {"pool", "landed", "reverted", "dropped"}
Tx == [id : Nat, proof : Int, state : TxStates, age : Ages, block : Nat]

ChainTypeOK ==
    /\ live \in 0..MaxInputs /\ blocks \in Nat /\ accepting \in BOOLEAN
    /\ frozen \in Seq(Checkpoint) /\ roots \in Seq(Root) /\ txs \in Seq(Tx)

Applied == IF roots = <<>> THEN 0 ELSE roots[Len(roots)].id
InputsOf(id) == IF id = 0 THEN 0 ELSE frozen[id].inputs
LastInputs == InputsOf(Len(frozen))

ChainInit ==
    /\ live = 0 /\ frozen = <<>> /\ roots = <<>> /\ txs = <<>>
    /\ accepting = TRUE /\ blocks = 0

\* Every event gets one block deeper.
Deeper(events) ==
    [i \in DOMAIN events |->
        [events[i] EXCEPT !.age = IF @ < Confirmations THEN @ + 1 ELSE @]]

Mined(tx) == tx.state \in {"landed", "reverted"}
DeeperTxs ==
    [i \in DOMAIN txs |-> IF Mined(txs[i]) THEN Deeper(txs)[i] ELSE txs[i]]
Pool == {i \in DOMAIN txs : txs[i].state = "pool"}

Attest ==
    /\ live < MaxInputs
    /\ live' = live + 1
    /\ UNCHANGED <<frozen, roots, txs, accepting, blocks>>

\* trigger() reverts when nothing moved since the last checkpoint.
Freeze ==
    /\ live > LastInputs
    /\ blocks' = blocks + 1
    /\ frozen' = Append(Deeper(frozen),
                        [inputs |-> live, age |-> 0, block |-> blocks'])
    /\ roots' = Deeper(roots)
    /\ txs' = DeeperTxs
    /\ UNCHANGED <<live, accepting>>

\* submitProof() takes a checkpoint newer than the applied one (StaleCheckpoint
\* otherwise), with a proof of what that checkpoint froze.
Stale(id) == id <= Applied
Accepts(id, block) ==
    /\ accepting /\ ~Stale(id)
    /\ id \in DOMAIN frozen
    /\ frozen[id].block = block

\* Another prover's root.
OtherLands(id) ==
    /\ id \in DOMAIN frozen /\ ~Stale(id)
    /\ roots' = Append(Deeper(roots), [id |-> id, age |-> 0])
    /\ frozen' = Deeper(frozen)
    /\ txs' = DeeperTxs
    /\ UNCHANGED <<live, accepting, blocks>>

\* The operator hands a transaction to the mempool.
Broadcast(id, block) ==
    /\ txs' = Append(txs, [id |-> id, proof |-> block, state |-> "pool",
                           age |-> 0, block |-> 0])
    /\ UNCHANGED <<live, frozen, roots, accepting, blocks>>

\* Nonces put the operator's transactions in order.
Include(i) ==
    /\ i \in Pool /\ \A j \in Pool : i <= j
    /\ blocks' = blocks + 1
    /\ LET ok == Accepts(txs[i].id, txs[i].proof)
       IN  /\ txs' = [DeeperTxs EXCEPT
                        ![i] = [@ EXCEPT !.state = IF ok THEN "landed"
                                                   ELSE "reverted",
                                         !.age = 0, !.block = blocks']]
           /\ roots' = IF ok THEN Append(Deeper(roots),
                                         [id |-> txs[i].id, age |-> 0])
                       ELSE Deeper(roots)
    /\ frozen' = Deeper(frozen)
    /\ UNCHANGED <<live, accepting>>

\* A block with nothing of interest.
EmptyBlock ==
    /\ frozen' = Deeper(frozen) /\ roots' = Deeper(roots)
    /\ txs' = DeeperTxs
    /\ <<frozen, roots, txs>>' # <<frozen, roots, txs>>
    /\ UNCHANGED <<live, accepting, blocks>>

\* The newest `depth' blocks are replaced by empty ones.  The operator's
\* transactions in them go back to the mempool, others' are lost.  An older
\* event is never in a newer block, so what survives comes first.
Survivors(events, depth) ==
    {SubSeq(events, 1, n) : n \in {m \in 0..Len(events) :
        \A i \in DOMAIN events : i <= m <=> events[i].age >= depth}}

Reorg(depth) ==
    /\ frozen' \in Survivors(frozen, depth)
    /\ roots' \in Survivors(roots, depth)
    /\ txs' = [i \in DOMAIN txs |->
                IF Mined(txs[i]) /\ txs[i].age < depth
                THEN [txs[i] EXCEPT !.state = "pool", !.age = 0, !.block = 0]
                ELSE txs[i]]
    /\ <<frozen, roots, txs>>' # <<frozen, roots, txs>>
    /\ UNCHANGED <<live, accepting, blocks>>

\* The mempool forgets the operator's transactions.
DropPool ==
    /\ Pool # {}
    /\ txs' = [i \in DOMAIN txs |->
                IF i \in Pool THEN [txs[i] EXCEPT !.state = "dropped"]
                ELSE txs[i]]
    /\ UNCHANGED <<live, frozen, roots, accepting, blocks>>

\* Terms the plan does not look at change under a proof, or change back: the
\* vault's price and policy, or a verifier rotated after the plan read it.
Refuse ==
    /\ accepting
    /\ accepting' = FALSE
    /\ UNCHANGED <<live, frozen, roots, txs, blocks>>

Accept ==
    /\ ~accepting
    /\ accepting' = TRUE
    /\ UNCHANGED <<live, frozen, roots, txs, blocks>>
=============================================================================
