--------------------------- MODULE Operator_proofs ---------------------------
(***************************************************************************)
(* Proofs about Operator, for any number of checkpoints, attestations,     *)
(* faults and reorganisations.  OperatorInv is inductive.  Purchases: what *)
(* was bought is certified by a journal line that no resolution follows.   *)
(* Depth: a proof is of a checkpoint too deep to be reorganised away.      *)
(* StatusInv: what the process holds for done is done on disk, and it      *)
(* works on nothing of the kind.  WatchInv: what was judged awaits nothing.*)
(* LandInv: a watch is of a submission of its checkpoint, a landed         *)
(* submission has its root in the same block, and what is journaled as     *)
(* landed has a root too deep to be lost.                                  *)
(***************************************************************************)
EXTENDS Operator, SequenceTheorems, TLAPS

(***************************************************************************)
(* The chain.                                                              *)
(***************************************************************************)
\* An event of a new age keeps the rest.
LEMMA NewAge ==
    ASSUME NEW a \in Ages
    PROVE  /\ \A e \in Checkpoint :
                /\ [e EXCEPT !.age = a] \in Checkpoint
                /\ [e EXCEPT !.age = a].age = a
                /\ [e EXCEPT !.age = a].block = e.block
           /\ \A e \in Root : [e EXCEPT !.age = a] \in Root
           /\ \A e \in Tx : /\ [e EXCEPT !.age = a] \in Tx
                             /\ [e EXCEPT !.age = a].id = e.id
  BY DEF Checkpoint, Root, Tx

\* What Deeper does to one event.
Aged(e) == IF e.age < Confirmations THEN e.age + 1 ELSE e.age

\* One block deeper is an age, and not a smaller one.
LEMMA AgedIsAge ==
    ASSUME NEW e, e.age \in Ages, Confirmations \in Nat
    PROVE  Aged(e) \in Ages /\ Aged(e) >= e.age
  BY DEF Aged, Ages

\* Ageing the checkpoints keeps their number, inputs and blocks.
LEMMA DeeperCheckpoints ==
    ASSUME NEW events \in Seq(Checkpoint), Confirmations \in Nat
    PROVE  /\ Deeper(events) \in Seq(Checkpoint)
           /\ DOMAIN Deeper(events) = DOMAIN events
           /\ \A i \in DOMAIN events :
                /\ Deeper(events)[i].age >= events[i].age
                /\ Deeper(events)[i].block = events[i].block
<1> DEFINE d == Deeper(events)
<1>1. /\ DOMAIN events = 1..Len(events) /\ Len(events) \in Nat
      /\ \A i \in DOMAIN events : events[i] \in Checkpoint
  OBVIOUS
<1>2. DOMAIN d = DOMAIN events
  BY DEF Deeper
<1>3. \A i \in DOMAIN events :
        /\ d[i] \in Checkpoint /\ d[i].age >= events[i].age
        /\ d[i].block = events[i].block
  <2> SUFFICES ASSUME NEW i \in DOMAIN events
               PROVE  /\ d[i] \in Checkpoint /\ d[i].age >= events[i].age
                      /\ d[i].block = events[i].block
    OBVIOUS
  <2>1. d[i] = [events[i] EXCEPT !.age = Aged(events[i])]
    BY DEF Deeper, Aged
  <2>2. events[i] \in Checkpoint /\ events[i].age \in Ages
    BY <1>1 DEF Checkpoint
  <2> QED
    BY <2>1, <2>2, AgedIsAge, NewAge
<1>4. d = [i \in 1..Len(events) |-> d[i]]
  BY <1>1 DEF Deeper
<1> HIDE DEF d
<1>5. d \in [1..Len(events) -> Checkpoint]
  BY <1>1, <1>2, <1>3, <1>4
<1>6. d \in Seq(Checkpoint)
  BY <1>1, <1>5
<1> QED
  BY <1>2, <1>3, <1>6 DEF d

\* Ageing the roots.
LEMMA DeeperRoots ==
    ASSUME NEW events \in Seq(Root), Confirmations \in Nat
    PROVE  Deeper(events) \in Seq(Root)
<1> DEFINE d == Deeper(events)
<1>1. /\ DOMAIN events = 1..Len(events) /\ Len(events) \in Nat
      /\ \A i \in DOMAIN events : events[i] \in Root
  OBVIOUS
<1>2. \A i \in DOMAIN events : d[i] \in Root
  <2> SUFFICES ASSUME NEW i \in DOMAIN events PROVE d[i] \in Root
    OBVIOUS
  <2>1. d[i] = [events[i] EXCEPT !.age = Aged(events[i])]
    BY DEF Deeper, Aged
  <2>2. events[i] \in Root /\ events[i].age \in Ages
    BY <1>1 DEF Root
  <2> QED
    BY <2>1, <2>2, AgedIsAge, NewAge
<1>3. d = [i \in 1..Len(events) |-> d[i]]
  BY <1>1 DEF Deeper
<1> HIDE DEF d
<1>4. d \in [1..Len(events) -> Root]
  BY <1>1, <1>2, <1>3
<1> QED
  BY <1>1, <1>4 DEF d

\* Ageing the mined submissions.
LEMMA DeeperSubmissions ==
    ASSUME txs \in Seq(Tx), Confirmations \in Nat
    PROVE  DeeperTxs \in Seq(Tx) /\ DOMAIN DeeperTxs = DOMAIN txs
           /\ \A i \in DOMAIN txs : DeeperTxs[i].id = txs[i].id
<1> DEFINE d == DeeperTxs
<1>1. /\ DOMAIN txs = 1..Len(txs) /\ Len(txs) \in Nat
      /\ \A i \in DOMAIN txs : txs[i] \in Tx
  OBVIOUS
<1>2. \A i \in DOMAIN txs : Deeper(txs)[i] \in Tx /\ Deeper(txs)[i].id = txs[i].id
  <2> SUFFICES ASSUME NEW i \in DOMAIN txs
               PROVE  Deeper(txs)[i] \in Tx /\ Deeper(txs)[i].id = txs[i].id
    OBVIOUS
  <2>1. Deeper(txs)[i] = [txs[i] EXCEPT !.age = Aged(txs[i])]
    BY DEF Deeper, Aged
  <2>2. txs[i] \in Tx /\ txs[i].age \in Ages
    BY <1>1 DEF Tx
  <2> QED
    BY <2>1, <2>2, AgedIsAge, NewAge
<1>3. /\ \A i \in DOMAIN txs : d[i] \in Tx /\ d[i].id = txs[i].id
      /\ d = [i \in 1..Len(txs) |-> d[i]] /\ DOMAIN d = DOMAIN txs
  BY <1>1, <1>2 DEF DeeperTxs
<1> HIDE DEF d
<1>4. d \in [1..Len(txs) -> Tx]
  BY <1>1, <1>3
<1>5. d \in Seq(Tx)
  BY <1>1, <1>4
<1> QED
  BY <1>3, <1>5 DEF d

\* What survives a reorganisation is a part of what was there, and holds
\* every event that is deep enough.
LEMMA SurvivorsArePrefix ==
    ASSUME NEW S, NEW events \in Seq(S), NEW depth \in Nat,
           NEW rest \in Survivors(events, depth)
    PROVE  /\ rest \in Seq(S) /\ DOMAIN rest \subseteq DOMAIN events
           /\ \A i \in DOMAIN rest : rest[i] = events[i]
           /\ \A i \in DOMAIN events :
                events[i].age >= depth => i \in DOMAIN rest
<1>1. PICK n \in 0..Len(events) :
        /\ rest = SubSeq(events, 1, n)
        /\ \A i \in DOMAIN events : i <= n <=> events[i].age >= depth
  BY DEF Survivors
<1>2. /\ rest \in Seq(S) /\ Len(rest) = n
      /\ \A i \in 1..n : rest[i] = events[i]
  BY <1>1
<1>3. DOMAIN rest = 1..n /\ DOMAIN events = 1..Len(events)
  BY <1>2
<1> QED
  BY <1>1, <1>2, <1>3

\* Everything that can happen to the chain in one step.
ChainStep ==
    \/ Attest \/ Freeze \/ EmptyBlock \/ DropPool \/ Refuse \/ Accept
    \/ \E id \in Keys : OtherLands(id)
    \/ \E i \in DOMAIN txs : Include(i)
    \/ \E d \in 1..ReorgDepth : Reorg(d)
    \/ \E id \in Keys, b \in Int : Broadcast(id, b)
    \/ UNCHANGED chainVars

\* A checkpoint too deep to be reorganised away.
Solid(k, b) ==
    k \in DOMAIN frozen /\ frozen[k].block = b /\ frozen[k].age >= Confirmations

\* The fields of events.
LEMMA Fields ==
    ASSUME Confirmations \in Nat
    PROVE  /\ \A e \in Checkpoint : e.age \in Int /\ e.block \in Nat
           /\ \A e \in Tx : /\ e.age \in Int /\ e.block \in Nat /\ e.id \in Nat
                             /\ e.state \in TxStates
  BY DEF Checkpoint, Tx, Ages

\* Landing a submission or sending it back keeps it one.
LEMMA TxKept ==
    ASSUME NEW t \in Tx, NEW s \in TxStates, NEW b \in Nat, Confirmations \in Nat
    PROVE  /\ [t EXCEPT !.state = s, !.age = 0, !.block = b] \in Tx
           /\ [t EXCEPT !.state = s, !.age = 0, !.block = b].id = t.id
<1>1. 0 \in Ages
  BY DEF Ages
<1> QED
  BY <1>1 DEF Tx

\* Losing a submission keeps it one.
LEMMA TxDropped ==
    ASSUME NEW t \in Tx
    PROVE  /\ [t EXCEPT !.state = "dropped"] \in Tx
           /\ [t EXCEPT !.state = "dropped"].id = t.id
  BY DEF Tx, TxStates

\* The submissions after a step are the ones before it, and perhaps a new one.
TxsGrow ==
    /\ DOMAIN txs \subseteq DOMAIN txs'
    /\ \A i \in DOMAIN txs : txs'[i].id = txs[i].id

\* A pointwise change of the submissions.
LEMMA TxsMapped ==
    ASSUME txs \in Seq(Tx), DOMAIN txs' = DOMAIN txs,
           txs' = [i \in DOMAIN txs |-> txs'[i]],
           \A i \in DOMAIN txs : txs'[i] \in Tx /\ txs'[i].id = txs[i].id
    PROVE  txs' \in Seq(Tx) /\ TxsGrow
<1>1. DOMAIN txs = 1..Len(txs) /\ Len(txs) \in Nat
  OBVIOUS
<1>2. txs' \in [1..Len(txs) -> Tx]
  BY <1>1
<1> QED
  BY <1>1, <1>2 DEF TxsGrow

\* A step of the chain keeps its shape, every solid checkpoint and every
\* submission.
LEMMA ChainSteps ==
    ASSUME ChainTypeOK, ChainStep
    PROVE  /\ ChainTypeOK' /\ TxsGrow
           /\ \A k, b : Solid(k, b) => Solid(k, b)'
<1> USE ChainAssumption
<1> DEFINE Kept == \A k, b : Solid(k, b) => Solid(k, b)'
<1>t. /\ frozen \in Seq(Checkpoint) /\ roots \in Seq(Root) /\ txs \in Seq(Tx)
      /\ live \in 0..MaxInputs /\ blocks \in Nat /\ accepting \in BOOLEAN
  BY DEF ChainTypeOK
<1>e. /\ \A i \in DOMAIN frozen : frozen[i] \in Checkpoint
      /\ \A i \in DOMAIN txs : txs[i] \in Tx
  BY <1>t
<1>f. ASSUME frozen' = Deeper(frozen) PROVE frozen' \in Seq(Checkpoint) /\ Kept
  <2>1. /\ frozen' \in Seq(Checkpoint) /\ DOMAIN frozen' = DOMAIN frozen
        /\ \A i \in DOMAIN frozen : /\ frozen'[i].age >= frozen[i].age
                                    /\ frozen'[i].block = frozen[i].block
    BY <1>f, <1>t, DeeperCheckpoints
  <2>2. \A i \in DOMAIN frozen : frozen'[i] \in Checkpoint
    BY <2>1
  <2>3. \A i \in DOMAIN frozen : frozen[i].age \in Int /\ frozen'[i].age \in Int
    BY <1>e, <2>2, Fields
  <2> QED
    BY <2>1, <2>3 DEF Solid
<1>r. Deeper(roots) \in Seq(Root)
  BY <1>t, DeeperRoots
<1>x. ASSUME txs' = DeeperTxs PROVE txs' \in Seq(Tx) /\ TxsGrow
  BY <1>x, <1>t, DeeperSubmissions DEF TxsGrow
<1>s. ASSUME UNCHANGED txs PROVE txs' \in Seq(Tx) /\ TxsGrow
  BY <1>s, <1>t DEF TxsGrow
<1>k. ASSUME UNCHANGED frozen PROVE frozen' \in Seq(Checkpoint) /\ Kept
  BY <1>k, <1>t DEF Solid
<1>1. CASE Attest
  BY <1>1, <1>t, <1>s, <1>k DEF Attest, ChainTypeOK
<1>2. CASE Freeze
  <2> DEFINE c == [inputs |-> live, age |-> 0, block |-> blocks']
  <2>1. /\ frozen' = Append(Deeper(frozen), c) /\ blocks' = blocks + 1
        /\ roots' = Deeper(roots) /\ txs' = DeeperTxs
        /\ UNCHANGED <<live, accepting>>
    BY <1>2 DEF Freeze
  <2>2. c \in Checkpoint
    BY <1>t, <2>1 DEF Checkpoint, Ages
  <2> HIDE DEF c
  <2>3. /\ Deeper(frozen) \in Seq(Checkpoint)
        /\ DOMAIN Deeper(frozen) = DOMAIN frozen
        /\ \A i \in DOMAIN frozen :
             /\ Deeper(frozen)[i].age >= frozen[i].age
             /\ Deeper(frozen)[i].block = frozen[i].block
    BY <1>t, DeeperCheckpoints
  <2>4. /\ frozen' \in Seq(Checkpoint) /\ DOMAIN frozen \subseteq DOMAIN frozen'
        /\ \A i \in DOMAIN frozen : frozen'[i] = Deeper(frozen)[i]
    BY <2>1, <2>2, <2>3
  <2>5. \A i \in DOMAIN frozen : frozen[i].age \in Int /\ frozen'[i].age \in Int
    <3>1. \A i \in DOMAIN frozen : frozen'[i] \in Checkpoint
      BY <2>4
    <3> QED
      BY <1>e, <3>1, Fields
  <2>6. Kept
    BY <2>3, <2>4, <2>5 DEF Solid
  <2>7. blocks' \in Nat
    BY <1>t, <2>1
  <2> QED
    BY <1>t, <1>r, <1>x, <2>1, <2>4, <2>6, <2>7 DEF ChainTypeOK
<1>3. CASE EmptyBlock
  BY <1>3, <1>t, <1>f, <1>r, <1>x DEF EmptyBlock, ChainTypeOK
<1>4. CASE DropPool
  <2>1. \A i \in DOMAIN txs : txs'[i] \in Tx /\ txs'[i].id = txs[i].id
    <3> SUFFICES ASSUME NEW i \in DOMAIN txs
                 PROVE  txs'[i] \in Tx /\ txs'[i].id = txs[i].id
      OBVIOUS
    <3>1. txs'[i] = txs[i] \/ txs'[i] = [txs[i] EXCEPT !.state = "dropped"]
      BY <1>4 DEF DropPool
    <3> QED
      BY <1>e, <3>1, TxDropped
  <2>2. txs' = [i \in DOMAIN txs |-> txs'[i]] /\ DOMAIN txs' = DOMAIN txs
    BY <1>4 DEF DropPool
  <2> QED
    BY <1>4, <1>t, <1>k, <2>1, <2>2, TxsMapped DEF DropPool, ChainTypeOK
<1>5. CASE Refuse \/ Accept
  BY <1>5, <1>t, <1>s, <1>k DEF Refuse, Accept, ChainTypeOK
<1>6. CASE \E id \in Keys : OtherLands(id)
  <2>1. PICK id \in Keys : OtherLands(id)
    BY <1>6
  <2>2. [id |-> id, age |-> 0] \in Root
    BY OperatorAssumption DEF Root, Ages
  <2>3. roots' \in Seq(Root)
    BY <1>r, <2>1, <2>2 DEF OtherLands
  <2> QED
    BY <1>t, <1>f, <1>x, <2>1, <2>3 DEF OtherLands, ChainTypeOK
<1>7. CASE \E i \in DOMAIN txs : Include(i)
  <2>1. PICK i \in DOMAIN txs : Include(i)
    BY <1>7
  <2> DEFINE ok == Accepts(txs[i].id, txs[i].proof)
             s == IF ok THEN "landed" ELSE "reverted"
             new == [id |-> txs[i].id, age |-> 0]
  <2>2. txs[i] \in Tx /\ txs[i].id \in Nat
    BY <1>e, Fields
  <2>3. new \in Root
    BY <2>2 DEF Root, Ages
  <2>4. roots' = Append(Deeper(roots), new) \/ roots' = Deeper(roots)
    BY <2>1 DEF Include
  <2> HIDE DEF new
  <2>5. roots' \in Seq(Root)
    BY <1>r, <2>3, <2>4
  <2>6. blocks' \in Nat
    BY <1>t, <2>1 DEF Include
  <2>7. /\ DeeperTxs \in Seq(Tx) /\ DOMAIN DeeperTxs = DOMAIN txs
        /\ \A j \in DOMAIN txs : DeeperTxs[j] \in Tx /\ DeeperTxs[j].id = txs[j].id
    BY <1>t, DeeperSubmissions
  <2>8. s \in TxStates
    BY DEF TxStates
  <2>9. txs' = [DeeperTxs EXCEPT ![i] =
                  [@ EXCEPT !.state = s, !.age = 0, !.block = blocks']]
    BY <2>1 DEF Include
  <2> HIDE DEF s
  <2>10. \A j \in DOMAIN txs : txs'[j] \in Tx /\ txs'[j].id = txs[j].id
    <3>1. /\ txs'[i] = [DeeperTxs[i] EXCEPT !.state = s, !.age = 0,
                                            !.block = blocks']
          /\ \A j \in DOMAIN txs : j # i => txs'[j] = DeeperTxs[j]
      BY <2>7, <2>9
    <3> DEFINE t == DeeperTxs[i]
    <3>2. t \in Tx
      BY <2>7
    <3> HIDE DEF t
    <3>3. /\ [t EXCEPT !.state = s, !.age = 0, !.block = blocks'] \in Tx
          /\ [t EXCEPT !.state = s, !.age = 0, !.block = blocks'].id = t.id
      BY <2>6, <2>8, <3>2, TxKept
    <3>4. txs'[i] \in Tx /\ txs'[i].id = DeeperTxs[i].id
      BY <3>1, <3>3 DEF t
    <3> QED
      BY <2>7, <3>1, <3>4
  <2>11. txs' = [j \in DOMAIN txs |-> txs'[j]] /\ DOMAIN txs' = DOMAIN txs
    BY <2>7, <2>9
  <2>12. txs' \in Seq(Tx) /\ TxsGrow
    BY <1>t, <2>10, <2>11, TxsMapped
  <2>13. frozen' = Deeper(frozen) /\ UNCHANGED <<live, accepting>>
    BY <2>1 DEF Include
  <2> QED
    BY <1>t, <1>f, <2>5, <2>6, <2>12, <2>13 DEF ChainTypeOK
<1>8. CASE \E d \in 1..ReorgDepth : Reorg(d)
  <2>1. PICK d \in 1..ReorgDepth : Reorg(d)
    BY <1>8
  <2>2. d \in Nat /\ d <= Confirmations
    BY <2>1
  <2>3. /\ frozen' \in Survivors(frozen, d) /\ roots' \in Survivors(roots, d)
        /\ UNCHANGED <<live, accepting, blocks>>
    BY <2>1 DEF Reorg
  <2>4. /\ frozen' \in Seq(Checkpoint)
        /\ \A i \in DOMAIN frozen' : frozen'[i] = frozen[i]
        /\ \A i \in DOMAIN frozen : frozen[i].age >= d => i \in DOMAIN frozen'
    BY <1>t, <2>2, <2>3, SurvivorsArePrefix
  <2>5. roots' \in Seq(Root)
    BY <1>t, <2>2, <2>3, SurvivorsArePrefix
  <2>6. \A i \in DOMAIN frozen : frozen[i].age \in Int
    BY <1>e, Fields
  <2>7. Kept
    BY <2>2, <2>4, <2>6 DEF Solid
  <2>8. \A i \in DOMAIN txs : txs'[i] \in Tx /\ txs'[i].id = txs[i].id
    <3> SUFFICES ASSUME NEW i \in DOMAIN txs
                 PROVE  txs'[i] \in Tx /\ txs'[i].id = txs[i].id
      OBVIOUS
    <3>1. \/ txs'[i] = txs[i]
          \/ txs'[i] = [txs[i] EXCEPT !.state = "pool", !.age = 0, !.block = 0]
      BY <2>1 DEF Reorg
    <3> DEFINE t == txs[i]
    <3>2. t \in Tx /\ "pool" \in TxStates
      BY <1>e DEF TxStates
    <3> HIDE DEF t
    <3>3. /\ [t EXCEPT !.state = "pool", !.age = 0, !.block = 0] \in Tx
          /\ [t EXCEPT !.state = "pool", !.age = 0, !.block = 0].id = t.id
      BY <3>2, TxKept
    <3> QED
      BY <3>1, <3>2, <3>3 DEF t
  <2>9. txs' = [i \in DOMAIN txs |-> txs'[i]] /\ DOMAIN txs' = DOMAIN txs
    BY <2>1 DEF Reorg
  <2>10. txs' \in Seq(Tx) /\ TxsGrow
    BY <1>t, <2>8, <2>9, TxsMapped
  <2> QED
    BY <1>t, <2>3, <2>4, <2>5, <2>7, <2>10 DEF ChainTypeOK
<1>9. CASE \E id \in Keys, b \in Int : Broadcast(id, b)
  <2>1. PICK id \in Keys, b \in Int : Broadcast(id, b)
    BY <1>9
  <2> DEFINE new == [id |-> id, proof |-> b, state |-> "pool", age |-> 0,
                     block |-> 0]
  <2>2. txs' = Append(txs, new) /\ UNCHANGED <<live, frozen, roots, accepting, blocks>>
    BY <2>1 DEF Broadcast
  <2>3. new \in Tx
    BY OperatorAssumption DEF Tx, TxStates, Ages
  <2> HIDE DEF new
  <2>4. txs' \in Seq(Tx) /\ TxsGrow
    BY <1>t, <2>2, <2>3 DEF TxsGrow
  <2> QED
    BY <1>t, <1>k, <2>2, <2>4 DEF ChainTypeOK
<1>10. CASE UNCHANGED chainVars
  BY <1>10, <1>t, <1>s, <1>k DEF chainVars, ChainTypeOK
<1> QED
  BY <1>1, <1>2, <1>3, <1>4, <1>5, <1>6, <1>7, <1>8, <1>9, <1>10 DEF ChainStep

(***************************************************************************)
(* The journal.                                                            *)
(***************************************************************************)
\* Everything that can happen to the journal in one step.  A request is
\* cleared only while the process is down, and only if it was never made.
Cleared(r) == r.type = "ResolvedNone" => pc = "down" /\ bought[r.key] = 0
JournalStep ==
    \/ \E r \in Record : /\ Cleared(r)
                         /\ AppendRecord(r) \/ AppendFails(r) \/ AppendCrashes(r)
    \/ Open \/ RemoveTornLine \/ WindowMoves \/ UNCHANGED journalVars

\* What the journal keeps in every step.
JournalGrows ==
    /\ Known \subseteq Known' /\ DOMAIN file \subseteq DOMAIN file'
    /\ \A i \in DOMAIN file : file'[i] = file[i]
    /\ \A i \in DOMAIN file' \ DOMAIN file : Cleared(file'[i])

\* A step of the journal only adds lines.
LEMMA JournalSteps ==
    ASSUME JournalTypeOK, JournalStep
    PROVE  JournalTypeOK' /\ JournalGrows
<1>t. /\ file \in Seq(Record) /\ missed \subseteq DOMAIN file /\ torn \in BOOLEAN
      /\ aged \in Nat /\ DOMAIN file = 1..Len(file) /\ Len(file) \in Nat
  BY DEF JournalTypeOK
<1>s. ASSUME UNCHANGED file, missed' \subseteq missed, torn' \in BOOLEAN,
             aged' \in Nat
      PROVE  JournalTypeOK' /\ JournalGrows
  <2>1. DOMAIN file' = DOMAIN file /\ file' \in Seq(Record)
    BY <1>s, <1>t
  <2>2. Known \subseteq Known'
    BY <1>s, <2>1 DEF Known
  <2> QED
    BY <1>s, <1>t, <2>1, <2>2 DEF JournalTypeOK, JournalGrows
<1>a. ASSUME NEW r \in Record, Cleared(r), file' = Append(file, r),
             missed' \in {missed, missed \cup {Len(file) + 1}},
             UNCHANGED <<torn, aged>>
      PROVE  JournalTypeOK' /\ JournalGrows
  <2>1. /\ file' \in Seq(Record) /\ DOMAIN file' = 1..(Len(file) + 1)
        /\ \A i \in DOMAIN file : file'[i] = file[i]
        /\ file'[Len(file) + 1] = r
    BY <1>a, <1>t
  <2>2. \A i \in DOMAIN file' \ DOMAIN file : i = Len(file) + 1
    BY <2>1, <1>t
  <2>3. missed' \subseteq DOMAIN file'
    BY <1>a, <1>t, <2>1
  <2>4. Known \subseteq Known'
    BY <1>a, <1>t, <2>1 DEF Known
  <2> QED
    BY <1>a, <1>t, <2>1, <2>2, <2>3, <2>4 DEF JournalTypeOK, JournalGrows
<1>1. CASE \E r \in Record : /\ Cleared(r)
                             /\ AppendRecord(r) \/ AppendFails(r) \/ AppendCrashes(r)
  <2>1. PICK r \in Record : /\ Cleared(r)
                            /\ AppendRecord(r) \/ AppendFails(r) \/ AppendCrashes(r)
    BY <1>1
  <2>2. CASE AppendRecord(r)
    BY <2>1, <2>2, <1>a DEF AppendRecord
  <2>3. CASE AppendFails(r)
    BY <2>1, <2>3, <1>a, <1>s, <1>t DEF AppendFails
  <2>4. CASE AppendCrashes(r)
    BY <2>1, <2>4, <1>a, <1>s, <1>t DEF AppendCrashes
  <2> QED
    BY <2>1, <2>2, <2>3, <2>4
<1>2. CASE Open \/ RemoveTornLine \/ WindowMoves \/ UNCHANGED journalVars
  <2>1. /\ UNCHANGED file /\ missed' \subseteq missed
        /\ torn' \in {FALSE, torn} /\ aged' \in {aged, aged + 1}
    BY <1>2 DEF Open, RemoveTornLine, WindowMoves, journalVars
  <2>2. torn' \in BOOLEAN
    BY <1>t, <2>1
  <2>3. aged' \in Nat
    BY <1>t, <2>1
  <2> QED
    BY <1>s, <2>1, <2>2, <2>3
<1> QED
  BY <1>1, <1>2 DEF JournalStep

\* The line that shows a purchase: an intent that nobody cleared.
Certified(k) ==
    \E i \in Of(k, {"Intent"}, Known) :
        \A j \in DOMAIN file :
            j > i /\ file[j].key = k => file[j].type # "ResolvedNone"

\* A certified checkpoint stays so, unless it is cleared.
LEMMA CertifiedStays ==
    ASSUME JournalTypeOK, JournalGrows, NEW k, Certified(k),
           pc # "down" \/ bought[k] # 0
    PROVE  Certified(k)'
<1>1. PICK i \in Of(k, {"Intent"}, Known) :
        \A j \in DOMAIN file :
            j > i /\ file[j].key = k => file[j].type # "ResolvedNone"
  BY DEF Certified
<1>2. i \in Of(k, {"Intent"}, Known)'
  BY <1>1 DEF Of, JournalGrows, Known
<1>3. \A j \in DOMAIN file' :
        j > i /\ file'[j].key = k => file'[j].type # "ResolvedNone"
  BY <1>1 DEF JournalGrows, Cleared
<1> QED
  BY <1>2, <1>3 DEF Certified

\* The journal of a certified checkpoint refuses a second request, even if an
\* abandonment keeps the intent from deciding.
LEMMA CertifiedRefuses ==
    ASSUME JournalTypeOK, NEW k, Certified(k)
    PROVE  ~MayRequest(k, Known)
<1> SUFFICES ASSUME MayRequest(k, Known) PROVE FALSE
  OBVIOUS
<1> DEFINE D == Deciding(k, Known)
<1>1. PICK i \in Of(k, {"Intent"}, Known) :
        \A j \in DOMAIN file :
            j > i /\ file[j].key = k => file[j].type # "ResolvedNone"
  BY DEF Certified
<1>t. /\ DOMAIN file \subseteq Nat /\ Known \subseteq DOMAIN file
      /\ i \in Known /\ file[i].key = k /\ file[i].type = "Intent"
  BY <1>1 DEF JournalTypeOK, Known, Of
<1>2. \A j \in D : file[j].key = k /\ j \in Known
  BY DEF Deciding, Of
<1>3. CASE i \in D
  BY <1>1, <1>2, <1>3, <1>t DEF MayRequest
<1>4. CASE i \notin D
  <2>1. AbandonedBefore(k, Known, i)
    BY <1>4, <1>t DEF Deciding, Of
  <2>2. PICK a \in Of(k, {"Abandoned"}, Known) :
          /\ a < i
          /\ ~\E m \in Of(k, Settlements, Known) : a < m /\ m < i
    BY <2>1 DEF AbandonedBefore
  <2>3. a \in D /\ file[a].type = "Abandoned" /\ a \in Nat
    BY <2>2, <1>t DEF Deciding, Of
  <2>4. PICK j \in D : j > a /\ file[j].type = "ResolvedNone"
    BY <2>3 DEF MayRequest
  <2>5. j \in Nat /\ i \in Nat /\ j # i /\ ~(j > i)
    BY <1>1, <1>2, <1>t, <2>4
  <2>6. ~AbandonedBefore(k, Known, j)
    BY <2>4 DEF Deciding, Of, Settlements
  <2>7. \A m \in Of(k, Settlements, Known) : m \in Nat
    BY <1>t DEF Of
  <2> QED
    BY <2>2, <2>3, <2>4, <2>5, <2>6, <2>7 DEF AbandonedBefore
<1> QED
  BY <1>3, <1>4

(***************************************************************************)
(* What a step of the operator does to the chain and to the journal.       *)
(***************************************************************************)
\* While the process works, it works on a checkpoint; it watches something it
\* sent, and never appends a resolution.
Busy ==
    /\ pc \notin {"down", "idle", "planning"} => work \in Keys
    /\ pc = "watching" => Len(txs) > 0
    /\ pc = "append" => writing.type # "ResolvedNone"

\* A line about a checkpoint is a line of the journal.
LEMMA LinesAreRecords ==
    \A k \in Keys, t \in Types :
        /\ Line(t, k) \in Record
        /\ Line(t, k).type = t
        /\ \A tx, b \in Nat : /\ TxLine(t, k, tx, b) \in Record
                              /\ TxLine(t, k, tx, b).type = t
                              /\ TxLine(t, k, tx, b).key = k
                              /\ TxLine(t, k, tx, b).block = b
  BY DEF Line, TxLine, Record

\* Every step moves the chain and the journal in one of their own ways.
LEMMA StepParts ==
    ASSUME OperatorTypeOK, Busy, Next
    PROVE  ChainStep /\ JournalStep
<1>a. ASSUME pc = "append" PROVE writing \in Record /\ Cleared(writing)
  BY <1>a DEF OperatorTypeOK, Busy, Cleared
<1>1. CASE StartTick \/ Judge \/ Wait \/ Request \/ ProofArrives \/ SaveHeld
           \/ PublishFails \/ SendReverts \/ Receipt
           \/ NoReceipt \/ PublishSucceeds \/ CallFails \/ SaveFails
           \/ StopToResolve
  <2>1. UNCHANGED chainVars /\ UNCHANGED journalVars
    BY <1>1 DEF StartTick, Judge, Wait, Request, ProofArrives, SaveHeld,
      PublishFails, SendReverts, Receipt, NoReceipt,
      PublishSucceeds, CallFails, SaveFails, StopToResolve
  <2> QED
    BY <2>1 DEF ChainStep, JournalStep
<1>2. CASE Plan
  <2>1. UNCHANGED chainVars /\ UNCHANGED journalVars
    BY <1>2 DEF Plan, PlanPublish, PlanSubmit, PlanProve
  <2> QED
    BY <2>1 DEF ChainStep, JournalStep
<1>3. CASE Send
  <2>1. /\ Broadcast(work, held[work]) /\ UNCHANGED journalVars
        /\ work \in Keys /\ held[work] \in Int
    BY <1>3 DEF Send, Busy, OperatorTypeOK
  <2> QED
    BY <2>1 DEF ChainStep, JournalStep
<1>4. CASE AppendDone
  <2>1. pc = "append" /\ AppendRecord(writing) /\ UNCHANGED chainVars
    BY <1>4 DEF AppendDone
  <2> QED
    BY <1>a, <2>1 DEF ChainStep, JournalStep
<1>5. CASE PlanTrigger
  <2>1. Freeze /\ UNCHANGED journalVars
    BY <1>5 DEF PlanTrigger
  <2> QED
    BY <2>1 DEF ChainStep, JournalStep
<1>6. CASE WriteFails
  <2>1. pc = "append" /\ AppendFails(writing) /\ UNCHANGED chainVars
    BY <1>6 DEF WriteFails
  <2> QED
    BY <1>a, <2>1 DEF ChainStep, JournalStep
<1>7. CASE Crash
  <2>1. /\ UNCHANGED chainVars
        /\ UNCHANGED journalVars \/ (pc = "append" /\ AppendCrashes(writing))
    BY <1>7 DEF Crash
  <2> QED
    BY <1>a, <2>1 DEF ChainStep, JournalStep
<1>8. CASE Start \/ Repair \/ TimePasses
  <2>1. UNCHANGED chainVars /\ (Open \/ RemoveTornLine \/ WindowMoves)
    BY <1>8 DEF Start, Repair, TimePasses
  <2> QED
    BY <2>1 DEF ChainStep, JournalStep
<1>9. CASE \E k \in Keys : Resolve(k)
  <2>1. PICK k \in Keys : Resolve(k)
    BY <1>9
  <2> DEFINE r == Line(IF bought[k] > 0 THEN "ResolvedSome" ELSE "ResolvedNone", k)
  <2>2. pc = "down" /\ AppendRecord(r) /\ UNCHANGED chainVars
    BY <2>1 DEF Resolve
  <2>3. r \in Record /\ Cleared(r)
    BY <2>2 DEF Line, Record, Types, Cleared, OperatorTypeOK
  <2> HIDE DEF r
  <2> QED
    BY <2>2, <2>3 DEF ChainStep, JournalStep
<1>10. CASE BlockBuilt \/ TxMined \/ Others \/ ChainUpset
  <2>1. UNCHANGED journalVars
    BY <1>10 DEF BlockBuilt, TxMined, Others, ChainUpset, Off
  <2>2. ChainStep
    BY <1>10 DEF BlockBuilt, TxMined, Others, ChainUpset, ChainStep
  <2> QED
    BY <2>1, <2>2 DEF JournalStep
<1> QED
  BY <1>1, <1>2, <1>3, <1>4, <1>5, <1>6, <1>7, <1>8, <1>9, <1>10
    DEF Next, Working

(***************************************************************************)
(* Types.                                                                  *)
(***************************************************************************)
\* The types of the process, of its proofs and of what is only counted.
ProcessTypeOK ==
    /\ pc \in Phases /\ work \in Keys \cup {0}
    /\ writing \in Record \cup {NoLine}
    /\ pc = "append" => work \in Keys /\ writing \in Record
    /\ pending \in [Keys -> [tx : Nat, block : Nat]] /\ resolved \subseteq Keys
    /\ held \in [Keys -> Int] /\ bought \in [Keys -> Nat]
    /\ faults \in 0..MaxFaults /\ upsets \in 0..MaxUpsets

\* A fault or an upset is counted.
LEMMA CountsStep ==
    ASSUME ProcessTypeOK, Next
    PROVE  faults' \in 0..MaxFaults /\ upsets' \in 0..MaxUpsets
<1>1. \/ UNCHANGED faultVars \/ Fault
      \/ upsets < MaxUpsets /\ upsets' = upsets + 1 /\ UNCHANGED faults
  BY DEF Next, Working, Plan, StartTick, Judge, Wait, Request, ProofArrives,
    SaveHeld, PublishFails, Send, SendReverts, Receipt,
    NoReceipt, AppendDone, PlanPublish, PlanSubmit, PlanProve, PlanTrigger,
    PublishSucceeds, CallFails, WriteFails, SaveFails, Crash, Start,
    StopToResolve, Repair, Resolve, BlockBuilt, TxMined, Others, ChainUpset,
    TimePasses
<1> QED
  BY <1>1, OperatorAssumption DEF ProcessTypeOK, Fault, faultVars

\* The process returns to idle with nothing in hand.
LEMMA IdleTypes ==
    ASSUME ProcessTypeOK, Idle, UNCHANGED <<pending, bought>>, Next,
           held' \in [Keys -> Int]
    PROVE  ProcessTypeOK' /\ Busy'
  BY CountsStep DEF ProcessTypeOK, Busy, Idle, Phases

\* The process sets out to append a line.
LEMMA WriteTypes ==
    ASSUME ProcessTypeOK, Next, NEW r \in Record, r.type # "ResolvedNone",
           WriteLine(r), work' \in Keys,
           UNCHANGED <<pending, resolved, held, bought>>
    PROVE  ProcessTypeOK' /\ Busy'
  BY CountsStep DEF ProcessTypeOK, Busy, WriteLine, Phases

\* The process goes on to another call.
LEMMA CallTypes ==
    ASSUME ProcessTypeOK, Next, pc' \in Phases \ {"append"}, work' \in Keys,
           pc' = "watching" => (Len(txs) > 0)',
           UNCHANGED <<writing, pending, resolved>>,
           held' \in [Keys -> Int], bought' \in [Keys -> Nat]
    PROVE  ProcessTypeOK' /\ Busy'
  BY CountsStep DEF ProcessTypeOK, Busy

\* The settle pass goes on to the next submission, or ends.
LEMMA JudgedTypes ==
    ASSUME ProcessTypeOK, Next, NEW k \in Keys, NEW done \in SUBSET Keys,
           Judged(k, done), writing' \in {writing, NoLine},
           UNCHANGED <<held, bought>>
    PROVE  ProcessTypeOK' /\ Busy'
<1>1. /\ pc' \in {"settling", "planning"} /\ resolved' \subseteq Keys
      /\ pc' = "settling" => work' \in Keys
      /\ work' \in Keys \cup {0}
  BY DEF Judged
<1>2. pending' \in [Keys -> [tx : Nat, block : Nat]]
  BY DEF Judged, ProcessTypeOK, NoWatch
<1>3. writing' \in Record \cup {NoLine}
  BY DEF ProcessTypeOK
<1> QED
  BY <1>1, <1>2, <1>3, CountsStep DEF ProcessTypeOK, Busy, Phases

\* The steps of the process keep its types.
LEMMA ProcessTypesStep ==
    ASSUME OperatorTypeOK, Busy, Next
    PROVE  ProcessTypeOK' /\ Busy'
<1>p. ProcessTypeOK
  BY DEF OperatorTypeOK, ProcessTypeOK
<1>t. /\ pc \in Phases /\ held \in [Keys -> Int] /\ bought \in [Keys -> Nat]
      /\ pending \in [Keys -> [tx : Nat, block : Nat]] /\ resolved \subseteq Keys
  BY <1>p DEF ProcessTypeOK
<1>g. ChainTypeOK' /\ TxsGrow
  BY StepParts, ChainSteps DEF OperatorTypeOK
<1>w. Len(txs) > 0 => (Len(txs) > 0)'
  <2>1. txs \in Seq(Tx) /\ txs' \in Seq(Tx) /\ DOMAIN txs \subseteq DOMAIN txs'
    BY <1>g DEF OperatorTypeOK, ChainTypeOK, TxsGrow
  <2> QED
    BY <2>1
<1>b. ASSUME pc \notin {"down", "idle", "planning"} PROVE work \in Keys
  BY <1>b DEF Busy
<1>i. ASSUME Idle, UNCHANGED <<pending, held, bought>>
      PROVE  ProcessTypeOK' /\ Busy'
  BY <1>i, <1>p, <1>t, IdleTypes
<1>l. ASSUME NEW t \in Types \ {"ResolvedNone"}, NEW r, WriteLine(r),
             \/ r = Line(t, work')
             \/ \E x, b \in Nat : r = TxLine(t, work', x, b),
             work' \in Keys, UNCHANGED <<pending, resolved, held, bought>>
      PROVE  ProcessTypeOK' /\ Busy'
  <2>1. r \in Record /\ r.type = t
    BY <1>l, LinesAreRecords
  <2> QED
    BY <1>l, <1>p, <2>1, WriteTypes
<1>d. ASSUME Lost, UNCHANGED bought, held' \in [Keys -> Int]
      PROVE  ProcessTypeOK' /\ Busy'
  BY <1>d, <1>p, CountsStep DEF Lost, ProcessTypeOK, Busy, Phases, NoWatch
<1>o. ASSUME UNCHANGED <<processVars, held, bought>>
      PROVE  ProcessTypeOK' /\ Busy'
  BY <1>o, <1>p, <1>w, CountsStep DEF processVars, ProcessTypeOK, Busy
<1>1. CASE StartTick
  <2>1. /\ pc' = "settling" /\ work' \in Keys
        /\ UNCHANGED <<writing, pending, resolved, held, bought>>
    BY <1>1 DEF StartTick
  <2> QED
    BY <1>p, <1>t, <2>1, CallTypes DEF Phases
<1>2. CASE Judge
  <2> DEFINE w == pending[work]
  <2>1. pc = "settling" /\ work \in Keys /\ UNCHANGED <<held, bought>>
    BY <1>2, <1>b DEF Judge
  <2>2. w.tx \in Nat /\ w.block \in Nat
    BY <1>t, <2>1
  <2>3. CASE /\ WriteLine(Line("Landed", work))
             /\ UNCHANGED <<work, pending, resolved>>
    BY <2>1, <2>3, <1>l DEF Types
  <2>4. CASE /\ WriteLine(TxLine("SubmitReorged", work, w.tx, w.block))
             /\ UNCHANGED <<work, pending, resolved>>
    BY <2>1, <2>2, <2>4, <1>l DEF Types
  <2>5. CASE Judged(work, resolved) /\ UNCHANGED writing
    BY <1>p, <1>t, <2>1, <2>5, JudgedTypes
  <2> QED
    BY <1>2, <2>3, <2>4, <2>5 DEF Judge
<1>3. CASE Wait \/ PublishFails \/ NoReceipt \/ CallFails \/ WriteFails
  BY <1>3, <1>i DEF Wait, PublishFails, NoReceipt, CallFails, WriteFails
<1>4. CASE Request
  <2>1. /\ pc = "requesting" /\ pc' = "awaiting"
        /\ bought' = [bought EXCEPT ![work] = @ + 1]
        /\ UNCHANGED <<work, writing, pending, resolved, held>>
    BY <1>4 DEF Request, Goto
  <2>2. bought' \in [Keys -> Nat] /\ work \in Keys
    BY <1>t, <1>b, <2>1
  <2> QED
    BY <1>p, <1>t, <2>1, <2>2, CallTypes DEF Phases
<1>5. CASE ProofArrives
  <2>1. /\ pc = "awaiting" /\ WriteLine(TxLine("Requested", work, 0, writing.block))
        /\ UNCHANGED <<work, pending, resolved, held, bought>>
    BY <1>5 DEF ProofArrives
  <2>2. writing.block \in Nat
    BY <1>p DEF ProcessTypeOK, Record, NoLine
  <2> QED
    BY <1>b, <1>l, <2>1, <2>2 DEF Types
<1>6. CASE SaveHeld
  <2>1. /\ pc = "saving" /\ pc' = "publishing"
        /\ held' = [held EXCEPT ![work] = writing.block]
        /\ UNCHANGED <<work, writing, pending, resolved, bought>>
    BY <1>6 DEF SaveHeld, Goto
  <2>2. writing.block \in Nat
    BY <1>p DEF ProcessTypeOK, Record, NoLine
  <2>3. held' \in [Keys -> Int] /\ work \in Keys
    BY <1>t, <1>b, <2>1, <2>2
  <2> QED
    BY <1>p, <1>t, <2>1, <2>3, CallTypes DEF Phases
<1>7. CASE Send
  <2>1. /\ pc = "sending" /\ pc' = "watching"
        /\ Broadcast(work, held[work])
        /\ UNCHANGED <<work, writing, pending, resolved, held, bought>>
    BY <1>7 DEF Send, Goto
  <2>2. (Len(txs) > 0)'
    BY <2>1, <1>g DEF Broadcast, ChainTypeOK, OperatorTypeOK
  <2>3. work' \in Keys
    BY <1>b, <2>1
  <2> QED
    BY <1>p, <1>t, <2>1, <2>2, <2>3, CallTypes DEF Phases
<1>8. CASE SendReverts \/ PublishSucceeds
  <2>1. \E t \in {"SubmitFailure", "Published"} :
          WriteLine(Line(t, work))
    BY <1>8 DEF SendReverts, PublishSucceeds
  <2>2. work' = work /\ work \in Keys /\ UNCHANGED <<pending, resolved, held, bought>>
    BY <1>8, <1>b DEF SendReverts, PublishSucceeds
  <2> QED
    BY <2>1, <2>2, <1>l DEF Types
<1>9. CASE Receipt
  <2>1. pc = "watching" /\ work \in Keys /\ UNCHANGED <<work, pending, resolved, held, bought>>
    BY <1>9, <1>b DEF Receipt
  <2>2. Len(txs) \in Nat /\ txs[Sent] \in Tx
    BY <2>1 DEF Busy, OperatorTypeOK, ChainTypeOK, Sent
  <2>3. Sent \in Nat /\ txs[Sent].block \in Nat
    BY <2>2, Fields, ChainAssumption DEF Sent
  <2>4. \/ WriteLine(TxLine("SubmitPending", work, Sent, txs[Sent].block))
        \/ WriteLine(Line("SubmitGas", work))
    BY <1>9 DEF Receipt
  <2> QED
    BY <2>1, <2>3, <2>4, <1>l DEF Types
<1>10. CASE AppendDone
  <2>1. /\ pc = "append" /\ work \in Keys /\ writing \in Record
        /\ UNCHANGED <<held, bought>>
    BY <1>10, <1>p DEF AppendDone, ProcessTypeOK
  <2>2. writing.tx \in Nat /\ writing.block \in Nat
    BY <2>1 DEF Record
  <2>3. CASE \/ pc' = "requesting" /\ UNCHANGED <<work, writing, pending, resolved>>
             \/ pc' = "saving" /\ UNCHANGED <<work, writing, pending, resolved>>
    BY <1>p, <1>t, <2>1, <2>3, CallTypes DEF Phases
  <2>4. CASE Idle /\ UNCHANGED pending
    BY <1>i, <2>1, <2>4
  <2>5. CASE /\ pending' = [pending EXCEPT ![work] = [tx |-> writing.tx,
                                                      block |-> writing.block]]
             /\ Idle
    <3>1. pending' \in [Keys -> [tx : Nat, block : Nat]]
      BY <1>t, <2>1, <2>2, <2>5
    <3> QED
      BY <1>p, <2>1, <2>5, <3>1, CountsStep DEF ProcessTypeOK, Busy, Idle, Phases
  <2>6. CASE Judged(work, resolved \cup {work}) /\ writing' = NoLine
    <3>1. resolved \cup {work} \in SUBSET Keys
      BY <1>t, <2>1
    <3> QED
      BY <1>p, <2>1, <2>6, <3>1, JudgedTypes
  <2>7. CASE /\ WriteLine(Line("Abandoned", work))
             /\ UNCHANGED <<work, pending, resolved>>
    BY <1>l, <2>1, <2>7 DEF Types
  <2> QED
    BY <1>10, <2>3, <2>4, <2>5, <2>6, <2>7 DEF AppendDone, Goto
<1>11. CASE Plan
  <2>1. PICK k \in Keys : PlanPublish(k) \/ PlanSubmit(k) \/ PlanProve(k)
    BY <1>11 DEF Plan
  <2>2. CASE PlanPublish(k)
    <3>1. /\ pc' = "publishing" /\ work' = k
          /\ UNCHANGED <<writing, pending, resolved, held, bought>>
      BY <2>2 DEF PlanPublish
    <3> QED
      BY <1>p, <1>t, <3>1, CallTypes DEF Phases
  <2>3. CASE PlanSubmit(k)
    <3>1. work' = k /\ UNCHANGED <<pending, resolved, held, bought>>
      BY <2>3 DEF PlanSubmit
    <3>2. CASE WriteLine(Line("Abandoned", k))
      BY <1>l, <3>1, <3>2 DEF Types
    <3>3. CASE pc' = "sending" /\ UNCHANGED writing
      BY <1>p, <1>t, <3>1, <3>3, CallTypes DEF Phases
    <3> QED
      BY <2>3, <3>2, <3>3 DEF PlanSubmit
  <2>4. CASE PlanProve(k)
    <3>1. /\ work' = k /\ UNCHANGED <<pending, resolved, held, bought>>
          /\ WriteLine(TxLine("Intent", k, 0, frozen[k].block)) /\ k = Newest
      BY <2>4 DEF PlanProve
    <3>2. frozen \in Seq(Checkpoint) /\ k \in Nat \ {0}
      BY OperatorAssumption DEF OperatorTypeOK, ChainTypeOK
    <3>3. k \in DOMAIN frozen
      BY <3>1, <3>2 DEF Newest
    <3>4. frozen[k].block \in Nat
      BY <3>2, <3>3, Fields, ChainAssumption
    <3> QED
      BY <1>l, <3>1, <3>4 DEF Types
  <2> QED
    BY <2>1, <2>2, <2>3, <2>4
<1>12. CASE PlanTrigger
  BY <1>12, <1>i DEF PlanTrigger
<1>13. CASE SaveFails
  <2>1. Idle /\ UNCHANGED <<pending, bought>>
        /\ held' \in {held, [held EXCEPT ![work] = TornProof]}
    BY <1>13 DEF SaveFails
  <2>2. held' \in [Keys -> Int]
    BY <1>t, <2>1 DEF TornProof
  <2> QED
    BY <1>p, <2>1, <2>2, IdleTypes
<1>14. CASE Crash
  <2>1. Lost /\ UNCHANGED bought
        /\ held' \in {held, [held EXCEPT ![work] = TornProof]}
    BY <1>14 DEF Crash
  <2>2. held' \in [Keys -> Int]
    BY <1>t, <2>1 DEF TornProof
  <2> QED
    BY <1>d, <2>1, <2>2
<1>15. CASE StopToResolve
  BY <1>15, <1>d, <1>t DEF StopToResolve
<1>16. CASE Start
  <2>1. /\ Open /\ Idle /\ pending' = [k \in Keys |-> Restored(k)]
        /\ UNCHANGED <<held, bought>>
    BY <1>16 DEF Start
  <2>2. \A k \in Keys : Restored(k) \in [tx : Nat, block : Nat]
    <3> SUFFICES ASSUME NEW k \in Keys
                 PROVE  Restored(k) \in [tx : Nat, block : Nat]
      OBVIOUS
    <3> DEFINE w == PendingSubmission(k, OnDisk)
               i == CHOOSE j \in w : TRUE
    <3>1. CASE w = {}
      BY <3>1 DEF Restored, NoWatch
    <3>2. CASE w # {}
      <4>1. i \in w
        BY <3>2
      <4>2. i \in DOMAIN file
        BY <4>1 DEF PendingSubmission, Of, OnDisk
      <4>3. file[i] \in Record
        BY <4>2 DEF OperatorTypeOK, JournalTypeOK
      <4>4. file[i].tx \in Nat /\ file[i].block \in Nat
        BY <4>3 DEF Record
      <4>5. Restored(k) = [tx |-> file[i].tx, block |-> file[i].block]
        BY <3>2 DEF Restored
      <4> HIDE DEF i
      <4> QED
        BY <4>4, <4>5
    <3> QED
      BY <3>1, <3>2
  <2>3. pending' \in [Keys -> [tx : Nat, block : Nat]]
    BY <2>1, <2>2
  <2> QED
    BY <1>p, <2>1, <2>3, CountsStep DEF ProcessTypeOK, Busy, Idle, Phases
<1>17. CASE \/ Repair \/ (\E k \in Keys : Resolve(k)) \/ TimePasses
            \/ BlockBuilt \/ TxMined \/ Others \/ ChainUpset
  BY <1>17, <1>o DEF Repair, Resolve, TimePasses, BlockBuilt, TxMined, Others,
    ChainUpset, Off
<1> QED
  BY <1>1, <1>2, <1>3, <1>4, <1>5, <1>6, <1>7, <1>8, <1>9, <1>10, <1>11,
    <1>12, <1>13, <1>14, <1>15, <1>16, <1>17 DEF Next, Working

\* OperatorTypeOK, with what the process works on, is inductive.
LEMMA TypeStep ==
    ASSUME OperatorTypeOK, Busy, [Next]_vars
    PROVE  OperatorTypeOK' /\ Busy'
<1>1. CASE Next
  <2>1. ChainTypeOK' /\ JournalTypeOK' /\ ProcessTypeOK' /\ Busy'
    BY <1>1, StepParts, ChainSteps, JournalSteps, ProcessTypesStep
      DEF OperatorTypeOK
  <2> QED
    BY <2>1 DEF OperatorTypeOK, ProcessTypeOK
<1>2. CASE UNCHANGED vars
  BY <1>2 DEF vars, journalVars, chainVars, processVars, faultVars,
    OperatorTypeOK, JournalTypeOK, ChainTypeOK, Busy
<1> QED
  BY <1>1, <1>2

(***************************************************************************)
(* The phases of an action.                                                *)
(***************************************************************************)
\* How the process gets into the phases of a request and of a submission.
Stays == UNCHANGED <<pc, work, writing, bought, held>>
Writing(t) == pc = "append" /\ writing.type = t
PhaseStep ==
    /\ Writing("Intent")' => Stays \/ \E k \in Keys : PlanProve(k)
    /\ pc' = "requesting" =>
        Stays \/ (Writing("Intent") /\ AppendDone /\ UNCHANGED <<work, writing>>)
    /\ pc' = "awaiting" =>
        Stays \/ (pc = "requesting" /\ UNCHANGED <<work, writing, held>>)
    /\ Writing("Requested")' =>
        \/ Stays
        \/ /\ pc = "awaiting" /\ writing'.block = writing.block
           /\ UNCHANGED <<work, held>>
    /\ pc' = "saving" =>
        Stays \/ (Writing("Requested") /\ UNCHANGED <<work, writing, held>>)
    /\ pc' = "sending" => Stays \/ \E k \in Keys : PlanSubmit(k)
    /\ pc' = "watching" => Stays \/ (pc = "sending" /\ UNCHANGED work)

\* Every phase is entered from the one before it.
LEMMA PhaseSteps ==
    ASSUME OperatorTypeOK, Busy, Next
    PROVE  PhaseStep
<1> USE DEF PhaseStep, Writing
<1>i. ASSUME Idle \/ Lost PROVE PhaseStep
  BY <1>i DEF Idle, Lost
<1>l. ASSUME NEW r, WriteLine(r), r.type \notin {"Intent", "Requested"}
      PROVE  PhaseStep
  BY <1>l DEF WriteLine
<1>j. ASSUME NEW k, NEW done, Judged(k, done) PROVE PhaseStep
  BY <1>j DEF Judged
<1>s. ASSUME UNCHANGED <<processVars, held, bought>> PROVE PhaseStep
  BY <1>s DEF processVars, Stays
<1>1. CASE StartTick
  BY <1>1 DEF StartTick
<1>2. CASE Judge
  BY <1>2, <1>l, <1>j DEF Judge, Line, TxLine
<1>3. CASE Wait \/ PublishFails \/ NoReceipt \/ CallFails \/ WriteFails
           \/ PlanTrigger \/ SaveFails \/ Crash \/ StopToResolve \/ Start
  BY <1>3, <1>i DEF Wait, PublishFails, NoReceipt, CallFails, WriteFails,
    PlanTrigger, SaveFails, Crash, StopToResolve, Start
<1>4. CASE Request
  BY <1>4 DEF Request, Goto
<1>5. CASE ProofArrives
  BY <1>5 DEF ProofArrives, WriteLine, TxLine
<1>6. CASE SaveHeld
  BY <1>6 DEF SaveHeld, Goto
<1>7. CASE Send
  BY <1>7 DEF Send, Goto
<1>8. CASE SendReverts \/ PublishSucceeds
  BY <1>8, <1>l DEF SendReverts, PublishSucceeds, Line
<1>9. CASE Receipt
  BY <1>9, <1>l DEF Receipt, Line, TxLine
<1>10. CASE AppendDone
  <2>1. CASE writing.type \in {"Intent", "Requested"}
    BY <1>10, <2>1 DEF AppendDone, Goto
  <2>2. CASE writing.type \notin {"Intent", "Requested"}
    <3>1. \/ Idle \/ Judged(work, resolved \cup {work})
          \/ WriteLine(Line("Abandoned", work))
      BY <1>10, <2>2 DEF AppendDone
    <3> QED
      BY <3>1, <1>i, <1>j, <1>l DEF Line
  <2> QED
    BY <2>1, <2>2
<1>11. CASE \E k \in Keys : PlanPublish(k)
  BY <1>11 DEF PlanPublish
<1>12. CASE \E k \in Keys : PlanSubmit(k)
  <2>1. PICK k \in Keys : PlanSubmit(k)
    BY <1>12
  <2>2. CASE WriteLine(Line("Abandoned", k))
    BY <2>2, <1>l DEF Line
  <2>3. CASE pc' = "sending"
    BY <2>1, <2>3
  <2> QED
    BY <2>1, <2>2, <2>3 DEF PlanSubmit
<1>13. CASE \E k \in Keys : PlanProve(k)
  <2>1. PICK k \in Keys : PlanProve(k)
    BY <1>13
  <2>2. pc' = "append" /\ writing'.type = "Intent"
    BY <2>1 DEF PlanProve, WriteLine, TxLine
  <2> QED
    BY <2>1, <2>2
<1>14. CASE \/ Repair \/ (\E k \in Keys : Resolve(k)) \/ TimePasses
            \/ BlockBuilt \/ TxMined \/ Others \/ ChainUpset
  BY <1>14, <1>s DEF Repair, Resolve, TimePasses, BlockBuilt, TxMined, Others,
    ChainUpset, Off
<1> QED
  BY <1>1, <1>2, <1>3, <1>4, <1>5, <1>6, <1>7, <1>8, <1>9, <1>10, <1>11,
    <1>12, <1>13, <1>14 DEF Next, Working, Plan

\* Only a request buys, and only a save writes a proof.
LEMMA BuysAndSaves ==
    ASSUME OperatorTypeOK, Busy, Next
    PROVE  /\ UNCHANGED bought \/ Request
           /\ \/ UNCHANGED held \/ SaveHeld
              \/ work \in Keys /\ held' = [held EXCEPT ![work] = TornProof]
<1>1. CASE SaveFails \/ Crash
  BY <1>1 DEF SaveFails, Crash, Busy
<1>2. CASE ~SaveFails /\ ~Crash
  BY <1>2 DEF Next, Working, Plan, StartTick, Judge, Wait, Request, ProofArrives,
    PublishFails, Send, SendReverts, Receipt, SaveHeld,
    NoReceipt, AppendDone, PlanPublish, PlanSubmit, PlanProve, PlanTrigger,
    PublishSucceeds, CallFails, WriteFails, Start, StopToResolve, Repair,
    Resolve, BlockBuilt, TxMined, Others, ChainUpset, TimePasses, Off
<1> QED
  BY <1>1, <1>2

(***************************************************************************)
(* Nothing is bought twice.                                                *)
(***************************************************************************)
\* A purchase is certified, and a request is only made for what was not bought.
Purchases ==
    \A k \in Keys : bought[k] <= 1 /\ (bought[k] # 0 => Certified(k))
Asking ==
    /\ pc = "requesting" => bought[work] = 0 /\ Certified(work)
    /\ Writing("Intent") => bought[work] = 0 /\ writing.key = work

\* The step that appends an intent certifies the checkpoint.
LEMMA IntentCertifies ==
    ASSUME JournalTypeOK, AppendDone, writing.type = "Intent",
           writing \in Record, NEW k, writing.key = k
    PROVE  Certified(k)'
<1>1. AppendRecord(writing)
  BY DEF AppendDone
<1> DEFINE n == Len(file) + 1
<1>2. /\ file \in Seq(Record) /\ missed \subseteq DOMAIN file
      /\ DOMAIN file = 1..Len(file) /\ Len(file) \in Nat
  BY DEF JournalTypeOK
<1>3. /\ DOMAIN file' = 1..n /\ file'[n] = writing /\ UNCHANGED missed
  BY <1>1, <1>2 DEF AppendRecord
<1>4. n \in Known' /\ \A j \in DOMAIN file' : ~(j > n)
  BY <1>2, <1>3 DEF Known
<1>5. n \in Of(k, {"Intent"}, Known)'
  BY <1>1, <1>3, <1>4 DEF Of
<1> HIDE DEF n
<1> QED
  BY <1>4, <1>5 DEF Certified

\* Purchases and Asking are inductive.
LEMMA PurchasesStep ==
    ASSUME OperatorTypeOK, Busy, Purchases, Asking, Next
    PROVE  Purchases' /\ Asking'
<1>t. /\ bought \in [Keys -> Nat] /\ JournalTypeOK
      /\ pc = "append" => writing \in Record
      /\ (OperatorTypeOK /\ Busy)'
  BY TypeStep DEF OperatorTypeOK
<1>g. JournalGrows
  BY StepParts, JournalSteps DEF OperatorTypeOK
<1>p. PhaseStep
  BY PhaseSteps
<1>1. Purchases'
  <2> SUFFICES ASSUME NEW k \in Keys
               PROVE  bought'[k] <= 1 /\ (bought'[k] # 0 => Certified(k)')
    BY DEF Purchases
  <2>1. CASE bought'[k] = bought[k]
    <3>1. ASSUME bought[k] # 0 PROVE Certified(k)'
      BY <3>1, <1>t, <1>g, CertifiedStays DEF Purchases
    <3> QED
      BY <2>1, <3>1 DEF Purchases
  <2>2. CASE bought'[k] # bought[k]
    <3>1. Request
      BY <2>2, BuysAndSaves
    <3>2. pc = "requesting" /\ bought' = [bought EXCEPT ![work] = @ + 1]
      BY <3>1 DEF Request
    <3>3. k = work /\ bought'[k] = bought[work] + 1
      BY <1>t, <2>2, <3>2
    <3>4. bought[work] = 0 /\ Certified(k)
      BY <3>2, <3>3 DEF Asking, Certified, Of
    <3>5. Certified(k)'
      BY <1>t, <1>g, <3>2, <3>4, CertifiedStays
    <3> QED
      BY <3>3, <3>4, <3>5
  <2> QED
    BY <2>1, <2>2
<1>2. ASSUME NEW k, k = work', pc' = "requesting"
      PROVE  bought'[k] = 0 /\ Certified(k)'
  <2>1. CASE Stays
    <3>1. pc = "requesting" /\ k = work /\ UNCHANGED bought
      BY <1>2, <2>1 DEF Stays
    <3>2. bought[k] = 0 /\ Certified(k)
      BY <3>1 DEF Asking, Certified, Of
    <3>3. Certified(k)'
      BY <1>t, <1>g, <3>1, <3>2, CertifiedStays
    <3> QED
      BY <3>1, <3>2, <3>3
  <2>2. CASE Writing("Intent") /\ AppendDone /\ UNCHANGED <<work, writing>>
    <3>1. bought[k] = 0 /\ writing.key = k
      BY <1>2, <2>2 DEF Asking
    <3>2. UNCHANGED bought
      BY <2>2 DEF AppendDone
    <3>3. Certified(k)'
      BY <1>t, <2>2, <3>1, IntentCertifies DEF Writing
    <3> QED
      BY <3>1, <3>2, <3>3
  <2> QED
    BY <1>2, <1>p, <2>1, <2>2 DEF PhaseStep
<1>3. ASSUME Writing("Intent")'
      PROVE  bought'[work'] = 0 /\ writing'.key = work'
  <2>1. CASE Stays
    BY <1>3, <2>1 DEF Stays, Asking, Writing
  <2>2. CASE \E k \in Keys : PlanProve(k)
    <3>1. PICK k \in Keys : PlanProve(k)
      BY <2>2
    <3>2. MayRequest(k, Known) /\ work' = k /\ writing'.key = k /\ UNCHANGED bought
      BY <3>1 DEF PlanProve, WriteLine, TxLine
    <3>3. bought[k] = 0
      BY <1>t, <3>2, CertifiedRefuses DEF Purchases
    <3> QED
      BY <3>2, <3>3
  <2> QED
    BY <1>3, <1>p, <2>1, <2>2 DEF PhaseStep
<1>4. pc' = "requesting" => bought'[work'] = 0 /\ Certified(work)'
  BY <1>2 DEF Certified, Of
<1> QED
  BY <1>1, <1>3, <1>4 DEF Asking, Writing

(***************************************************************************)
(* Proofs are of checkpoints the chain will not lose.                      *)
(***************************************************************************)
\* From the plan to the disk, a proof is of a solid checkpoint.
Depth ==
    /\ Writing("Intent") \/ Writing("Requested")
       \/ pc \in {"requesting", "awaiting", "saving"} => Solid(work, writing.block)
    /\ \A k \in Keys : Held(k) => Solid(k, held[k])

\* Depth is inductive.
LEMMA DepthStep ==
    ASSUME OperatorTypeOK, Busy, Depth, Next
    PROVE  Depth'
<1>s. \A k, b : Solid(k, b) => Solid(k, b)'
  BY StepParts, ChainSteps DEF OperatorTypeOK
<1>p. PhaseStep
  BY PhaseSteps
<1>1. ASSUME NEW k \in Keys, Held(k)' PROVE Solid(k, held[k])'
  <2>1. CASE held'[k] = held[k]
    <3>1. Held(k)
      BY <1>1, <2>1 DEF Held
    <3> QED
      BY <1>s, <2>1, <3>1 DEF Depth, Solid
  <2>2. CASE held'[k] # held[k]
    <3>1. CASE SaveHeld
      <4>1. pc = "saving" /\ k = work /\ held'[k] = writing.block
        BY <2>2, <3>1 DEF SaveHeld, OperatorTypeOK
      <4> QED
        BY <1>s, <4>1 DEF Depth, Solid
    <3>2. CASE work \in Keys /\ held' = [held EXCEPT ![work] = TornProof]
      BY <1>1, <2>2, <3>2 DEF Held, OperatorTypeOK
    <3> QED
      BY <2>2, <3>1, <3>2, BuysAndSaves
  <2> QED
    BY <2>1, <2>2
<1>2. ASSUME NEW k, k = work', NEW b, b = writing'.block,
             (Writing("Intent") \/ Writing("Requested")
               \/ pc \in {"requesting", "awaiting", "saving"})'
      PROVE  Solid(k, b)'
  <2>1. CASE \E j \in Keys : PlanProve(j) /\ Writing("Intent")'
    <3>1. PICK j \in Keys : PlanProve(j)
      BY <2>1
    <3>2. /\ j = k /\ b = frozen[k].block /\ j = Newest
          /\ frozen[k].age >= Confirmations
      BY <1>2, <3>1 DEF PlanProve, WriteLine, TxLine
    <3>3. frozen \in Seq(Checkpoint) /\ j \in Nat \ {0}
      BY OperatorAssumption DEF OperatorTypeOK, ChainTypeOK
    <3>4. k \in DOMAIN frozen
      BY <3>2, <3>3 DEF Newest
    <3> QED
      BY <1>s, <3>2, <3>4 DEF Solid
  <2>2. CASE ~(\E j \in Keys : PlanProve(j) /\ Writing("Intent")')
    <3>1. /\ k = work /\ b = writing.block
          /\ Writing("Intent") \/ Writing("Requested")
             \/ pc \in {"requesting", "awaiting", "saving"}
      BY <1>2, <1>p, <2>2 DEF PhaseStep, Stays, Writing
    <3>2. Solid(k, b)
      BY <3>1 DEF Depth, Solid
    <3> QED
      BY <1>s, <3>2
  <2> QED
    BY <2>1, <2>2
<1> QED
  BY <1>1, <1>2 DEF Depth, Solid

(***************************************************************************)
(* Scores are published before the root is sent.                           *)
(***************************************************************************)
\* What is sent, or about to be, is published.
Shown ==
    /\ pc \in {"sending", "watching"} => PublicationSatisfied(work, OnDisk)
    /\ PublishedBeforeSent

\* A published checkpoint stays published.
LEMMA PublicationStays ==
    ASSUME JournalGrows, NEW k, PublicationSatisfied(k, OnDisk)
    PROVE  PublicationSatisfied(k, OnDisk)'
  BY DEF JournalGrows, PublicationSatisfied, OnDisk, Of

\* Only sending adds a submission.
LEMMA OnlySendSends ==
    ASSUME OperatorTypeOK, Busy, Next
    PROVE  Send \/ DOMAIN txs' = DOMAIN txs
<1>t. txs \in Seq(Tx)
  BY DEF OperatorTypeOK, ChainTypeOK
<1>d. DOMAIN DeeperTxs = DOMAIN txs
  BY <1>t, DeeperSubmissions, ChainAssumption
<1>1. ASSUME ~Send
      PROVE  \/ UNCHANGED txs \/ txs' = DeeperTxs \/ DropPool
             \/ \E i \in DOMAIN txs : Include(i)
             \/ \E d \in 1..ReorgDepth : Reorg(d)
  BY <1>1 DEF Next, Working, Plan, StartTick, Judge, Wait, Request, ProofArrives,
    PublishFails, SendReverts, Receipt, SaveHeld, SaveFails,
    NoReceipt, AppendDone, PlanPublish, PlanSubmit, PlanProve, PlanTrigger,
    PublishSucceeds, CallFails, WriteFails, Crash, Start, StopToResolve, Repair,
    Resolve, BlockBuilt, TxMined, Others, ChainUpset, TimePasses, chainVars,
    Attest, Freeze, Accept, OtherLands, EmptyBlock, Refuse
<1>2. DropPool => DOMAIN txs' = DOMAIN txs
  BY DEF DropPool
<1>3. (\E i \in DOMAIN txs : Include(i)) => DOMAIN txs' = DOMAIN txs
  BY <1>d DEF Include
<1>4. (\E d \in 1..ReorgDepth : Reorg(d)) => DOMAIN txs' = DOMAIN txs
  BY DEF Reorg
<1> QED
  BY <1>d, <1>1, <1>2, <1>3, <1>4

\* Shown is inductive.
LEMMA ShownStep ==
    ASSUME OperatorTypeOK, Busy, Shown, Next
    PROVE  Shown'
<1>g. JournalGrows /\ ChainTypeOK' /\ TxsGrow
  BY StepParts, JournalSteps, ChainSteps DEF OperatorTypeOK
<1>p. PhaseStep
  BY PhaseSteps
<1>1. ASSUME NEW k, k = work', pc' \in {"sending", "watching"}
      PROVE  PublicationSatisfied(k, OnDisk)'
  <2>1. CASE \E j \in Keys : PlanSubmit(j) /\ pc' = "sending"
    <3>1. PICK j \in Keys : PlanSubmit(j) /\ pc' = "sending"
      BY <2>1
    <3>2. j = k /\ PublicationSatisfied(k, Known)
      BY <1>1, <3>1 DEF PlanSubmit
    <3>3. PublicationSatisfied(k, OnDisk)
      BY <3>2 DEF PublicationSatisfied, Of, Known, OnDisk
    <3> QED
      BY <1>g, <3>3, PublicationStays
  <2>2. CASE ~(\E j \in Keys : PlanSubmit(j) /\ pc' = "sending")
    <3>1. k = work /\ pc \in {"sending", "watching"}
      BY <1>1, <1>p, <2>2 DEF PhaseStep, Stays
    <3>2. PublicationSatisfied(k, OnDisk)
      BY <3>1 DEF Shown, PublicationSatisfied, Of
    <3> QED
      BY <1>g, <3>2, PublicationStays
  <2> QED
    BY <2>1, <2>2
<1>2. ASSUME NEW i \in DOMAIN txs', NEW k, k = txs'[i].id
      PROVE  PublicationSatisfied(k, OnDisk)'
  <2>1. CASE i \in DOMAIN txs
    <3>1. k = txs[i].id
      BY <1>2, <1>g, <2>1 DEF TxsGrow
    <3>2. PublicationSatisfied(k, OnDisk)
      BY <2>1, <3>1 DEF Shown, PublishedBeforeSent, PublicationSatisfied, Of
    <3> QED
      BY <1>g, <3>2, PublicationStays
  <2>2. CASE i \notin DOMAIN txs
    <3>1. Send
      BY <1>2, <2>2, OnlySendSends
    <3>2. pc = "sending" /\ k = work
      BY <1>2, <2>2, <3>1 DEF Send, Broadcast, OperatorTypeOK, ChainTypeOK
    <3>3. PublicationSatisfied(k, OnDisk)
      BY <3>2 DEF Shown, PublicationSatisfied, Of
    <3> QED
      BY <1>g, <3>3, PublicationStays
  <2> QED
    BY <2>1, <2>2
<1> QED
  BY <1>1, <1>2 DEF Shown, PublishedBeforeSent, PublicationSatisfied, Of


(***************************************************************************)
(* What the operator knows of a checkpoint that is done with.              *)
(***************************************************************************)
\* status() without its exceptions: a settlement that nothing undoes, an
\* abandonment that nothing settled.
Reopening == {"Intent", "Requested", "Abandoned"} \cup Resolutions
SettledLast(k, L) ==
    \E i \in Of(k, Settlements, L) : ~LaterIn(i, Of(k, Reopening, L))
Quit(k, L) ==
    \E i \in Of(k, {"Abandoned"}, L) : ~LaterIn(i, Of(k, Settlements, L))

\* To the process, checkpoint k is neither settled nor abandoned.
StillOpen(k) == ~SettledLast(k, Known) /\ ~Quit(k, Known)

OpenPhases == {"requesting", "awaiting", "saving", "publishing", "sending",
               "watching"}
OpenLines == Reopening \cup {"SubmitGas", "SubmitFailure"}

\* What the process works on, and with which line in hand.
OnlyOpen ==
    /\ pc \in OpenPhases \/ (pc = "append" /\ writing.type \in OpenLines) =>
         StillOpen(work)
    /\ pc = "append" => writing.key = work

\* What the process holds for settled or abandoned is so on disk, whatever
\* lines it does not know; and it works on nothing else.
StatusInv ==
    /\ \A k \in Keys : SettledLast(k, Known) => SettledLast(k, OnDisk)
    /\ \A k \in Keys :
         Quit(k, Known) => Quit(k, OnDisk) \/ SettledLast(k, OnDisk)
    /\ OnlyOpen

\* A settlement decides as long as no line after it reopens the checkpoint.
LEMMA SettledMeans ==
    ASSUME JournalTypeOK, NEW k, NEW L \in SUBSET DOMAIN file
    PROVE  Settled(k, L) <=> SettledLast(k, L)
<1>t. \A i \in L : i \in Nat
  BY DEF JournalTypeOK
<1>o. \A T : \A i \in Of(k, T, L) : i \in L /\ file[i].key = k /\ file[i].type \in T
  BY DEF Of
<1>1. ASSUME Settled(k, L) PROVE SettledLast(k, L)
  <2>1. PICK i \in Deciding(k, L) :
          /\ file[i].type \in Settlements
          /\ \A j \in Deciding(k, L) : j > i => file[j].type \in Settlements
    BY <1>1 DEF Settled, LastDecides
  <2>2. i \in Of(k, Settlements, L) /\ i \in Nat
    BY <2>1, <1>t DEF Deciding, Of
  <2>3. ASSUME NEW j \in Of(k, Reopening, L), j > i PROVE FALSE
    <3>1. /\ j \in L /\ file[j].key = k /\ file[j].type \in Reopening /\ j \in Nat
          /\ file[j].type \notin Settlements
      BY <2>3, <1>t DEF Of, Reopening, Settlements, Resolutions
    <3>2. j \notin Deciding(k, L)
      BY <2>1, <2>3, <3>1
    <3>3. file[j].type # "Abandoned" /\ AbandonedBefore(k, L, j)
      BY <3>1, <3>2 DEF Deciding, Of, Reopening
    <3>4. PICK a \in Of(k, {"Abandoned"}, L) :
            a < j /\ ~\E m \in Of(k, Settlements, L) : a < m /\ m < j
      BY <3>3 DEF AbandonedBefore
    <3>5. a \in Nat /\ a \in Deciding(k, L) /\ file[a].type = "Abandoned"
      BY <3>4, <1>t DEF Deciding, Of
    <3>6. ~(a > i) /\ a # i
      BY <2>1, <3>5 DEF Settlements
    <3> QED
      BY <2>2, <2>3, <3>1, <3>4, <3>5, <3>6
  <2> QED
    BY <2>2, <2>3 DEF SettledLast, LaterIn
<1>2. ASSUME SettledLast(k, L) PROVE Settled(k, L)
  <2>1. PICK i \in Of(k, Settlements, L) : ~LaterIn(i, Of(k, Reopening, L))
    BY <1>2 DEF SettledLast
  <2>2. i \in Deciding(k, L) /\ file[i].type \in Settlements
    BY <2>1 DEF Deciding, Of
  <2>3. ASSUME NEW j \in Deciding(k, L), j > i PROVE file[j].type \in Settlements
    BY <2>1, <2>3 DEF Deciding, Of, LaterIn, Reopening
  <2> QED
    BY <2>2, <2>3 DEF Settled, LastDecides
<1> QED
  BY <1>1, <1>2

\* An abandonment decides as long as no settlement follows.
LEMMA QuitMeans ==
    ASSUME JournalTypeOK, NEW k, NEW L \in SUBSET DOMAIN file
    PROVE  Abandoned(k, L) <=> Quit(k, L)
<1>t. \A i \in L : i \in Nat
  BY DEF JournalTypeOK
<1>1. ASSUME Abandoned(k, L) PROVE Quit(k, L)
  <2>1. PICK i \in Deciding(k, L) :
          /\ file[i].type \in {"Abandoned"}
          /\ \A j \in Deciding(k, L) : j > i => file[j].type \in {"Abandoned"}
    BY <1>1 DEF Abandoned, LastDecides
  <2>2. i \in Of(k, {"Abandoned"}, L)
    BY <2>1 DEF Deciding, Of
  <2>3. ASSUME NEW j \in Of(k, Settlements, L), j > i PROVE FALSE
    BY <2>1, <2>3 DEF Deciding, Of, Settlements
  <2> QED
    BY <2>2, <2>3 DEF Quit, LaterIn
<1>2. ASSUME Quit(k, L) PROVE Abandoned(k, L)
  <2>1. PICK i \in Of(k, {"Abandoned"}, L) : ~LaterIn(i, Of(k, Settlements, L))
    BY <1>2 DEF Quit
  <2>2. i \in Deciding(k, L) /\ file[i].type = "Abandoned" /\ i \in Nat
    BY <2>1, <1>t DEF Deciding, Of
  <2>3. ASSUME NEW j \in Deciding(k, L), j > i PROVE file[j].type = "Abandoned"
    <3>1. j \in L /\ j \in Nat /\ file[j].key = k
      BY <1>t DEF Deciding, Of
    <3>2. ~\E m \in Of(k, Settlements, L) : i < m /\ m < j
      BY <2>1 DEF LaterIn
    <3>3. AbandonedBefore(k, L, j)
      BY <2>1, <2>3, <3>2, <2>2, <3>1 DEF AbandonedBefore
    <3>4. j \in Of(k, Settlements \cup {"Abandoned"}, L)
      BY <3>3 DEF Deciding
    <3> QED
      BY <2>1, <2>3, <3>4 DEF Of, LaterIn
  <2> QED
    BY <2>2, <2>3 DEF Abandoned, LastDecides
<1> QED
  BY <1>1, <1>2

\* The four answers of status() exclude each other.
LEMMA AnswersExclude ==
    ASSUME JournalTypeOK, NEW k, NEW L \in SUBSET DOMAIN file, NEW T, NEW U,
           T \cap U = {}, LastDecides(k, L, T)
    PROVE  ~LastDecides(k, L, U)
<1>t. \A i \in Deciding(k, L) : i \in Nat
  BY DEF JournalTypeOK, Deciding, Of
<1> SUFFICES ASSUME LastDecides(k, L, U) PROVE FALSE
  OBVIOUS
<1>1. PICK i \in Deciding(k, L) :
        /\ file[i].type \in T
        /\ \A j \in Deciding(k, L) : j > i => file[j].type \in T
  BY DEF LastDecides
<1>2. PICK j \in Deciding(k, L) :
        /\ file[j].type \in U
        /\ \A m \in Deciding(k, L) : m > j => file[m].type \in U
  BY DEF LastDecides
<1>3. i > j \/ j > i \/ i = j
  BY <1>t
<1> QED
  BY <1>1, <1>2, <1>3

\* A checkpoint whose request is out, or answered, is still open.
LEMMA AskedIsOpen ==
    ASSUME JournalTypeOK, NEW k, NEW L \in SUBSET DOMAIN file,
           OutcomeUnknown(k, L) \/ InFlight(k, L)
    PROVE  ~SettledLast(k, L) /\ ~Quit(k, L)
<1>1. ~Settled(k, L) /\ ~Abandoned(k, L)
  <2>1. PICK T \in {{"Intent"}, {"Requested", "ResolvedSome"}} : LastDecides(k, L, T)
    BY DEF OutcomeUnknown, InFlight
  <2>2. T \cap Settlements = {} /\ T \cap {"Abandoned"} = {}
    BY DEF Settlements
  <2> QED
    BY <2>1, <2>2, AnswersExclude DEF Settled, Abandoned
<1> QED
  BY <1>1, SettledMeans, QuitMeans

\* A checkpoint that may be asked for is open.
LEMMA AskableIsOpen ==
    ASSUME JournalTypeOK, NEW k, NEW L \in SUBSET DOMAIN file, MayRequest(k, L)
    PROVE  ~SettledLast(k, L) /\ ~Quit(k, L)
<1>1. ASSUME NEW T, "ResolvedNone" \notin T, LastDecides(k, L, T) PROVE FALSE
  <2>1. PICK i \in Deciding(k, L) :
          /\ file[i].type \in T
          /\ \A j \in Deciding(k, L) : j > i => file[j].type \in T
    BY <1>1 DEF LastDecides
  <2> QED
    BY <1>1, <2>1 DEF MayRequest
<1>2. ~Settled(k, L) /\ ~Abandoned(k, L)
  <2>1. "ResolvedNone" \notin Settlements /\ "ResolvedNone" \notin {"Abandoned"}
    BY DEF Settlements
  <2> QED
    BY <1>1, <2>1 DEF Settled, Abandoned
<1> QED
  BY <1>2, SettledMeans, QuitMeans

\* What a new line makes of a checkpoint that is done with.
LEMMA LineAdded ==
    ASSUME JournalTypeOK, NEW r \in Record, file' = Append(file, r), NEW k,
           NEW L \in SUBSET DOMAIN file, NEW n, n = Len(file) + 1
    PROVE  /\ SettledLast(k, L)' <=> SettledLast(k, L)
           /\ Quit(k, L)' <=> Quit(k, L)
           /\ SettledLast(k, L \cup {n})' <=>
                \/ r.key = k /\ r.type \in Settlements
                \/ SettledLast(k, L) /\ ~(r.key = k /\ r.type \in Reopening)
           /\ Quit(k, L \cup {n})' <=>
                \/ r.key = k /\ r.type = "Abandoned"
                \/ Quit(k, L) /\ ~(r.key = k /\ r.type \in Settlements)
<1> DEFINE is(T) == r.key = k /\ r.type \in T
<1>1. /\ file \in Seq(Record) /\ DOMAIN file = 1..Len(file) /\ Len(file) \in Nat
  BY DEF JournalTypeOK
<1>2. /\ \A i \in L : file'[i] = file[i] /\ i \in Nat /\ i < n
      /\ file'[n] = r /\ n \in Nat
  BY <1>1
<1>3. ASSUME NEW T
      PROVE  /\ Of(k, T, L)' = Of(k, T, L)
             /\ Of(k, T, L \cup {n})' = Of(k, T, L) \cup (IF is(T) THEN {n} ELSE {})
             /\ is(T) \in BOOLEAN
  BY <1>2 DEF Of
<1>4. ASSUME NEW T PROVE \A i \in Of(k, T, L) : i \in Nat /\ i < n
  BY <1>2 DEF Of
<1>5. ~(is(Settlements) /\ is(Reopening)) /\ ~(is({"Abandoned"}) /\ is(Settlements))
  BY DEF Settlements, Reopening, Resolutions
<1>6. is({"Abandoned"}) <=> r.key = k /\ r.type = "Abandoned"
  OBVIOUS
<1>7. is(Settlements) <=> r.key = k /\ r.type \in Settlements
  OBVIOUS
<1>8. is(Reopening) <=> r.key = k /\ r.type \in Reopening
  OBVIOUS
<1> HIDE DEF is
<1>9. ASSUME NEW T, NEW U, ~(is(T) /\ is(U))
      PROVE  (\E i \in Of(k, T, L \cup {n})' :
                ~\E j \in Of(k, U, L \cup {n})' : j > i)
             <=> (is(T) \/ ((\E i \in Of(k, T, L) : ~\E j \in Of(k, U, L) : j > i)
                           /\ ~is(U)))
  <2> DEFINE P == Of(k, T, L)  Q == Of(k, U, L)
             P2 == Of(k, T, L \cup {n})'  Q2 == Of(k, U, L \cup {n})'
  <2>1. /\ P2 = P \cup (IF is(T) THEN {n} ELSE {})
        /\ Q2 = Q \cup (IF is(U) THEN {n} ELSE {})
        /\ is(T) \in BOOLEAN /\ is(U) \in BOOLEAN
    BY <1>3
  <2>2. (\A i \in P : i \in Nat /\ i < n) /\ (\A i \in Q : i \in Nat /\ i < n)
    BY <1>4
  <2>3. \A i \in P \cup Q : i \in Nat /\ i < n
    BY <2>2
  <2> HIDE DEF P, Q, P2, Q2
  <2>4. (\E i \in P2 : ~\E j \in Q2 : j > i)
        <=> (is(T) \/ ((\E i \in P : ~\E j \in Q : j > i) /\ ~is(U)))
    <3>1. CASE is(T)
      <4>1. n \in P2 /\ \A j \in Q2 : ~(j > n)
        BY <1>2, <1>9, <2>1, <2>3, <3>1
      <4> QED
        BY <4>1, <3>1
    <3>2. CASE ~is(T) /\ is(U)
      <4>1. P2 = P /\ n \in Q2 /\ \A i \in P2 : n > i
        BY <1>2, <2>1, <2>3, <3>2
      <4> QED
        BY <3>2, <4>1
    <3>3. CASE ~is(T) /\ ~is(U)
      <4>1. P2 = P /\ Q2 = Q
        BY <2>1, <3>3
      <4> QED
        BY <3>3, <4>1
    <3> QED
      BY <3>1, <3>2, <3>3
  <2> QED
    BY <2>4 DEF P, Q, P2, Q2
<1>10. /\ SettledLast(k, L \cup {n})' <=>
             is(Settlements) \/ (SettledLast(k, L) /\ ~is(Reopening))
       /\ SettledLast(k, L)' <=> SettledLast(k, L)
  BY <1>3, <1>5, <1>9 DEF SettledLast, LaterIn
<1>11. /\ Quit(k, L \cup {n})' <=>
             is({"Abandoned"}) \/ (Quit(k, L) /\ ~is(Settlements))
       /\ Quit(k, L)' <=> Quit(k, L)
  BY <1>3, <1>5, <1>9 DEF Quit, LaterIn
<1> QED
  BY <1>6, <1>7, <1>8, <1>10, <1>11

\* The steps that append: the line in hand, a line of which the process hears
\* that it failed, or one written by hand.
Writes(r) ==
    /\ file' = Append(file, r)
    /\ \/ UNCHANGED missed
       \/ missed' = missed \cup {Len(file) + 1}
ByHand(r) ==
    /\ pc = "down" /\ UNCHANGED <<pc, missed>>
    /\ \E k \in Keys : OutcomeUnknown(k, OnDisk) /\ r.key = k
    /\ r.type \in Resolutions
JournalMove ==
    \/ UNCHANGED <<file, missed>>
    \/ Start /\ pc' = "idle" /\ file' = file /\ missed' = {}
    \/ \E r \in Record :
         /\ Writes(r)
         /\ (pc = "append" /\ r = writing) \/ ByHand(r)

\* Every step moves the journal in one of these ways.
LEMMA JournalMoves ==
    ASSUME OperatorTypeOK, Busy, Next
    PROVE  JournalMove
<1>w. pc = "append" => writing \in Record
  BY DEF OperatorTypeOK
<1>1. CASE AppendDone
  BY <1>1, <1>w DEF AppendDone, AppendRecord, JournalMove, Writes
<1>2. CASE WriteFails
  BY <1>2, <1>w DEF WriteFails, AppendFails, JournalMove, Writes
<1>3. CASE Crash
  BY <1>3, <1>w DEF Crash, AppendCrashes, journalVars, JournalMove, Writes
<1>4. CASE Start
  BY <1>4 DEF Start, Open, Idle, JournalMove
<1>5. CASE \E k \in Keys : Resolve(k)
  <2>1. PICK k \in Keys : Resolve(k)
    BY <1>5
  <2> DEFINE r == Line(IF bought[k] > 0 THEN "ResolvedSome" ELSE "ResolvedNone", k)
  <2>2. r \in Record /\ r.key = k /\ r.type \in Resolutions
    BY DEF Line, Record, Types, Resolutions
  <2>3. /\ pc = "down" /\ AppendRecord(r) /\ OutcomeUnknown(k, OnDisk)
        /\ UNCHANGED processVars
    BY <2>1 DEF Resolve
  <2> HIDE DEF r
  <2> QED
    BY <2>2, <2>3 DEF AppendRecord, JournalMove, Writes, ByHand, processVars
<1>6. CASE ~AppendDone /\ ~WriteFails /\ ~Crash /\ ~Start
           /\ ~(\E k \in Keys : Resolve(k))
  BY <1>6 DEF Next, Working, Plan, StartTick, Judge, Wait, Request, ProofArrives,
    PublishFails, Send, SendReverts, Receipt, SaveHeld, SaveFails,
    NoReceipt, PlanPublish, PlanSubmit, PlanProve, PlanTrigger, PublishSucceeds,
    CallFails, StopToResolve, Repair, RemoveTornLine, BlockBuilt, TxMined, Others,
    ChainUpset, TimePasses, WindowMoves, Off, journalVars, JournalMove
<1> QED
  BY <1>1, <1>2, <1>3, <1>4, <1>5, <1>6

\* While the journal stands still, so does what is known of a checkpoint.
LEMMA SameJournal ==
    ASSUME UNCHANGED <<file, missed>>, NEW k
    PROVE  /\ SettledLast(k, Known)' <=> SettledLast(k, Known)
           /\ SettledLast(k, OnDisk)' <=> SettledLast(k, OnDisk)
           /\ Quit(k, Known)' <=> Quit(k, Known)
           /\ Quit(k, OnDisk)' <=> Quit(k, OnDisk)
  BY DEF SettledLast, Quit, Of, LaterIn, Known, OnDisk

\* A new line, on disk and perhaps unknown to the process.
LEMMA Written ==
    ASSUME JournalTypeOK, NEW r \in Record, Writes(r), NEW k
    PROVE  /\ SettledLast(k, OnDisk)' <=>
                \/ r.key = k /\ r.type \in Settlements
                \/ SettledLast(k, OnDisk) /\ ~(r.key = k /\ r.type \in Reopening)
           /\ Quit(k, OnDisk)' <=>
                \/ r.key = k /\ r.type = "Abandoned"
                \/ Quit(k, OnDisk) /\ ~(r.key = k /\ r.type \in Settlements)
           /\ UNCHANGED missed =>
                /\ SettledLast(k, Known)' <=>
                     \/ r.key = k /\ r.type \in Settlements
                     \/ SettledLast(k, Known) /\ ~(r.key = k /\ r.type \in Reopening)
                /\ Quit(k, Known)' <=>
                     \/ r.key = k /\ r.type = "Abandoned"
                     \/ Quit(k, Known) /\ ~(r.key = k /\ r.type \in Settlements)
           /\ missed' # missed =>
                /\ SettledLast(k, Known)' <=> SettledLast(k, Known)
                /\ Quit(k, Known)' <=> Quit(k, Known)
<1>0. PICK n : n = Len(file) + 1
  OBVIOUS
<1>1. /\ file \in Seq(Record) /\ DOMAIN file = 1..Len(file) /\ Len(file) \in Nat
      /\ missed \subseteq DOMAIN file /\ file' = Append(file, r)
  BY DEF JournalTypeOK, Writes
<1>2. DOMAIN file' = 1..n /\ n \notin DOMAIN file
  BY <1>0, <1>1
<1>3. /\ OnDisk' = OnDisk \cup {n} /\ Known \subseteq OnDisk /\ OnDisk = DOMAIN file
      /\ UNCHANGED missed => Known' = Known \cup {n}
      /\ missed' # missed => Known' = Known
  BY <1>0, <1>1, <1>2 DEF OnDisk, Known, Writes
<1>4. ASSUME NEW L \in SUBSET DOMAIN file
      PROVE  /\ SettledLast(k, L)' <=> SettledLast(k, L)
             /\ Quit(k, L)' <=> Quit(k, L)
             /\ SettledLast(k, L \cup {n})' <=>
                  \/ r.key = k /\ r.type \in Settlements
                  \/ SettledLast(k, L) /\ ~(r.key = k /\ r.type \in Reopening)
             /\ Quit(k, L \cup {n})' <=>
                  \/ r.key = k /\ r.type = "Abandoned"
                  \/ Quit(k, L) /\ ~(r.key = k /\ r.type \in Settlements)
  BY <1>0, <1>1, LineAdded
<1>5. ASSUME NEW M, NEW L, L = Known', M = OnDisk'
      PROVE  /\ SettledLast(k, Known)' <=> SettledLast(k, L)'
             /\ Quit(k, Known)' <=> Quit(k, L)'
             /\ SettledLast(k, OnDisk)' <=> SettledLast(k, M)'
             /\ Quit(k, OnDisk)' <=> Quit(k, M)'
  BY <1>5 DEF SettledLast, Quit, Of, LaterIn
<1>6. ASSUME NEW K, NEW D, K = Known, D = OnDisk
      PROVE  /\ SettledLast(k, Known) <=> SettledLast(k, K)
             /\ Quit(k, Known) <=> Quit(k, K)
             /\ SettledLast(k, OnDisk) <=> SettledLast(k, D)
             /\ Quit(k, OnDisk) <=> Quit(k, D)
  BY <1>6
<1>7. PICK K, D : K = Known /\ D = OnDisk
  OBVIOUS
<1>8. K \in SUBSET DOMAIN file /\ D \in SUBSET DOMAIN file
  BY <1>3, <1>7
<1>9. /\ SettledLast(k, OnDisk)' <=> SettledLast(k, D \cup {n})'
      /\ Quit(k, OnDisk)' <=> Quit(k, D \cup {n})'
      /\ UNCHANGED missed =>
           /\ SettledLast(k, Known)' <=> SettledLast(k, K \cup {n})'
           /\ Quit(k, Known)' <=> Quit(k, K \cup {n})'
      /\ missed' # missed =>
           /\ SettledLast(k, Known)' <=> SettledLast(k, K)'
           /\ Quit(k, Known)' <=> Quit(k, K)'
  BY <1>3, <1>7 DEF SettledLast, Quit, Of, LaterIn
<1> QED
  BY <1>4, <1>6, <1>7, <1>8, <1>9

\* Settled stays settled, abandoned stays abandoned until it is settled.
DoneStays ==
    \A k \in Keys :
        /\ SettledLast(k, Known) => SettledLast(k, Known)'
        /\ Quit(k, Known) => SettledLast(k, Known)' \/ Quit(k, Known)'

\* What the process holds for done is done on disk, after every step, and it
\* goes on holding it for done.
LEMMA DoneStep ==
    ASSUME OperatorTypeOK, Busy, StatusInv, Next
    PROVE  /\ DoneStays
           /\ \A k \in Keys :
                /\ SettledLast(k, Known)' => SettledLast(k, OnDisk)'
                /\ Quit(k, Known)' => Quit(k, OnDisk)' \/ SettledLast(k, OnDisk)'
<1>t. JournalTypeOK /\ Known \subseteq DOMAIN file /\ OnDisk = DOMAIN file
  BY DEF OperatorTypeOK, Known, OnDisk
<1> SUFFICES ASSUME NEW k \in Keys
             PROVE  /\ SettledLast(k, Known) => SettledLast(k, Known)'
                    /\ Quit(k, Known) => SettledLast(k, Known)' \/ Quit(k, Known)'
                    /\ SettledLast(k, Known)' => SettledLast(k, OnDisk)'
                    /\ Quit(k, Known)' => Quit(k, OnDisk)' \/ SettledLast(k, OnDisk)'
  BY DEF DoneStays
<1>i. /\ SettledLast(k, Known) => SettledLast(k, OnDisk)
      /\ Quit(k, Known) => Quit(k, OnDisk) \/ SettledLast(k, OnDisk)
  BY DEF StatusInv
<1>1. CASE UNCHANGED <<file, missed>>
  BY <1>1, <1>i, SameJournal
<1>2. CASE file' = file /\ missed' = {}
  <2>1. OnDisk' = OnDisk /\ Known' = OnDisk
    BY <1>2 DEF OnDisk, Known
  <2>2. /\ SettledLast(k, Known)' <=> SettledLast(k, OnDisk)
        /\ SettledLast(k, OnDisk)' <=> SettledLast(k, OnDisk)
        /\ Quit(k, Known)' <=> Quit(k, OnDisk)
        /\ Quit(k, OnDisk)' <=> Quit(k, OnDisk)
    BY <1>2, <2>1 DEF SettledLast, Quit, Of, LaterIn
  <2> QED
    BY <1>i, <2>2
<1>3. ASSUME NEW r \in Record, Writes(r), (pc = "append" /\ r = writing) \/ ByHand(r)
      PROVE  /\ SettledLast(k, Known) => SettledLast(k, Known)'
             /\ Quit(k, Known) => SettledLast(k, Known)' \/ Quit(k, Known)'
             /\ SettledLast(k, Known)' => SettledLast(k, OnDisk)'
             /\ Quit(k, Known)' => Quit(k, OnDisk)' \/ SettledLast(k, OnDisk)'
  <2>1. r.key = k /\ r.type \in Reopening =>
          ~SettledLast(k, Known) /\ ~Quit(k, Known)
    <3>1. CASE pc = "append" /\ r = writing
      <4>1. writing.key = work /\ (writing.type \in OpenLines => StillOpen(work))
        BY <3>1 DEF StatusInv, OnlyOpen
      <4>2. r.type \in Reopening => r.type \in OpenLines
        BY DEF Reopening, OpenLines
      <4> QED
        BY <3>1, <4>1, <4>2 DEF StillOpen
    <3>2. CASE ByHand(r)
      <4>1. r.key = k => OutcomeUnknown(k, OnDisk)
        BY <3>2 DEF ByHand
      <4>2. OutcomeUnknown(k, OnDisk) => ~SettledLast(k, OnDisk) /\ ~Quit(k, OnDisk)
        BY <1>t, AskedIsOpen
      <4> QED
        BY <1>i, <4>1, <4>2
    <3> QED
      BY <1>3, <3>1, <3>2
  <2>2. r.type \in Settlements => r.type \notin Reopening
    BY DEF Settlements, Reopening, Resolutions
  <2>3. UNCHANGED missed \/ missed' # missed
    OBVIOUS
  <2>4. CASE UNCHANGED missed
    BY <1>i, <1>t, <1>3, <2>1, <2>2, <2>4, Written
  <2>5. CASE missed' # missed
    BY <1>i, <1>t, <1>3, <2>1, <2>2, <2>5, Written
  <2> QED
    BY <2>4, <2>5
<1> QED
  BY <1>1, <1>2, <1>3, JournalMoves DEF JournalMove

\* The process works on nothing that it holds for settled or abandoned.
LEMMA OnlyOpenStep ==
    ASSUME OperatorTypeOK, Busy, OnlyOpen, Next
    PROVE  OnlyOpen'
<1> USE DEF OnlyOpen
<1>t. JournalTypeOK /\ Known \subseteq DOMAIN file
  BY DEF OperatorTypeOK, Known
<1>q. /\ {"idle", "down", "settling", "planning"} \cap (OpenPhases \cup {"append"}) = {}
      /\ {"Landed", "SubmitReorged", "Published", "SubmitPending"}
           \cap OpenLines = {}
      /\ "append" \notin OpenPhases
  BY DEF OpenPhases, OpenLines, Reopening, Resolutions
\* The process leaves what it worked on.
<1>i. ASSUME pc' \in {"idle", "down", "settling", "planning"} PROVE OnlyOpen'
  BY <1>i, <1>q
\* The process goes on with an open checkpoint, and writes nothing yet.
<1>o. ASSUME NEW k, k = work', StillOpen(k), UNCHANGED <<file, missed>>,
             pc' \in OpenPhases \/ (pc' = "append" /\ writing'.key = k)
      PROVE  OnlyOpen'
  <2>1. StillOpen(k)'
    BY <1>o, SameJournal DEF StillOpen
  <2>2. StillOpen(work)' <=> StillOpen(k)'
    BY <1>o DEF StillOpen, SettledLast, Quit
  <2> QED
    BY <1>o, <1>q, <2>1, <2>2
\* The process writes that it is done.
<1>w. ASSUME pc' = "append", writing'.key = work',
             writing'.type \in {"Landed", "SubmitReorged", "Published",
                                "SubmitPending"}
      PROVE  OnlyOpen'
  BY <1>w, <1>q
<1>1. CASE StartTick \/ Wait \/ PublishFails \/ NoReceipt \/ CallFails \/ WriteFails
           \/ PlanTrigger \/ SaveFails \/ Crash \/ StopToResolve \/ Start
  BY <1>1, <1>i DEF StartTick, Wait, PublishFails, NoReceipt, CallFails, WriteFails,
    PlanTrigger, SaveFails, Crash, StopToResolve, Start, Idle, Lost
<1>2. CASE Judge
  <2>1. CASE Judged(work, resolved)
    BY <1>i, <2>1 DEF Judged
  <2>2. CASE /\ UNCHANGED work
             /\ \/ WriteLine(Line("Landed", work))
                \/ WriteLine(TxLine("SubmitReorged", work, pending[work].tx,
                                    pending[work].block))
    BY <1>w, <2>2 DEF WriteLine, Line, TxLine
  <2> QED
    BY <1>2, <2>1, <2>2 DEF Judge
<1>3. CASE Request \/ SaveHeld \/ Send \/ ProofArrives \/ SendReverts
  <2>1. pc \in OpenPhases /\ UNCHANGED <<work, file, missed>>
    BY <1>3 DEF Request, SaveHeld, Send, ProofArrives, SendReverts, OpenPhases,
      journalVars
  <2>2. pc' \in OpenPhases \/ (pc' = "append" /\ writing'.key = work)
    BY <1>3 DEF Request, SaveHeld, Send, ProofArrives, SendReverts, OpenPhases,
      Goto, WriteLine, Line, TxLine
  <2> QED
    BY <1>o, <2>1, <2>2
<1>4. CASE PublishSucceeds
  BY <1>4, <1>w DEF PublishSucceeds, WriteLine, Line
<1>5. CASE Receipt
  <2>1. CASE WriteLine(TxLine("SubmitPending", work, Sent, txs[Sent].block))
    BY <1>5, <1>w, <2>1 DEF Receipt, WriteLine, TxLine
  <2>2. CASE WriteLine(Line("SubmitGas", work))
    <3>1. pc \in OpenPhases /\ UNCHANGED <<work, file, missed>>
      BY <1>5 DEF Receipt, OpenPhases, journalVars
    <3>2. pc' = "append" /\ writing'.key = work
      BY <2>2 DEF WriteLine, Line
    <3> QED
      BY <1>o, <3>1, <3>2
  <2> QED
    BY <1>5, <2>1, <2>2 DEF Receipt
<1>6. CASE Plan
  <2>1. PICK k \in Keys : PlanPublish(k) \/ PlanSubmit(k) \/ PlanProve(k)
    BY <1>6 DEF Plan
  <2>2. InFlight(k, Known) \/ MayRequest(k, Known)
    BY <2>1 DEF PlanPublish, PlanSubmit, PlanProve, PlanFinish
  <2>3. StillOpen(k)
    BY <1>t, <2>2, AskedIsOpen, AskableIsOpen DEF StillOpen
  <2>4. k = work' /\ UNCHANGED <<file, missed>>
    BY <2>1 DEF PlanPublish, PlanSubmit, PlanProve, journalVars
  <2>5. pc' \in OpenPhases \/ (pc' = "append" /\ writing'.key = k)
    BY <2>1 DEF PlanPublish, PlanSubmit, PlanProve, WriteLine, Line, TxLine,
      OpenPhases
  <2> QED
    BY <1>o, <2>3, <2>4, <2>5
<1>7. CASE AppendDone
  <2>1. pc = "append" /\ AppendRecord(writing) /\ writing.key = work
    BY <1>7 DEF AppendDone
  <2>2. CASE \/ Idle \/ Judged(work, resolved \cup {work})
    BY <1>i, <2>2 DEF Idle, Judged
  <2>3. CASE ~(Idle \/ Judged(work, resolved \cup {work}))
    <3>1. /\ writing.type \in {"Intent", "Requested", "SubmitGas", "SubmitFailure"}
          /\ pc' \in OpenPhases \/ (pc' = "append" /\ writing'.key = work)
          /\ UNCHANGED work
      BY <1>7, <2>3 DEF AppendDone, Goto, WriteLine, Line, OpenPhases
    <3>2. PICK k : k = work
      OBVIOUS
    <3>3. StillOpen(k)
      BY <2>1, <3>1, <3>2 DEF OpenLines, Reopening
    <3>4. writing \in Record /\ Writes(writing) /\ UNCHANGED missed
      BY <2>1 DEF OperatorTypeOK, AppendRecord, Writes
    <3>5. writing.type \notin Settlements /\ writing.type # "Abandoned"
      BY <3>1 DEF Settlements
    <3>6. StillOpen(k)'
      BY <1>t, <3>3, <3>4, <3>5, Written DEF StillOpen
    <3>7. StillOpen(work)' <=> StillOpen(k)'
      BY <3>1, <3>2 DEF StillOpen, SettledLast, Quit
    <3> QED
      BY <1>q, <2>1, <3>1, <3>6, <3>7
  <2> QED
    BY <2>2, <2>3
<1>8. CASE \/ Repair \/ (\E k \in Keys : Resolve(k)) \/ TimePasses
           \/ BlockBuilt \/ TxMined \/ Others \/ ChainUpset
  <2>1. UNCHANGED <<pc, work, writing>>
    BY <1>8 DEF Repair, Resolve, TimePasses, BlockBuilt, TxMined, Others,
      ChainUpset, Off, processVars
  <2>2. CASE pc = "down"
    BY <1>i, <2>1, <2>2
  <2>3. CASE pc # "down"
    <3>1. UNCHANGED <<file, missed>>
      BY <1>8, <2>3 DEF Repair, Resolve, TimePasses, WindowMoves, BlockBuilt, TxMined,
        Others, ChainUpset, Off, journalVars
    <3>2. PICK k : k = work
      OBVIOUS
    <3>3. StillOpen(k)' <=> StillOpen(k)
      BY <3>1, SameJournal DEF StillOpen
    <3>4. StillOpen(work)' <=> StillOpen(k)'
      BY <2>1, <3>2 DEF StillOpen, SettledLast, Quit
    <3> QED
      BY <2>1, <3>2, <3>3, <3>4
  <2> QED
    BY <2>2, <2>3
<1> QED
  BY <1>1, <1>2, <1>3, <1>4, <1>5, <1>6, <1>7, <1>8 DEF Next, Working

\* StatusInv is inductive.
LEMMA StatusStep ==
    ASSUME OperatorTypeOK, Busy, StatusInv, Next
    PROVE  StatusInv'
  BY OnlyOpenStep, DoneStep DEF StatusInv

(***************************************************************************)
(* What awaits finality is watched.                                        *)
(***************************************************************************)
\* Who is judged is watched, and what was judged awaits nothing any more.
Judging == pc = "settling" \/ Writing("Landed") \/ Writing("SubmitReorged")
WatchInv ==
    /\ PendingIsWatched
    /\ \A k \in resolved : PendingSubmission(k, Known) = {}
    /\ resolved # {} => Judging
    /\ pc = "settling" => pending[work] # NoWatch
    /\ Writing("SubmitReorged") => writing.tx = pending[work].tx

Endings == Settlements \cup {"SubmitPending", "Abandoned", "ResolvedNone"}

\* While the journal stands still, the same submissions are awaited.
LEMMA SameAwaited ==
    ASSUME UNCHANGED <<file, missed>>, NEW k
    PROVE  PendingSubmission(k, Known)' = PendingSubmission(k, Known)
  BY DEF PendingSubmission, Of, LaterIn, Known

\* A new line adds at most itself to what is awaited, and ends what was; the
\* process sees nothing of a line it does not know.
LEMMA AwaitedAfter ==
    ASSUME JournalTypeOK, NEW r \in Record, Writes(r), NEW k, NEW n,
           n = Len(file) + 1
    PROVE  /\ missed' # missed =>
                PendingSubmission(k, Known)' \subseteq PendingSubmission(k, Known)
           /\ \A i \in PendingSubmission(k, Known)' :
                \/ i = n /\ r.key = k /\ r.type = "SubmitPending"
                \/ /\ i \in PendingSubmission(k, Known) /\ file'[i] = file[i]
                   /\ ~(UNCHANGED missed /\ r.key = k /\ r.type \in Endings)
                   /\ ~(UNCHANGED missed /\ r.key = k /\ r.type = "SubmitReorged"
                        /\ r.tx = file[i].tx)
           /\ file'[n] = r
<1>1. /\ file \in Seq(Record) /\ DOMAIN file = 1..Len(file) /\ Len(file) \in Nat
      /\ missed \subseteq DOMAIN file /\ file' = Append(file, r)
  BY DEF JournalTypeOK, Writes
<1>2. /\ DOMAIN file' = 1..n /\ n \notin DOMAIN file /\ n \in Nat /\ file'[n] = r
      /\ \A i \in DOMAIN file : file'[i] = file[i] /\ i \in Nat /\ n > i
  BY <1>1
<1>3. /\ Known \subseteq DOMAIN file
      /\ UNCHANGED missed => Known' = Known \cup {n}
      /\ missed' # missed => Known' = Known
  BY <1>1, <1>2 DEF Known, Writes
<1>4. ASSUME NEW T, NEW i \in Of(k, T, Known) PROVE i \in Of(k, T, Known)'
  BY <1>2, <1>3, <1>4 DEF Of
<1>5. ASSUME NEW i \in PendingSubmission(k, Known)'
      PROVE  i = n \/ i \in PendingSubmission(k, Known)
  <2>1. /\ i \in Of(k, {"SubmitPending"}, Known)'
        /\ ~LaterIn(i, Of(k, Endings, Known)')
        /\ ~\E j \in Of(k, {"SubmitReorged"}, Known)' : j > i /\ file'[j].tx = file'[i].tx
    BY <1>5 DEF PendingSubmission, Endings, LaterIn
  <2>2. i # n => i \in Of(k, {"SubmitPending"}, Known)
    BY <1>2, <1>3, <2>1 DEF Of
  <2>3. ~LaterIn(i, Of(k, Endings, Known))
    BY <1>4, <2>1 DEF LaterIn
  <2>4. ASSUME i # n, NEW j \in Of(k, {"SubmitReorged"}, Known), j > i,
               file[j].tx = file[i].tx
        PROVE  FALSE
    <3>1. i \in DOMAIN file /\ j \in DOMAIN file
      BY <1>3, <2>2, <2>4 DEF Of
    <3>2. file'[j].tx = file'[i].tx /\ j \in Of(k, {"SubmitReorged"}, Known)'
      BY <1>2, <1>4, <2>4, <3>1
    <3> QED
      BY <2>1, <2>4, <3>2
  <2> QED
    BY <2>2, <2>3, <2>4 DEF PendingSubmission, Endings
<1>6. ASSUME NEW i \in PendingSubmission(k, Known)'
      PROVE  i = n => r.key = k /\ r.type = "SubmitPending"
  BY <1>2, <1>6 DEF PendingSubmission, Of
<1>7. ASSUME NEW i \in PendingSubmission(k, Known)', i # n, UNCHANGED missed, r.key = k
      PROVE  /\ r.type \notin Endings
             /\ r.type = "SubmitReorged" => r.tx # file[i].tx
  <2>1. i \in DOMAIN file
    BY <1>3, <1>5, <1>7 DEF PendingSubmission, Of
  <2>2. ~LaterIn(i, Of(k, Endings, Known)')
        /\ ~\E j \in Of(k, {"SubmitReorged"}, Known)' : j > i /\ file'[j].tx = file'[i].tx
    BY <1>7 DEF PendingSubmission, Endings, LaterIn
  <2>3. \A T : r.type \in T => n \in Of(k, T, Known)'
    BY <1>2, <1>3, <1>7 DEF Of
  <2>4. n > i /\ file'[i] = file[i]
    BY <1>2, <2>1
  <2> QED
    BY <1>2, <2>2, <2>3, <2>4 DEF LaterIn
<1>8. missed' # missed => n \notin PendingSubmission(k, Known)'
  BY <1>2, <1>3 DEF PendingSubmission, Of
<1>9. \A i \in PendingSubmission(k, Known) : file'[i] = file[i]
  BY <1>2, <1>3 DEF PendingSubmission, Of
<1> QED
  BY <1>2, <1>5, <1>6, <1>7, <1>8, <1>9

\* At most one submission of a checkpoint is awaited: a later one ends it.
LEMMA OneAwaited ==
    ASSUME JournalTypeOK, NEW k, NEW i \in PendingSubmission(k, OnDisk),
           NEW j \in PendingSubmission(k, OnDisk)
    PROVE  i = j
<1>1. /\ i \in Of(k, {"SubmitPending"}, OnDisk) /\ j \in Of(k, {"SubmitPending"}, OnDisk)
      /\ ~LaterIn(i, Of(k, Endings, OnDisk)) /\ ~LaterIn(j, Of(k, Endings, OnDisk))
  BY DEF PendingSubmission, Endings
<1>2. /\ i \in Of(k, Endings, OnDisk) /\ j \in Of(k, Endings, OnDisk)
      /\ i \in Nat /\ j \in Nat
  BY <1>1 DEF Of, Endings, JournalTypeOK, OnDisk
<1> QED
  BY <1>1, <1>2 DEF LaterIn

\* WatchInv is inductive.
LEMMA WatchStep ==
    ASSUME OperatorTypeOK, Busy, OnlyOpen, WatchInv, Next
    PROVE  WatchInv'
<1> DEFINE Await(k) == PendingSubmission(k, Known)
           At(i) == [tx |-> file[i].tx, block |-> file[i].block]
<1>t. /\ JournalTypeOK /\ pending \in [Keys -> [tx : Nat, block : Nat]]
      /\ resolved \subseteq Keys
  BY DEF OperatorTypeOK
<1>i. /\ pc # "down" => \A k \in Keys : \A i \in Await(k) : pending[k] = At(i)
      /\ \A k \in resolved : Await(k) = {}
      /\ resolved # {} => Judging
      /\ pc = "settling" => pending[work] # NoWatch
      /\ Writing("SubmitReorged") => writing.tx = pending[work].tx
  BY DEF WatchInv, PendingIsWatched
\* The journal and the watches stand still.
<1>s. ASSUME UNCHANGED <<file, missed, pending>>, pc # "down"
      PROVE  \A k \in Keys : \A i \in Await(k)' : pending'[k] = At(i)'
  BY <1>i, <1>s, SameAwaited
<1>k. ASSUME UNCHANGED <<file, missed, pending>>, pc # "down", pc' # "settling",
             ~Writing("SubmitReorged")', resolved' = {}
      PROVE  WatchInv'
  BY <1>k, <1>s DEF WatchInv, PendingIsWatched
<1>r. ~Judging => resolved = {}
  BY <1>i
\* A pass goes on to the next watched submission, or ends.
<1>j. ASSUME NEW done \in SUBSET Keys, Judged(work, done), pc # "down",
             \A k \in Keys : \A i \in Await(k)' : pending[k] = At(i)',
             \A k \in done : Await(k)' = {}
      PROVE  WatchInv'
  <2>1. CASE After(work) # {}
    <3>1. /\ \E j \in Keys : IsFirst(j, After(work)) /\ work' = j
          /\ pc' = "settling" /\ resolved' = done /\ UNCHANGED pending
      BY <1>j, <2>1 DEF Judged
    <3>2. pending'[work'] # NoWatch
      BY <3>1 DEF IsFirst, After, Watched
    <3>3. Judging' /\ ~Writing("SubmitReorged")'
      BY <3>1 DEF Judging, Writing
    <3> QED
      BY <1>j, <3>1, <3>2, <3>3 DEF WatchInv, PendingIsWatched
  <2>2. CASE After(work) = {}
    <3>1. /\ pc' = "planning" /\ resolved' = {}
          /\ pending' = [j \in Keys |-> IF j \in done THEN NoWatch ELSE pending[j]]
      BY <1>j, <2>2 DEF Judged
    <3>2. \A k \in Keys : \A i \in Await(k)' : pending'[k] = At(i)'
      BY <1>j, <3>1
    <3> QED
      BY <3>1, <3>2 DEF WatchInv, PendingIsWatched, Writing
  <2> QED
    BY <2>1, <2>2
<1>1. CASE StartTick
  <2>1. /\ pc = "idle" /\ pc' = "settling" /\ UNCHANGED <<file, missed, pending, resolved>>
        /\ \E j \in Keys : IsFirst(j, Watched) /\ work' = j
    BY <1>1 DEF StartTick, journalVars
  <2>2. pending'[work'] # NoWatch
    BY <2>1 DEF IsFirst, Watched
  <2>3. resolved' = {} /\ ~Writing("SubmitReorged")'
    BY <1>r, <2>1 DEF Judging, Writing
  <2> QED
    BY <1>s, <2>1, <2>2, <2>3 DEF WatchInv, PendingIsWatched
<1>2. CASE Judge
  <2>1. pc = "settling" /\ UNCHANGED <<file, missed>>
    BY <1>2 DEF Judge, journalVars
  <2>2. CASE Judged(work, resolved)
    <3>1. \A k \in Keys : \A i \in Await(k)' : pending[k] = At(i)'
      BY <1>i, <2>1, SameAwaited
    <3>2. \A k \in resolved : Await(k)' = {}
      BY <1>i, <2>1, SameAwaited
    <3> QED
      BY <1>j, <1>t, <2>1, <2>2, <3>1, <3>2
  <2>3. CASE /\ UNCHANGED <<work, pending, resolved>>
             /\ \/ WriteLine(Line("Landed", work))
                \/ WriteLine(TxLine("SubmitReorged", work, pending[work].tx,
                                    pending[work].block))
    <3>1. /\ pc' = "append" /\ Judging'
          /\ Writing("SubmitReorged")' => writing'.tx = pending[work].tx
      BY <2>3 DEF WriteLine, Line, TxLine, Writing, Judging
    <3>2. \A k \in resolved : Await(k)' = {}
      BY <1>i, <2>1, SameAwaited
    <3> QED
      BY <1>s, <2>1, <2>3, <3>1, <3>2 DEF WatchInv, PendingIsWatched
  <2> QED
    BY <1>2, <2>2, <2>3 DEF Judge
<1>3. CASE Request \/ SaveHeld \/ Send \/ ProofArrives \/ SendReverts
           \/ PublishSucceeds \/ Receipt
  <2>1. /\ pc \in OpenPhases /\ UNCHANGED <<file, missed, pending, resolved>>
    BY <1>3 DEF Request, SaveHeld, Send, ProofArrives, SendReverts,
      PublishSucceeds, Receipt, OpenPhases, journalVars
  <2>2. pc' # "settling" /\ ~Writing("SubmitReorged")'
    BY <1>3 DEF Request, SaveHeld, Send, ProofArrives, SendReverts,
      PublishSucceeds, Receipt, Goto, WriteLine, Line, TxLine, Writing
  <2>3. pc # "down" /\ ~Judging
    BY <2>1 DEF OpenPhases, Judging, Writing
  <2> QED
    BY <1>k, <1>r, <2>1, <2>2, <2>3
<1>4. CASE Plan
  <2>1. Planning /\ UNCHANGED <<file, missed, pending, resolved>>
        /\ pc' # "settling" /\ ~Writing("SubmitReorged")'
    BY <1>4 DEF Plan, PlanPublish, PlanSubmit, PlanProve, journalVars, WriteLine,
      Line, TxLine, Writing
  <2>2. pc # "down" /\ ~Judging
    BY <2>1 DEF Planning, Judging, Writing
  <2> QED
    BY <1>k, <1>r, <2>1, <2>2
<1>5. CASE Wait \/ PublishFails \/ NoReceipt \/ CallFails \/ PlanTrigger \/ SaveFails
  <2>1. Idle /\ UNCHANGED <<file, missed, pending>> /\ pc # "down"
    BY <1>5 DEF Wait, PublishFails, NoReceipt, CallFails, PlanTrigger, SaveFails,
      Planning, journalVars
  <2>2. pc' = "idle" /\ resolved' = {} /\ ~Writing("SubmitReorged")'
    BY <2>1 DEF Idle, Writing
  <2> QED
    BY <1>k, <2>1, <2>2
<1>6. CASE Crash \/ StopToResolve
  BY <1>6 DEF Crash, StopToResolve, Lost, WatchInv, PendingIsWatched, Writing
<1>7. CASE WriteFails
  <2>1. /\ pc = "append" /\ Idle /\ UNCHANGED pending
        /\ UNCHANGED <<file, missed>> \/ (Writes(writing) /\ missed' = missed \cup {Len(file) + 1})
    BY <1>7 DEF WriteFails, AppendFails, Writes
  <2>2. pc' = "idle" /\ resolved' = {} /\ ~Writing("SubmitReorged")'
    BY <2>1 DEF Idle, Writing
  <2>3. CASE UNCHANGED <<file, missed>>
    BY <1>k, <2>1, <2>2, <2>3
  <2>4. CASE Writes(writing) /\ missed' = missed \cup {Len(file) + 1}
    <3>1. writing \in Record /\ missed' # missed
      <4>1. /\ missed \subseteq DOMAIN file /\ DOMAIN file = 1..Len(file)
            /\ Len(file) \in Nat
        BY <1>t DEF JournalTypeOK
      <4>2. Len(file) + 1 \notin missed
        BY <4>1
      <4> QED
        BY <2>1, <2>4, <4>2 DEF OperatorTypeOK
    <3>2. PICK n : n = Len(file) + 1
      OBVIOUS
    <3>3. ASSUME NEW k \in Keys, NEW i \in Await(k)'
          PROVE  pending'[k] = At(i)'
      <4>1. i \in Await(k)
        BY <1>t, <2>4, <3>1, <3>2, <3>3, AwaitedAfter
      <4>2. file'[i] = file[i]
        <5>1. i \in DOMAIN file
          BY <4>1 DEF PendingSubmission, Of, Known
        <5> QED
          BY <1>t, <2>4, <5>1 DEF Writes, JournalTypeOK
      <4> QED
        BY <1>i, <2>1, <4>1, <4>2
    <3> QED
      BY <2>2, <3>3 DEF WatchInv, PendingIsWatched
  <2> QED
    BY <2>1, <2>3, <2>4
<1>8. CASE AppendDone
  <2>1. /\ pc = "append" /\ writing \in Record /\ writing.key = work /\ work \in Keys
        /\ Writes(writing) /\ UNCHANGED missed
    BY <1>8 DEF AppendDone, AppendRecord, Writes, OperatorTypeOK, OnlyOpen
  <2>2. PICK n : n = Len(file) + 1
    OBVIOUS
  <2>3. ASSUME NEW k \in Keys, NEW i \in Await(k)'
        PROVE  \/ i = n /\ work = k /\ writing.type = "SubmitPending"
               \/ /\ i \in Await(k) /\ file'[i] = file[i]
                  /\ ~(work = k /\ writing.type \in Endings)
                  /\ ~(work = k /\ writing.type = "SubmitReorged"
                       /\ writing.tx = file[i].tx)
    BY <1>t, <2>1, <2>2, AwaitedAfter
  <2>4. file'[n] = writing
    BY <1>t, <2>1, <2>2, AwaitedAfter
  <2>5. CASE writing.type \in {"Landed", "SubmitReorged"}
    <3>1. Judged(work, resolved \cup {work})
      BY <1>8, <2>5 DEF AppendDone
    <3>2. \A k \in Keys : \A i \in Await(k)' : pending[k] = At(i)'
      BY <1>i, <2>1, <2>3, <2>5
    <3>3. ASSUME NEW k, k = work, NEW i \in Await(k)' PROVE FALSE
      <4>1. i \in Await(k) /\ writing.type \notin Endings
            /\ ~(writing.type = "SubmitReorged" /\ writing.tx = file[i].tx)
        BY <2>1, <2>3, <2>5, <3>3
      <4>2. writing.type = "SubmitReorged"
        BY <2>5, <4>1 DEF Endings, Settlements
      <4>3. writing.tx = pending[k].tx /\ pending[k] = At(i)
        BY <1>i, <2>1, <3>3, <4>1, <4>2 DEF Writing
      <4> QED
        BY <4>1, <4>2, <4>3
    <3>4. \A k \in resolved \cup {work} : Await(k)' = {}
      <4> SUFFICES ASSUME NEW k \in resolved \cup {work}, NEW i \in Await(k)'
                   PROVE  FALSE
        OBVIOUS
      <4>1. CASE k = work
        BY <3>3, <4>1
      <4>2. CASE k # work
        BY <1>i, <1>t, <2>1, <2>3, <4>2
      <4> QED
        BY <4>1, <4>2
    <3> QED
      BY <1>j, <1>t, <2>1, <3>1, <3>2, <3>4
  <2>6. CASE writing.type \notin {"Landed", "SubmitReorged"}
    <3>1. resolved = {}
      BY <1>r, <2>1, <2>6 DEF Judging, Writing
    <3>2. /\ pc' # "settling" /\ resolved' = {} /\ ~Writing("SubmitReorged")'
      BY <1>8, <2>6, <3>1 DEF AppendDone, Goto, Idle, WriteLine, Line, Writing
    <3>3. pending' = IF writing.type = "SubmitPending"
                     THEN [pending EXCEPT ![work] = [tx |-> writing.tx,
                                                     block |-> writing.block]]
                     ELSE pending
      BY <1>8, <2>6 DEF AppendDone
    <3>4. ASSUME NEW k \in Keys, NEW i \in Await(k)'
          PROVE  pending'[k] = At(i)'
      <4>1. CASE i = n /\ work = k /\ writing.type = "SubmitPending"
        BY <1>t, <2>4, <3>3, <4>1
      <4>2. CASE /\ i \in Await(k) /\ file'[i] = file[i]
                 /\ ~(work = k /\ writing.type \in Endings)
        <5>1. pending[k] = At(i)
          BY <1>i, <2>1, <4>2
        <5>2. pending'[k] = pending[k]
          BY <1>t, <3>3, <4>2 DEF Endings
        <5> QED
          BY <4>2, <5>1, <5>2
      <4> QED
        BY <2>3, <3>4, <4>1, <4>2
    <3> QED
      BY <3>2, <3>4 DEF WatchInv, PendingIsWatched
  <2> QED
    BY <2>5, <2>6
<1>9. CASE Start
  <2>1. /\ pending' = [k \in Keys |-> Restored(k)] /\ pc' = "idle" /\ resolved' = {}
        /\ UNCHANGED file /\ missed' = {}
    BY <1>9 DEF Start, Open, Idle
  <2>2. ASSUME NEW k \in Keys, NEW i \in Await(k)'
        PROVE  pending'[k] = At(i)'
    <3> DEFINE w == PendingSubmission(k, OnDisk)
               c == CHOOSE j \in w : TRUE
    <3>1. i \in w
      BY <2>1, <2>2 DEF PendingSubmission, Of, LaterIn, Known, OnDisk
    <3>2. c \in w
      BY <3>1
    <3>3. Restored(k) = At(c)
      BY <3>1 DEF Restored
    <3> HIDE DEF w, c
    <3>4. c = i
      BY <1>t, <3>1, <3>2, OneAwaited DEF w
    <3> QED
      BY <2>1, <3>3, <3>4
  <2> QED
    BY <2>1, <2>2 DEF WatchInv, PendingIsWatched, Writing
<1>10. CASE \/ Repair \/ (\E k \in Keys : Resolve(k)) \/ TimePasses
            \/ BlockBuilt \/ TxMined \/ Others \/ ChainUpset
  <2>1. UNCHANGED <<pc, work, writing, pending, resolved>>
    BY <1>10 DEF Repair, Resolve, TimePasses, BlockBuilt, TxMined, Others,
      ChainUpset, Off, processVars
  <2>2. CASE pc = "down"
    <3>1. resolved = {}
      BY <1>r, <2>2 DEF Judging, Writing
    <3> QED
      BY <2>1, <2>2, <3>1 DEF WatchInv, PendingIsWatched, Writing
  <2>3. CASE pc # "down"
    <3>1. UNCHANGED <<file, missed>>
      BY <1>10, <2>3 DEF Repair, Resolve, TimePasses, WindowMoves, BlockBuilt, TxMined,
        Others, ChainUpset, Off, journalVars
    <3>2. \A k \in resolved : Await(k)' = {}
      BY <1>i, <3>1, SameAwaited
    <3> QED
      BY <1>i, <1>s, <2>1, <2>3, <3>1, <3>2
        DEF WatchInv, PendingIsWatched, Judging, Writing
  <2> QED
    BY <2>2, <2>3
<1> QED
  BY <1>1, <1>2, <1>3, <1>4, <1>5, <1>6, <1>7, <1>8, <1>9, <1>10
    DEF Next, Working

(***************************************************************************)
(* What was journaled as landed is final.                                  *)
(***************************************************************************)
\* A root too deep to be reorganised away.
Buried(k) ==
    \E r \in DOMAIN roots : roots[r].id = k /\ roots[r].age >= Confirmations

\* Accepted roots are of ever newer checkpoints, and a landed submission has
\* its root in the same block.
RootsAscend ==
    \A i, j \in DOMAIN roots : i < j => roots[i].id < roots[j].id
LandedHaveRoots ==
    \A t \in DOMAIN txs : txs[t].state = "landed" =>
        \E r \in DOMAIN roots :
            roots[r].id = txs[t].id /\ roots[r].age = txs[t].age
Grounded == RootsAscend /\ LandedHaveRoots

\* Submission t is one of checkpoint k.
Submits(t, k) == t \in DOMAIN txs /\ txs[t].id = k

LandInv ==
    /\ Grounded
    /\ \A k \in Keys : pending[k] # NoWatch => Submits(pending[k].tx, k)
    /\ \A i \in DOMAIN file :
         /\ file[i].type = "SubmitPending" => Submits(file[i].tx, file[i].key)
         /\ file[i].type = "Landed" => Buried(file[i].key)
    /\ Writing("SubmitPending") => Submits(writing.tx, writing.key)
    /\ Writing("Landed") => Buried(writing.key)
    /\ pc = "watching" => Submits(Len(txs), work)

\* No root is of a checkpoint newer than the applied one.
LEMMA AppliedIsNewest ==
    ASSUME roots \in Seq(Root), RootsAscend
    PROVE  \A r \in DOMAIN roots : roots[r].id \in Nat /\ roots[r].id <= Applied
<1> TAKE r \in DOMAIN roots
<1>1. /\ DOMAIN roots = 1..Len(roots) /\ Len(roots) \in Nat /\ roots # <<>>
      /\ \A i \in DOMAIN roots : roots[i] \in Root
  OBVIOUS
<1>2. \A i \in DOMAIN roots : roots[i].id \in Nat
  BY <1>1 DEF Root
<1>3. Len(roots) \in DOMAIN roots /\ (r = Len(roots) \/ r < Len(roots))
  BY <1>1
<1> QED
  BY <1>1, <1>2, <1>3 DEF RootsAscend, Applied

\* A block deeper, every root has its checkpoint and every submission its root.
LEMMA DeeperLands ==
    ASSUME ChainTypeOK
    PROVE  /\ \A r \in DOMAIN roots :
                /\ Deeper(roots)[r].id = roots[r].id
                /\ Deeper(roots)[r].age = Aged(roots[r])
                /\ roots[r].age \in Ages
           /\ DOMAIN Deeper(roots) = DOMAIN roots
           /\ DOMAIN DeeperTxs = DOMAIN txs
           /\ \A t \in DOMAIN txs :
                /\ DeeperTxs[t].id = txs[t].id /\ DeeperTxs[t].state = txs[t].state
                /\ txs[t].state = "landed" => DeeperTxs[t].age = Aged(txs[t])
<1>1. /\ \A r \in DOMAIN roots : roots[r] \in Root
      /\ \A t \in DOMAIN txs : txs[t] \in Tx
  BY DEF ChainTypeOK
<1>2. ASSUME NEW r \in DOMAIN roots
      PROVE  /\ Deeper(roots)[r].id = roots[r].id
             /\ Deeper(roots)[r].age = Aged(roots[r])
             /\ roots[r].age \in Ages
  <2>1. Deeper(roots)[r] = [roots[r] EXCEPT !.age = Aged(roots[r])]
    BY DEF Deeper, Aged
  <2> QED
    BY <1>1, <2>1 DEF Root
<1>3. ASSUME NEW t \in DOMAIN txs
      PROVE  /\ DeeperTxs[t].id = txs[t].id /\ DeeperTxs[t].state = txs[t].state
             /\ txs[t].state = "landed" => DeeperTxs[t].age = Aged(txs[t])
  <2>1. Deeper(txs)[t] = [txs[t] EXCEPT !.age = Aged(txs[t])]
    BY DEF Deeper, Aged
  <2>2. DeeperTxs[t] = IF Mined(txs[t]) THEN Deeper(txs)[t] ELSE txs[t]
    BY DEF DeeperTxs
  <2> QED
    BY <1>1, <2>1, <2>2 DEF Tx, Mined
<1> QED
  BY <1>2, <1>3 DEF Deeper, DeeperTxs

\* A new block on top: every event ages, and the block may hold a newer root.
LEMMA BlockLands ==
    ASSUME ChainTypeOK, Grounded, NEW k \in Nat,
           \/ roots' = Deeper(roots)
           \/ roots' = Append(Deeper(roots), [id |-> k, age |-> 0]) /\ ~Stale(k)
    PROVE  /\ RootsAscend' /\ \A id : Buried(id) => Buried(id)'
           /\ \A r \in DOMAIN roots :
                r \in DOMAIN roots' /\ roots'[r].id = roots[r].id
                /\ roots'[r].age = Aged(roots[r])
           /\ roots' # Deeper(roots) =>
                \E r \in DOMAIN roots' : roots'[r].id = k /\ roots'[r].age = 0
<1> DEFINE d == Deeper(roots)
           new == [id |-> k, age |-> 0]
<1>t. roots \in Seq(Root) /\ Confirmations \in Nat /\ Applied \in Int
  <2>1. roots \in Seq(Root)
    BY DEF ChainTypeOK
  <2>2. roots # <<>> => roots[Len(roots)] \in Root
    BY <2>1
  <2> QED
    BY <2>1, <2>2, ChainAssumption DEF Applied, Root
<1>1. /\ d \in Seq(Root) /\ DOMAIN d = DOMAIN roots
      /\ \A r \in DOMAIN roots : /\ d[r].id = roots[r].id
                                 /\ d[r].age = Aged(roots[r])
                                 /\ roots[r].age \in Ages
  BY <1>t, DeeperRoots, DeeperLands
<1>2. DOMAIN roots = 1..Len(roots) /\ Len(roots) \in Nat /\ Len(d) = Len(roots)
  BY <1>t, <1>1
<1>3. \A r \in DOMAIN roots : roots[r].id \in Nat /\ roots[r].id <= Applied
  BY <1>t, AppliedIsNewest DEF Grounded
<1>4. \A r \in DOMAIN roots : Aged(roots[r]) \in Ages /\ Aged(roots[r]) >= roots[r].age
  BY <1>t, <1>1, AgedIsAge
<1> HIDE DEF d, new
<1>5. \A r \in DOMAIN roots : r \in DOMAIN roots' /\ roots'[r] = d[r]
  BY <1>1, <1>2 DEF d, new
<1>6. \A r \in DOMAIN roots' \ DOMAIN roots :
        r = Len(roots) + 1 /\ roots'[r] = new /\ ~Stale(k)
  BY <1>1, <1>2 DEF d, new
<1>7. RootsAscend'
  <2> SUFFICES ASSUME NEW i \in DOMAIN roots', NEW j \in DOMAIN roots', i < j
               PROVE  roots'[i].id < roots'[j].id
    BY DEF RootsAscend
  <2>1. CASE j \in DOMAIN roots
    <3>1. i \in DOMAIN roots
      BY <1>2, <1>6, <2>1
    <3> QED
      BY <1>1, <1>5, <2>1, <3>1 DEF Grounded, RootsAscend
  <2>2. CASE j \notin DOMAIN roots
    <3>1. i \in DOMAIN roots
      BY <1>6, <2>2
    <3>2. roots'[j].id = k /\ ~(k <= Applied)
      BY <1>6, <2>2 DEF new, Stale
    <3>3. roots'[i].id = roots[i].id /\ roots[i].id <= Applied /\ roots[i].id \in Nat
      BY <1>1, <1>3, <1>5, <3>1
    <3> QED
      BY <1>t, <3>2, <3>3
  <2> QED
    BY <2>1, <2>2
<1>8. ASSUME NEW id, Buried(id) PROVE Buried(id)'
  <2>1. PICK r \in DOMAIN roots : roots[r].id = id /\ roots[r].age >= Confirmations
    BY <1>8 DEF Buried
  <2>2. roots'[r].id = id /\ roots'[r].age = Aged(roots[r]) /\ r \in DOMAIN roots'
    BY <1>1, <1>5, <2>1
  <2>3. Aged(roots[r]) >= Confirmations
    BY <1>1, <1>4, <1>t, <2>1 DEF Ages
  <2> QED
    BY <2>2, <2>3 DEF Buried
<1>9. ASSUME roots' # d PROVE \E r \in DOMAIN roots' : roots'[r].id = k /\ roots'[r].age = 0
  <2>1. roots' = Append(d, new) /\ d \in Seq(Root)
    BY <1>1, <1>9 DEF d, new
  <2>2. Len(d) + 1 \in DOMAIN roots' /\ roots'[Len(d) + 1] = new
    BY <1>2, <2>1
  <2> QED
    BY <2>2 DEF new
<1> QED
  BY <1>1, <1>5, <1>7, <1>8, <1>9 DEF d

\* Every step of the chain keeps roots ascending, submissions with their roots
\* and buried roots buried.
LEMMA GroundedStep ==
    ASSUME ChainTypeOK, Grounded, ChainStep
    PROVE  Grounded' /\ \A id : Buried(id) => Buried(id)'
<1>t. /\ roots \in Seq(Root) /\ txs \in Seq(Tx) /\ Confirmations \in Nat
      /\ \A t \in DOMAIN txs : txs[t] \in Tx
      /\ \A r \in DOMAIN roots : roots[r] \in Root
  BY ChainAssumption DEF ChainTypeOK
<1>d. /\ DOMAIN DeeperTxs = DOMAIN txs
      /\ \A t \in DOMAIN txs :
           /\ DeeperTxs[t].id = txs[t].id /\ DeeperTxs[t].state = txs[t].state
           /\ txs[t].state = "landed" => DeeperTxs[t].age = Aged(txs[t])
  BY DeeperLands
\* A submission that had landed keeps its root when both age.
<1>a. ASSUME NEW t \in DOMAIN txs, txs[t].state = "landed", t \in DOMAIN txs',
             txs'[t] = DeeperTxs[t],
             \A r \in DOMAIN roots :
                r \in DOMAIN roots' /\ roots'[r].id = roots[r].id
                /\ roots'[r].age = Aged(roots[r])
      PROVE  \E r \in DOMAIN roots' : roots'[r].id = txs'[t].id /\ roots'[r].age = txs'[t].age
  <2>1. PICK r \in DOMAIN roots : roots[r].id = txs[t].id /\ roots[r].age = txs[t].age
    BY <1>a DEF Grounded, LandedHaveRoots
  <2>2. Aged(roots[r]) = Aged(txs[t])
    BY <2>1 DEF Aged
  <2> QED
    BY <1>a, <1>d, <2>1, <2>2
<1>b. ASSUME NEW k \in Nat, txs' = DeeperTxs,
             \/ roots' = Deeper(roots)
             \/ roots' = Append(Deeper(roots), [id |-> k, age |-> 0]) /\ ~Stale(k)
      PROVE  Grounded' /\ \A id : Buried(id) => Buried(id)'
  <2>1. /\ RootsAscend' /\ \A id : Buried(id) => Buried(id)'
        /\ \A r \in DOMAIN roots :
             r \in DOMAIN roots' /\ roots'[r].id = roots[r].id
             /\ roots'[r].age = Aged(roots[r])
    BY <1>b, BlockLands
  <2>2. LandedHaveRoots'
    BY <1>a, <1>b, <1>d, <2>1 DEF LandedHaveRoots
  <2> QED
    BY <2>1, <2>2 DEF Grounded
\* No block was built or lost.
<1>u. ASSUME UNCHANGED roots,
             \A t \in DOMAIN txs' : txs'[t].state = "landed" =>
                t \in DOMAIN txs /\ txs'[t] = txs[t]
      PROVE  Grounded' /\ \A id : Buried(id) => Buried(id)'
  BY <1>u DEF Grounded, RootsAscend, LandedHaveRoots, Buried
<1>1. CASE Freeze \/ EmptyBlock
  BY <1>1, <1>b DEF Freeze, EmptyBlock
<1>2. CASE Attest \/ Refuse \/ Accept \/ UNCHANGED chainVars
  BY <1>2, <1>u DEF Attest, Refuse, Accept, chainVars
<1>3. CASE DropPool
  <2>1. /\ UNCHANGED roots /\ DOMAIN txs' = DOMAIN txs
        /\ \A t \in DOMAIN txs :
             txs'[t] = txs[t] \/ txs'[t] = [txs[t] EXCEPT !.state = "dropped"]
    BY <1>3 DEF DropPool
  <2>2. \A t \in DOMAIN txs : txs'[t].state = "landed" => txs'[t] = txs[t]
    BY <1>t, <2>1 DEF Tx
  <2> QED
    BY <1>u, <2>1, <2>2
<1>4. CASE \E id \in Keys : OtherLands(id)
  <2>1. PICK id \in Keys : OtherLands(id)
    BY <1>4
  <2>2. id \in Nat
    BY OperatorAssumption
  <2> QED
    BY <1>b, <2>1, <2>2 DEF OtherLands
<1>5. CASE \E i \in DOMAIN txs : Include(i)
  <2>1. PICK i \in DOMAIN txs : Include(i)
    BY <1>5
  <2>2. PICK k : k = txs[i].id
    OBVIOUS
  <2>3. k \in Nat
    BY <1>t, <2>2 DEF Tx
  <2> DEFINE ok == Accepts(txs[i].id, txs[i].proof)
             s == IF ok THEN "landed" ELSE "reverted"
  <2>4. /\ txs' = [DeeperTxs EXCEPT ![i] = [@ EXCEPT !.state = s, !.age = 0,
                                                     !.block = blocks']]
        /\ roots' = IF ok THEN Append(Deeper(roots), [id |-> txs[i].id, age |-> 0])
                    ELSE Deeper(roots)
        /\ ok => ~Stale(txs[i].id)
    BY <2>1 DEF Include, Accepts
  <2>5. /\ RootsAscend' /\ \A id : Buried(id) => Buried(id)'
        /\ \A r \in DOMAIN roots :
             r \in DOMAIN roots' /\ roots'[r].id = roots[r].id
             /\ roots'[r].age = Aged(roots[r])
        /\ roots' # Deeper(roots) =>
             \E r \in DOMAIN roots' : roots'[r].id = k /\ roots'[r].age = 0
    BY <2>2, <2>3, <2>4, BlockLands
  <2>6. /\ DOMAIN txs' = DOMAIN txs
        /\ txs'[i] = [DeeperTxs[i] EXCEPT !.state = s, !.age = 0, !.block = blocks']
        /\ \A t \in DOMAIN txs : t # i => txs'[t] = DeeperTxs[t]
    BY <1>d, <2>4
  <2>7. DeeperTxs[i] \in Tx /\ DeeperTxs[i].id = k
    BY <1>t, <1>d, <2>2, DeeperSubmissions
  <2>8. txs'[i].id = k /\ txs'[i].state = s /\ txs'[i].age = 0
    BY <2>6, <2>7 DEF Tx
  <2>9. ok => roots' # Deeper(roots)
    <3>1. Deeper(roots) \in Seq(Root)
      BY <1>t, DeeperRoots
    <3>2. ok => Len(roots') = Len(Deeper(roots)) + 1
      BY <2>4, <3>1
    <3> QED
      BY <3>1, <3>2
  <2>10. ASSUME NEW t \in DOMAIN txs', txs'[t].state = "landed"
         PROVE  \E r \in DOMAIN roots' :
                  roots'[r].id = txs'[t].id /\ roots'[r].age = txs'[t].age
    <3>1. CASE t = i
      BY <2>5, <2>8, <2>9, <2>10, <3>1
    <3>2. CASE t # i
      <4>1. t \in DOMAIN txs /\ txs'[t] = DeeperTxs[t] /\ txs[t].state = "landed"
        BY <1>d, <2>6, <2>10, <3>2
      <4> QED
        BY <1>a, <2>5, <2>10, <4>1
    <3> QED
      BY <3>1, <3>2
  <2> QED
    BY <2>5, <2>10 DEF Grounded, LandedHaveRoots
<1>6. CASE \E d \in 1..ReorgDepth : Reorg(d)
  <2>1. PICK d \in 1..ReorgDepth : Reorg(d)
    BY <1>6
  <2>2. d \in Nat /\ d <= Confirmations
    BY <2>1, ChainAssumption
  <2>3. roots' \in Survivors(roots, d)
    BY <2>1 DEF Reorg
  <2>4. /\ DOMAIN roots' \subseteq DOMAIN roots
        /\ \A r \in DOMAIN roots' : roots'[r] = roots[r]
        /\ \A r \in DOMAIN roots : roots[r].age >= d => r \in DOMAIN roots'
    BY <1>t, <2>2, <2>3, SurvivorsArePrefix
  <2>5. RootsAscend'
    BY <2>4 DEF Grounded, RootsAscend
  <2>6. ASSUME NEW t \in DOMAIN txs', txs'[t].state = "landed"
        PROVE  \E r \in DOMAIN roots' :
                 roots'[r].id = txs'[t].id /\ roots'[r].age = txs'[t].age
    <3>1. t \in DOMAIN txs
          /\ txs'[t] = IF Mined(txs[t]) /\ txs[t].age < d
                       THEN [txs[t] EXCEPT !.state = "pool", !.age = 0, !.block = 0]
                       ELSE txs[t]
      BY <2>1, <2>6 DEF Reorg
    <3>2. ~(Mined(txs[t]) /\ txs[t].age < d)
      BY <1>t, <2>6, <3>1 DEF Tx
    <3>3. txs'[t] = txs[t] /\ txs[t].state = "landed" /\ txs[t].age \in Ages
      BY <1>t, <2>6, <3>1, <3>2 DEF Tx
    <3>4. txs[t].age >= d
      BY <1>t, <2>2, <3>2, <3>3 DEF Mined, Ages
    <3>5. PICK r \in DOMAIN roots : roots[r].id = txs[t].id /\ roots[r].age = txs[t].age
      BY <3>1, <3>3 DEF Grounded, LandedHaveRoots
    <3> QED
      BY <2>4, <3>3, <3>4, <3>5
  <2>7. ASSUME NEW id, Buried(id) PROVE Buried(id)'
    <3>1. PICK r \in DOMAIN roots : roots[r].id = id /\ roots[r].age >= Confirmations
      BY <2>7 DEF Buried
    <3>2. roots[r].age \in Ages
      BY <1>t DEF Root
    <3>3. roots[r].age >= d
      BY <1>t, <2>2, <3>1, <3>2 DEF Ages
    <3> QED
      BY <2>4, <3>1, <3>3 DEF Buried
  <2> QED
    BY <2>5, <2>6, <2>7 DEF Grounded, LandedHaveRoots
<1>7. CASE \E id \in Keys, b \in Int : Broadcast(id, b)
  <2>1. PICK id \in Keys, b \in Int : Broadcast(id, b)
    BY <1>7
  <2> DEFINE new == [id |-> id, proof |-> b, state |-> "pool", age |-> 0, block |-> 0]
  <2>2. txs' = Append(txs, new) /\ UNCHANGED roots
    BY <2>1 DEF Broadcast
  <2>3. new.state # "landed"
    OBVIOUS
  <2> HIDE DEF new
  <2>4. \A t \in DOMAIN txs' :
          (t \in DOMAIN txs /\ txs'[t] = txs[t]) \/ txs'[t] = new
    BY <1>t, <2>2
  <2> QED
    BY <1>u, <2>2, <2>3, <2>4
<1> QED
  BY <1>1, <1>2, <1>3, <1>4, <1>5, <1>6, <1>7 DEF ChainStep

\* How the process comes to write what it sent, and to what it calls landed.
LandPhases ==
    /\ Writing("SubmitPending")' => UNCHANGED <<pc, work, writing>> \/ Receipt
    /\ Writing("Landed")' => UNCHANGED <<pc, work, writing>> \/ Judge
    /\ pc' = "watching" => UNCHANGED <<pc, work>> \/ Send

\* Only a receipt, a judgement and a broadcast lead there.
LEMMA LandPhaseSteps ==
    ASSUME OperatorTypeOK, Busy, Next
    PROVE  LandPhases
<1> USE DEF LandPhases, Writing
<1>i. ASSUME pc' \in {"idle", "down", "settling", "planning", "requesting", "awaiting",
                      "saving", "publishing", "sending"}
      PROVE  LandPhases
  BY <1>i
<1>l. ASSUME NEW r, WriteLine(r), r.type \notin {"SubmitPending", "Landed"}
      PROVE  LandPhases
  BY <1>l DEF WriteLine
<1>1. CASE Judge \/ Receipt \/ Send
  BY <1>1, <1>i DEF Judge, Receipt, Send, Goto, WriteLine, Line, TxLine, Judged
<1>2. CASE StartTick \/ Wait \/ Request \/ SaveHeld \/ PublishFails \/ NoReceipt
           \/ CallFails \/ WriteFails \/ PlanTrigger \/ SaveFails \/ Crash
           \/ StopToResolve \/ Start \/ \E k \in Keys : PlanPublish(k)
  BY <1>2, <1>i DEF StartTick, Wait, Request, SaveHeld, PublishFails, NoReceipt,
    CallFails, WriteFails, PlanTrigger, SaveFails, Crash, StopToResolve, Start,
    PlanPublish, Idle, Lost, Goto
<1>3. CASE ProofArrives \/ SendReverts \/ PublishSucceeds
  BY <1>3, <1>l DEF ProofArrives, SendReverts, PublishSucceeds,
    Line, TxLine
<1>4. CASE \E k \in Keys : PlanSubmit(k) \/ PlanProve(k)
  BY <1>4, <1>i, <1>l DEF PlanSubmit, PlanProve, Line, TxLine
<1>5. CASE AppendDone
  <2>1. \/ pc' \in {"requesting", "saving", "idle", "settling", "planning"}
        \/ WriteLine(Line("Abandoned", work))
    BY <1>5 DEF AppendDone, Goto, Idle, Judged
  <2> QED
    BY <1>i, <1>l, <2>1 DEF Line
<1>6. CASE \/ Repair \/ (\E k \in Keys : Resolve(k)) \/ TimePasses
           \/ BlockBuilt \/ TxMined \/ Others \/ ChainUpset
  BY <1>6 DEF Repair, Resolve, TimePasses, BlockBuilt, TxMined, Others,
    ChainUpset, Off, processVars
<1> QED
  BY <1>1, <1>2, <1>3, <1>4, <1>5, <1>6 DEF Next, Working, Plan

\* A watch is kept, given up, taken for the line just written, or restored.
LEMMA WatchMoves ==
    ASSUME OperatorTypeOK, Busy, Next, NEW k \in Keys
    PROVE  \/ pending'[k] \in {pending[k], NoWatch}
           \/ Writing("SubmitPending") /\ k = work /\ pending'[k].tx = writing.tx
           \/ Start /\ pending'[k] = Restored(k)
<1>t. pending \in [Keys -> [tx : Nat, block : Nat]]
  BY DEF OperatorTypeOK
<1>j. ASSUME NEW j, NEW done, Judged(j, done)
      PROVE  pending'[k] \in {pending[k], NoWatch}
  BY <1>j DEF Judged
<1>1. CASE Judge
  BY <1>1, <1>j DEF Judge
<1>2. CASE AppendDone
  <2>1. CASE writing.type = "SubmitPending"
    BY <1>2, <1>t, <2>1 DEF AppendDone, Writing
  <2>2. CASE writing.type # "SubmitPending"
    <3>1. UNCHANGED pending \/ Judged(work, resolved \cup {work})
      BY <1>2, <2>2 DEF AppendDone
    <3> QED
      BY <1>j, <3>1
  <2> QED
    BY <2>1, <2>2
<1>3. CASE Crash \/ StopToResolve
  BY <1>3 DEF Crash, StopToResolve, Lost
<1>4. CASE Start
  BY <1>4 DEF Start
<1>5. CASE ~Judge /\ ~AppendDone /\ ~Crash /\ ~StopToResolve /\ ~Start
  BY <1>5 DEF Next, Working, Plan, StartTick, Wait, Request, ProofArrives,
    PublishFails, Send, SendReverts, Receipt, SaveHeld, SaveFails,
    NoReceipt, PlanPublish, PlanSubmit, PlanProve, PlanTrigger, PublishSucceeds,
    CallFails, WriteFails, Repair, Resolve, BlockBuilt, TxMined, Others,
    ChainUpset, TimePasses, Off, processVars
<1> QED
  BY <1>1, <1>2, <1>3, <1>4, <1>5

\* LandInv is inductive.
LEMMA LandStep ==
    ASSUME OperatorTypeOK, Busy, OnlyOpen, WatchInv, LandInv, Next
    PROVE  LandInv'
<1>t. /\ JournalTypeOK /\ ChainTypeOK /\ txs \in Seq(Tx) /\ file \in Seq(Record)
      /\ pc = "append" => writing.key = work /\ work \in Keys
      /\ pc = "settling" => work \in Keys
  BY DEF OperatorTypeOK, ChainTypeOK, JournalTypeOK, OnlyOpen, Busy
<1>g. /\ TxsGrow /\ ChainStep /\ ChainTypeOK'
      /\ Grounded' /\ \A k : Buried(k) => Buried(k)'
  BY StepParts, ChainSteps, GroundedStep DEF OperatorTypeOK, LandInv
<1>s. \A t, k : Submits(t, k) => Submits(t, k)'
  BY <1>g DEF Submits, TxsGrow
<1>p. LandPhases
  BY LandPhaseSteps
<1>1. ASSUME NEW k \in Keys, pending'[k] # NoWatch, NEW t, t = pending'[k].tx
      PROVE  Submits(t, k)'
  <2>1. CASE pending'[k] = pending[k]
    <3>1. Submits(t, k)
      BY <1>1, <2>1 DEF LandInv
    <3> QED
      BY <1>s, <3>1
  <2>2. CASE Writing("SubmitPending") /\ k = work /\ pending'[k].tx = writing.tx
    <3>1. Submits(t, k)
      BY <1>1, <1>t, <2>2 DEF LandInv, Writing
    <3> QED
      BY <1>s, <3>1
  <2>3. CASE Start /\ pending'[k] = Restored(k)
    <3> DEFINE w == PendingSubmission(k, OnDisk)
               i == CHOOSE j \in w : TRUE
    <3>1. w # {} /\ Restored(k) = [tx |-> file[i].tx, block |-> file[i].block]
      BY <1>1, <2>3 DEF Restored
    <3>2. i \in w
      BY <3>1
    <3> HIDE DEF i
    <3>3. i \in DOMAIN file /\ file[i].type = "SubmitPending" /\ file[i].key = k
      BY <3>2 DEF PendingSubmission, Of, OnDisk
    <3>4. Submits(t, k)
      BY <1>1, <2>3, <3>1, <3>3 DEF LandInv
    <3> QED
      BY <1>s, <3>4
  <2> QED
    BY <1>1, <2>1, <2>2, <2>3, WatchMoves
<1>2. ASSUME NEW i \in DOMAIN file', NEW r, r = file'[i]
      PROVE  /\ r.type = "SubmitPending" => Submits(r.tx, r.key)'
             /\ r.type = "Landed" => Buried(r.key)'
  <2>1. \/ i \in DOMAIN file /\ r = file[i]
        \/ pc = "append" /\ r = writing
        \/ r.type \in Resolutions
    <3>1. CASE UNCHANGED file
      BY <1>2, <3>1
    <3>2. CASE \E q \in Record : /\ Writes(q)
                                 /\ (pc = "append" /\ q = writing) \/ ByHand(q)
      BY <1>2, <1>t, <3>2 DEF Writes, ByHand
    <3> QED
      BY <3>1, <3>2, JournalMoves DEF JournalMove
  <2>2. /\ r.type = "SubmitPending" => Submits(r.tx, r.key)
        /\ r.type = "Landed" => Buried(r.key)
    BY <2>1 DEF LandInv, Writing, Resolutions
  <2> QED
    BY <1>g, <1>s, <2>2
<1>3. ASSUME Writing("SubmitPending")', NEW t, t = writing'.tx, NEW k, k = writing'.key
      PROVE  Submits(t, k)'
  <2>1. CASE UNCHANGED <<pc, work, writing>>
    <3>1. Submits(t, k)
      BY <1>3, <2>1 DEF LandInv, Writing
    <3> QED
      BY <1>s, <3>1
  <2>2. CASE Receipt
    <3>1. pc = "watching" /\ t = Len(txs) /\ k = work
      BY <1>3, <2>2 DEF Receipt, Sent, Writing, WriteLine, Line, TxLine
    <3>2. Submits(t, k)
      BY <3>1 DEF LandInv
    <3> QED
      BY <1>s, <3>2
  <2> QED
    BY <1>3, <1>p, <2>1, <2>2 DEF LandPhases
<1>4. ASSUME Writing("Landed")', NEW k, k = writing'.key
      PROVE  Buried(k)'
  <2>1. CASE UNCHANGED <<pc, work, writing>>
    <3>1. Buried(k)
      BY <1>4, <2>1 DEF LandInv, Writing
    <3> QED
      BY <1>g, <3>1
  <2>2. CASE Judge
    <3>1. pc = "settling" /\ work \in Keys /\ k = work /\ Final(pending[k])
      BY <1>t, <1>4, <2>2 DEF Judge, Writing, WriteLine, Line, TxLine, Judged
    <3>2. PICK t : t = pending[k].tx
      OBVIOUS
    <3>3. Submits(t, k)
      BY <3>1, <3>2 DEF WatchInv, LandInv
    <3>4. txs[t].state = "landed" /\ txs[t].age >= Confirmations
      BY <3>1, <3>2 DEF Final, Replaced
    <3>5. PICK r \in DOMAIN roots :
            roots[r].id = txs[t].id /\ roots[r].age = txs[t].age
      BY <3>3, <3>4 DEF LandInv, Grounded, LandedHaveRoots, Submits
    <3>6. Buried(k)
      BY <3>3, <3>4, <3>5 DEF Buried, Submits
    <3> QED
      BY <1>g, <3>6
  <2> QED
    BY <1>4, <1>p, <2>1, <2>2 DEF LandPhases
<1>5. ASSUME pc' = "watching", NEW t, t = Len(txs'), NEW k, k = work'
      PROVE  Submits(t, k)'
  <2>1. CASE UNCHANGED <<pc, work>> /\ ~Send
    <3>1. DOMAIN txs' = DOMAIN txs
      BY <2>1, OnlySendSends
    <3>2. txs' \in Seq(Tx)
      BY <1>g DEF ChainTypeOK
    <3>3. t = Len(txs)
      BY <1>t, <1>5, <3>1, <3>2
    <3>4. Submits(t, k)
      BY <1>5, <2>1, <3>3 DEF LandInv
    <3> QED
      BY <1>s, <3>4
  <2>2. CASE Send
    <3>1. /\ k = work
          /\ txs' = Append(txs, [id |-> work, proof |-> held[work], state |-> "pool",
                                 age |-> 0, block |-> 0])
      BY <1>5, <2>2 DEF Send, Broadcast
    <3> QED
      BY <1>t, <1>5, <3>1 DEF Submits
  <2> QED
    BY <1>5, <1>p, <2>1, <2>2 DEF LandPhases
<1> QED
  BY <1>g, <1>1, <1>2, <1>3, <1>4, <1>5 DEF LandInv, Writing, Submits, Buried

(***************************************************************************)
(* Theorems.                                                               *)
(***************************************************************************)
OperatorInv ==
    /\ OperatorTypeOK /\ Busy
    /\ Purchases /\ Asking /\ Depth /\ Shown
    /\ StatusInv /\ WatchInv /\ LandInv

\* The initial state satisfies the invariant.
LEMMA OperatorInit == Init => OperatorInv
<1> SUFFICES ASSUME Init PROVE OperatorInv
  OBVIOUS
<1> USE DEF Init, JournalInit, ChainInit
<1>1. OperatorTypeOK
  <2>1. JournalTypeOK
    <3>1. file \in Seq(Record) /\ missed \subseteq DOMAIN file /\ aged \in Nat
      OBVIOUS
    <3>2. torn \in BOOLEAN
      OBVIOUS
    <3> QED
      BY <3>1, <3>2 DEF JournalTypeOK
  <2>2. ChainTypeOK
    BY ChainAssumption DEF ChainTypeOK
  <2>3. /\ pending \in [Keys -> [tx : Nat, block : Nat]]
        /\ held \in [Keys -> Int] /\ bought \in [Keys -> Nat]
    BY DEF NoWatch, NoProof
  <2>4. faults \in 0..MaxFaults /\ upsets \in 0..MaxUpsets
    BY OperatorAssumption
  <2> QED
    BY <2>1, <2>2, <2>3, <2>4 DEF OperatorTypeOK, Phases
<1>2. Busy /\ Purchases /\ Asking
  BY DEF Busy, Purchases, Asking, Writing
<1>3. Depth
  BY DEF Depth, Writing, Held
<1>4. Shown
  BY DEF Shown, PublishedBeforeSent
<1>5. StatusInv
  BY DEF StatusInv, OnlyOpen, OpenPhases, SettledLast, Quit, Of, Known
<1>6. WatchInv
  BY DEF WatchInv, PendingIsWatched, Writing
<1>7. LandInv
  BY DEF LandInv, Grounded, RootsAscend, LandedHaveRoots, Writing
<1> QED
  BY <1>1, <1>2, <1>3, <1>4, <1>5, <1>6, <1>7 DEF OperatorInv

\* Every step keeps it.
LEMMA OperatorStep == OperatorInv /\ [Next]_vars => OperatorInv'
<1> SUFFICES ASSUME OperatorInv, [Next]_vars PROVE OperatorInv'
  OBVIOUS
<1>1. CASE Next
  <2>1. OnlyOpen
    BY DEF OperatorInv, StatusInv
  <2> QED
    BY <1>1, <2>1, TypeStep, PurchasesStep, DepthStep, ShownStep, StatusStep,
      WatchStep, LandStep DEF OperatorInv
<1>2. CASE UNCHANGED vars
  <2>1. OperatorTypeOK' /\ Busy'
    BY TypeStep DEF OperatorInv
  <2>2. Purchases' /\ Asking'
    BY <1>2 DEF OperatorInv, Purchases, Asking, Certified, Of, Known, Writing,
      vars, journalVars, processVars
  <2>3. Depth'
    BY <1>2 DEF OperatorInv, Depth, Solid, Held, Writing, vars, journalVars,
      chainVars, processVars
  <2>4. Shown'
    BY <1>2 DEF OperatorInv, Shown, PublishedBeforeSent, PublicationSatisfied,
      Of, OnDisk, vars, journalVars, chainVars, processVars
  <2>5. StatusInv'
    BY <1>2 DEF OperatorInv, StatusInv, OnlyOpen, StillOpen, SettledLast, Quit,
      Of, LaterIn, Known, OnDisk, vars, journalVars, processVars
  <2>6. WatchInv'
    BY <1>2 DEF OperatorInv, WatchInv, PendingIsWatched, PendingSubmission, Judging,
      Of, LaterIn, Known, Writing, vars, journalVars, processVars
  <2>7. LandInv'
    BY <1>2 DEF OperatorInv, LandInv, Grounded, RootsAscend, LandedHaveRoots,
      Submits, Buried, Writing, vars, journalVars, chainVars, processVars
  <2> QED
    BY <2>1, <2>2, <2>3, <2>4, <2>5, <2>6, <2>7 DEF OperatorInv
<1> QED
  BY <1>1, <1>2

\* The invariant holds of every behaviour.
LEMMA OperatorAlways == Spec => []OperatorInv
  BY OperatorInit, OperatorStep, PTL DEF Spec

\* The state is what its comments say it is.
THEOREM OperatorTyped == Spec => []OperatorTypeOK
<1>1. OperatorInv => OperatorTypeOK
  BY DEF OperatorInv
<1> QED
  BY <1>1, OperatorAlways, PTL

\* journal.rs: whatever crashes, fails, is reorganised away or is resolved by
\* hand, no checkpoint is proved twice at the operator's cost.
THEOREM NeverBuysTwice == Spec => []BuysOnce
<1>1. OperatorInv => BuysOnce
  BY DEF OperatorInv, Purchases, BuysOnce
<1> QED
  BY <1>1, OperatorAlways, PTL

\* decide.rs prove_or_wait(): a proof the operator holds is of a checkpoint the
\* chain has, as long as reorganisations are no deeper than the confirmations.
THEOREM ProofsStayOfTheChain == Spec => []ProofsAreOfTheChain
<1>1. OperatorInv => ProofsAreOfTheChain
  BY DEF OperatorInv, Depth, Solid, ProofsAreOfTheChain
<1> QED
  BY <1>1, OperatorAlways, PTL

\* run.rs: no root of the operator's is sent before its scores are published.
THEOREM AlwaysPublishedBeforeSent == Spec => []PublishedBeforeSent
<1>1. OperatorInv => PublishedBeforeSent
  BY DEF OperatorInv, Shown
<1> QED
  BY <1>1, OperatorAlways, PTL

\* run.rs: a submission the process knows to await finality is in its watch
\* list, so no settle pass and no restart forgets one.
THEOREM PendingIsAlwaysWatched == Spec => []PendingIsWatched
<1>1. OperatorInv => PendingIsWatched
  BY DEF OperatorInv, WatchInv
<1> QED
  BY <1>1, OperatorAlways, PTL

\* finality.rs: what the journal calls landed is under the applied root for good,
\* as long as reorganisations are no deeper than the confirmations.
THEOREM LandedStaysFinal == Spec => []LandedIsFinal
<1>1. OperatorInv => LandedIsFinal
  <2> SUFFICES ASSUME OperatorInv, NEW i \in OnDisk, file[i].type = "Landed"
               PROVE  file[i].key <= Applied
    BY DEF LandedIsFinal
  <2>1. Buried(file[i].key) /\ RootsAscend /\ roots \in Seq(Root)
    BY DEF OperatorInv, OperatorTypeOK, ChainTypeOK, LandInv, Grounded, OnDisk
  <2> QED
    BY <2>1, AppliedIsNewest DEF Buried
<1> QED
  BY <1>1, OperatorAlways, PTL

\* What status() answers is what the invariant says of the last lines.
StatusMeans ==
    \A k \in Keys : /\ Settled(k, Known) <=> SettledLast(k, Known)
                    /\ Abandoned(k, Known) <=> Quit(k, Known)

\* journal.rs status(): no line and no restart makes the process take a settled
\* checkpoint for an open one, or an abandoned one for anything but settled.
THEOREM TerminalStaysTerminal == Spec => TerminalIsTerminal
<1>1. OperatorInv => StatusMeans
  <2> SUFFICES ASSUME OperatorInv PROVE StatusMeans
    OBVIOUS
  <2>1. JournalTypeOK /\ Known \in SUBSET DOMAIN file
    BY DEF OperatorInv, OperatorTypeOK, Known
  <2> QED
    BY <2>1, SettledMeans, QuitMeans DEF StatusMeans
<1>2. OperatorInv /\ StatusMeans /\ StatusMeans' /\ [Next]_vars => [TerminalStays]_vars
  <2> SUFFICES ASSUME OperatorInv, StatusMeans, StatusMeans', Next
               PROVE  TerminalStays
    OBVIOUS
  <2>1. DoneStays
    BY DoneStep DEF OperatorInv
  <2> QED
    BY <2>1 DEF TerminalStays, DoneStays, StatusMeans
<1> QED
  BY <1>1, <1>2, OperatorAlways, PTL DEF Spec, TerminalIsTerminal
=============================================================================
