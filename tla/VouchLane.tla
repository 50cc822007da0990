----------------------------- MODULE VouchLane -----------------------------
(***************************************************************************)
(* The strict off-chain lane for one owner, from the browser to the index. *)
(*                                                                         *)
(* packages/eas-offchain-client and packages/frontend sign a bundle on top *)
(* of what the indexer serves; packages/eas-offchain-relay validates it,   *)
(* stores its payload and anchors its head; EasOffchainAnchorRegistry.sol  *)
(* keeps the latest head; packages/indexer follows the anchors.            *)
(*                                                                         *)
(* A payload is the owner's whole log, with a signature in every entry; a  *)
(* head folds the kinds and the UIDs only, so the same head can have       *)
(* several payloads.  Hashes are injective: a head is the sequence it      *)
(* folds and a data commitment is the payload.  ZERO32 is <<>>.            *)
(*                                                                         *)
(* A signed bundle is public: it is exported, retried, and posted to any   *)
(* relay by anybody.  So the pages of the browser are not processes here:  *)
(* they are what may be signed, and any signed bundle may be posted at any *)
(* time.  A handler is one POST /v1/anchors in progress in some relay.     *)
(***************************************************************************)
EXTENDS Integers, Sequences, FiniteSets

CONSTANTS
    Uids, Signatures,
    Operations,     \* what the owner may sign, of Entry
    Imported,       \* bundles the owner signed with other software
    Handlers,
    Capacity,       \* maxTotalInputs, less the leaves of lane 1
    E0_ENTRY_WORK_UNITS,
    MaxSigned,      \* bound: bundles in circulation
    MaxReorgs       \* bound: reorganisations

\* A signature is over an attestation; a revocation has none of its own.
Entry == [kind : {"attest", "revoke"}, uid : Uids, signature : Signatures]
Folds == [kind : {"attest", "revoke"}, uid : Uids]
Heads == Seq(Folds)
Bundle == [previousHead : Heads, payload : Seq(Entry)]

ASSUME LaneAssumption ==
    /\ Operations \subseteq Entry
    /\ Imported \subseteq Bundle
    /\ Capacity \in Nat /\ E0_ENTRY_WORK_UNITS \in Nat
    /\ MaxSigned \in Nat /\ MaxReorgs \in Nat

VARIABLES
    anchors,        \* the registry: the bundles anchored so far
    final,          \* how many of them are in final blocks
    pool,           \* <<handler, bundle>>: transactions sent, not yet mined
    stored,         \* the payloads a storage quorum holds
    index,          \* the indexer's rows: [bundle, verified]
    signed,         \* the bundles in circulation
    req,            \* per handler, the request in progress
    lived,          \* the payloads the registry has ever been at
    reorgs

chainVars == <<anchors, final, lived, reorgs>>
vars == <<anchors, final, pool, stored, index, signed, req, lived, reorgs>>

Folded(payload) ==
    [i \in 1..Len(payload) |-> [kind |-> payload[i].kind, uid |-> payload[i].uid]]

Count(b) == Len(b.payload)
BundleHead(b) == Folded(b.payload)

LatestPayload(bundles) ==
    IF bundles = <<>> THEN <<>> ELSE bundles[Len(bundles)].payload

LivePayload == LatestPayload(anchors)

Log == INSTANCE VouchLog WITH
    log <- Folded(LivePayload),
    settled <- Folded(LatestPayload(SubSeq(anchors, 1, final))),
    version <- LivePayload,
    published <- stored

-----------------------------------------------------------------------------
(* The registry.                                                           *)

\* anchor() sees the signed head and its count, never the payload.  The work is
\* one unit per anchor and some per entry of the latest head.
Anchorable(b) ==
    /\ Count(b) > Len(LivePayload)
    /\ b.previousHead = Folded(LivePayload)
    /\ Len(anchors) + 1 + Count(b) * E0_ENTRY_WORK_UNITS <= Capacity

Idle == [pc |-> "idle"]
\* A handler reads the live head in three calls.  "seen" are the payloads the
\* registry has been at since the first call left: each field is that of one.
Reading(pc, b, payload) == [pc |-> pc, bundle |-> b, seen |-> {payload}]
IsReading(r) == r.pc \in {"lane", "landed", "raced"}
SeenBy(r, payload) ==
    IF IsReading(r) THEN [r EXCEPT !.seen = @ \cup {payload}] ELSE r
At(h, pc) == req[h].pc = pc

Init ==
    /\ anchors = <<>> /\ final = 0 /\ pool = {}
    /\ stored = {} /\ index = <<>>
    /\ signed = Imported
    /\ req = [h \in Handlers |-> Idle]
    /\ lived = {<<>>} /\ reorgs = 0

\* A transaction is executed, whoever still waits for it.
Mine(h, b) ==
    /\ <<h, b>> \in pool
    /\ pool' = pool \ {<<h, b>>}
    /\ IF Anchorable(b) THEN anchors' = Append(anchors, b)
                        ELSE UNCHANGED anchors
    /\ lived' = lived \cup {LivePayload'}
    /\ req' = [g \in Handlers |->
          IF g = h /\ At(h, "waiting") /\ req[h].bundle = b
          THEN Reading(IF Anchorable(b) THEN "landed" ELSE "raced", b,
                       LivePayload')
          ELSE SeenBy(req[g], LivePayload')]
    /\ UNCHANGED <<final, stored, index, signed, reorgs>>

\* The transactions of the blocks given up are gone; a relay may send them anew.
Reorg ==
    /\ reorgs < MaxReorgs /\ reorgs' = reorgs + 1
    /\ \E n \in final..(Len(anchors) - 1) : anchors' = SubSeq(anchors, 1, n)
    /\ req' = [h \in Handlers |-> SeenBy(req[h], LivePayload')]
    /\ UNCHANGED <<final, pool, stored, index, signed, lived>>

Finalise ==
    /\ final < Len(anchors) /\ final' = final + 1
    /\ UNCHANGED <<anchors, pool, stored, index, signed, req, lived, reorgs>>

-----------------------------------------------------------------------------
(* The indexer.                                                            *)

\* validateSignedBundle: the log is legal and extends the previous head.
\* Faulty variant: checks the fold and not the log.
WellFolded(b) ==
    /\ b.payload # <<>>
    /\ Log!Extends(BundleHead(b), b.previousHead)
    /\ Len(b.previousHead) < Count(b)

WellFormed(b) ==
    /\ b.payload # <<>> /\ Log!Legal(BundleHead(b))
    /\ Log!Extends(BundleHead(b), b.previousHead)
    /\ Len(b.previousHead) < Count(b)

Indexed(n) == [i \in 1..n |-> index[i].bundle]
Follows == /\ Len(index) <= Len(anchors)
           /\ Indexed(Len(index)) = SubSeq(anchors, 1, Len(index))

Caught(n) == /\ n <= Len(index) /\ n <= Len(anchors)
             /\ Indexed(n) = SubSeq(anchors, 1, n)

\* canonicalStrictNode: nothing is signed on top of a row that did not verify.
Canonical == index # <<>> => index[Len(index)].verified
IndexedPayload == LatestPayload(Indexed(Len(index)))

\* The payload is fetched once.  A fetch that fails, or a payload that does not
\* validate, leaves a row that is not verified.
AppendRow ==
    LET b == anchors[Len(index) + 1]
    IN  \E fetched \in {FALSE, b.payload \in stored} :
          index' = Append(index, [bundle |-> b,
                                  verified |-> fetched /\ WellFormed(b)])

\* Faulty variant: gives up at the first row that did not verify.
IndexAnchorOnVerified ==
    /\ Canonical
    /\ Follows /\ Len(index) < Len(anchors)
    /\ AppendRow
    /\ UNCHANGED <<chainVars, pool, stored, signed, req>>

\* HeadAnchored, for every anchor in turn.
IndexAnchor ==
    /\ Follows /\ Len(index) < Len(anchors)
    /\ AppendRow
    /\ UNCHANGED <<chainVars, pool, stored, signed, req>>

\* The rows of the blocks given up are removed.
IndexRewind ==
    /\ ~Follows
    /\ index' = SubSeq(index, 1, Len(index) - 1)
    /\ UNCHANGED <<chainVars, pool, stored, signed, req>>

-----------------------------------------------------------------------------
(* The browser.                                                            *)

\* applyOperations on the canonical payload, and buildNextMessage.
Sign(op) ==
    /\ Cardinality(signed) < MaxSigned
    /\ Canonical
    /\ LET payload == Append(IndexedPayload, op)
       IN  /\ Log!Legal(Folded(payload))
           /\ signed' = signed \cup {[previousHead |-> Folded(IndexedPayload),
                                      payload |-> payload]}
    /\ UNCHANGED <<chainVars, pool, stored, index, req>>

-----------------------------------------------------------------------------
(* The relays.                                                             *)

\* What the three calls may have answered.
Answered(h) ==
    {[count |-> Len(p), head |-> Folded(q), dataCommitment |-> r] :
        p \in req[h].seen, q \in req[h].seen, r \in req[h].seen}

\* Faulty variant: any payload of the same head will do.
ExactAtHead(live, b) == live.count = Count(b) /\ live.head = BundleHead(b)

Exact(live, b) ==
    /\ live.count = Count(b)
    /\ live.head = BundleHead(b)
    /\ live.dataCommitment = b.payload

SameCountFork(live, b) == ~Exact(live, b) /\ live.count = Count(b)

\* assertTransition: the bundle extends what was read.  The work, the time and
\* the configuration are read too, and may refuse a bundle all the same.
Admissible(live, b) ==
    /\ live.count < Count(b)
    /\ b.previousHead = live.head
    /\ SubSeq(BundleHead(b), 1, live.count) = live.head

Advance(h, pc) == req' = [req EXCEPT ![h] = [pc |-> pc, bundle |-> @.bundle]]

\* The response: "success", or the conflict "fork".  No property is about the
\* other refusals: Fail stands for all of them.
Answer(h, answer) == Advance(h, answer)
Fail(h) == req' = [req EXCEPT ![h] = Idle]

\* submit(): the bundle is validated before anything is asked of the chain.  A
\* retry while the transaction is still pending is the request of another h.
Post(h, b) ==
    /\ At(h, "idle") /\ b \in signed
    /\ <<h, b>> \notin pool
    /\ WellFormed(b)
    /\ req' = [req EXCEPT ![h] = Reading("lane", b, LivePayload)]
    /\ UNCHANGED <<chainVars, pool, stored, index, signed>>

Admit(h) ==
    /\ At(h, "lane")
    /\ \E live \in Answered(h) : LET b == req[h].bundle IN
          \/ Exact(live, b) /\ Advance(h, "confirming")
          \/ SameCountFork(live, b) /\ Answer(h, "fork")
          \/ Admissible(live, b) /\ Advance(h, "storing")
          \/ ~Exact(live, b) /\ ~SameCountFork(live, b) /\ Fail(h)
    /\ UNCHANGED <<chainVars, pool, stored, index, signed>>

\* storeWithQuorum: the bytes are read back from a quorum of stores.
Store(h) ==
    /\ req[h].pc \in {"confirming", "storing"}
    /\ stored' = stored \cup {req[h].bundle.payload}
    /\ \/ At(h, "confirming") /\ Answer(h, "success")
       \/ At(h, "storing") /\ Advance(h, "sending")
    /\ UNCHANGED <<chainVars, pool, index, signed>>

StoreFails(h) ==
    /\ req[h].pc \in {"confirming", "storing"}
    /\ Fail(h)
    /\ UNCHANGED <<chainVars, pool, stored, index, signed>>

\* The call is simulated on the latest block, then sent.
Send(h) ==
    /\ At(h, "sending") /\ Anchorable(req[h].bundle)
    /\ pool' = pool \cup {<<h, req[h].bundle>>}
    /\ Advance(h, "waiting")
    /\ UNCHANGED <<chainVars, stored, index, signed>>

\* The simulation reverts or the node fails; or no receipt comes in time, and
\* the transaction stays where it is.
SendFails(h) ==
    /\ req[h].pc \in {"sending", "waiting"}
    /\ req' = [req EXCEPT ![h] = Reading("raced", @.bundle,
                                         LivePayload)]
    /\ UNCHANGED <<chainVars, pool, stored, index, signed>>

\* The node does not answer a read.
ReadFails(h) ==
    /\ IsReading(req[h])
    /\ Fail(h)
    /\ UNCHANGED <<chainVars, pool, stored, index, signed>>

\* The live head is read again; the answer is what it says.
Conclude(h) ==
    /\ req[h].pc \in {"landed", "raced"}
    /\ \E live \in Answered(h) : LET b == req[h].bundle IN
          \/ Exact(live, b) /\ Answer(h, "success")
          \/ At(h, "raced") /\ SameCountFork(live, b) /\ Answer(h, "fork")
          \/ /\ ~Exact(live, b)
             /\ At(h, "raced") => ~SameCountFork(live, b)
             /\ Fail(h)
    /\ UNCHANGED <<chainVars, pool, stored, index, signed>>

\* The response leaves; whether the client hears it is another matter.
Respond(h) ==
    /\ req[h].pc \in {"success", "fork"}
    /\ req' = [req EXCEPT ![h] = Idle]
    /\ UNCHANGED <<chainVars, pool, stored, index, signed>>

-----------------------------------------------------------------------------
Relaying(h) ==
    \/ Respond(h) \/ Admit(h) \/ Store(h) \/ StoreFails(h)
    \/ Send(h) \/ SendFails(h) \/ Conclude(h) \/ ReadFails(h)

Next ==
    \/ \E h \in Handlers, b \in signed : Mine(h, b) \/ Post(h, b)
    \/ \E h \in Handlers : Relaying(h)
    \/ \E op \in Operations : Sign(op)
    \/ Reorg \/ Finalise
    \/ IndexAnchor \/ IndexRewind

Spec == Init /\ [][Next]_vars

\* The indexer keeps following the chain; everything else may stop at any time.
FairSpec == Spec /\ WF_vars(IndexAnchor) /\ WF_vars(IndexRewind)

-----------------------------------------------------------------------------
(* Properties.                                                             *)

\* The registry, which sees heads alone, behind relays that race, fail and are
\* asked for stale, doubled and foreign bundles: every version the owner's node
\* takes is a legal extension of the one before, and can be downloaded; a
\* reorganisation takes back what was not final.
ImplementsVouchLog == Log!Spec

\* A success answer (service.ts:313 and 331, and after landing): whatever was
\* read in whichever blocks, the registry has been at exactly this payload, and
\* a quorum holds it.
SuccessIsTrue ==
    \A h \in Handlers : At(h, "success") =>
        req[h].bundle.payload \in lived \cap stored

\* A conflict answer (service.ts:209 and 336): another payload of the same
\* length has been anchored.
ConflictIsTrue ==
    \A h \in Handlers : At(h, "fork") =>
        \E p \in lived : /\ Len(p) = Count(req[h].bundle)
                         /\ p # req[h].bundle.payload

\* The index is never left behind what is final, whatever the fetches answered
\* and however the chain was reorganised meanwhile.
FinalIsIndexed == []<>Caught(final)
=============================================================================
