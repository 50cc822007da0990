-------------------------- MODULE VouchLane_proofs --------------------------
(***************************************************************************)
(* Proofs about VouchLane: whatever is read across blocks, raced, lost or  *)
(* reorganised, a success answer is true; and the lane implements the      *)
(* append-only log of VouchLog.                                            *)
(***************************************************************************)
EXTENDS VouchLane, SequenceTheorems, TLAPS

Payload == Seq(Entry)
Row == [bundle : Bundle, verified : BOOLEAN]

\* What the registry was at after n anchors.
PayloadAt(n) == IF n = 0 THEN <<>> ELSE anchors[n].payload

Phases == {"idle", "lane", "confirming", "storing", "sending", "waiting",
           "landed", "raced", "success", "fork"}

RequestOK(r, past) ==
    /\ r.pc \in Phases
    /\ r.pc # "idle" => r.bundle \in Bundle /\ WellFormed(r.bundle)
    /\ IsReading(r) => r.seen \subseteq past

LaneTypeOK ==
    /\ anchors \in Seq(Bundle)
    /\ final \in Nat /\ final <= Len(anchors)
    /\ pool \subseteq Handlers \X Bundle
    /\ stored \subseteq Payload /\ lived \subseteq Payload
    /\ signed \subseteq Bundle
    /\ index \in Seq(Row)
    /\ DOMAIN req = Handlers
    /\ \A h \in Handlers : RequestOK(req[h], lived)

\* Every version the registry has been at, or falls back to.
PastLived == \A n \in 0..Len(anchors) : PayloadAt(n) \in lived

\* The registry checks the link to the head before; only the relays see that
\* the payload continues what that head folds, and that somebody holds it.
AnchorsLinked ==
    \A n \in 1..Len(anchors) :
        /\ WellFormed(anchors[n]) /\ anchors[n].payload \in stored
        /\ anchors[n].previousHead = Folded(PayloadAt(n - 1))

\* A later version extends every earlier one.
VersionsExtend ==
    \A m, n \in 0..Len(anchors) :
        m <= n => Log!Extends(Folded(PayloadAt(n)), Folded(PayloadAt(m)))

SentIsStored == \A t \in pool : WellFormed(t[2]) /\ t[2].payload \in stored

\* What a request has established by the point it is at.
Earned(r, past, held) ==
    /\ r.pc = "confirming" => r.bundle.payload \in past
    /\ r.pc \in {"sending", "waiting", "landed", "raced"} =>
          r.bundle.payload \in held
    /\ r.pc = "success" => r.bundle.payload \in past \cap held

RequestsEarned == \A h \in Handlers : Earned(req[h], lived, stored)

LaneInv == /\ LaneTypeOK /\ PastLived /\ AnchorsLinked /\ VersionsExtend
           /\ SentIsStored /\ RequestsEarned

-----------------------------------------------------------------------------
(* Payloads and what they fold to.                                         *)

\* A fold has a kind and a UID for every entry; nothing folds to ZERO32.
LEMMA FoldedFacts ==
    ASSUME NEW p \in Payload
    PROVE  /\ Folded(p) \in Heads /\ Len(Folded(p)) = Len(p)
           /\ Folded(<<>>) = <<>> /\ <<>> \in Payload
<1>1. \A i \in 1..Len(p) : p[i] \in Entry
  BY ElementOfSeq DEF Payload
<1>2. \A i \in 1..Len(p) : [kind |-> p[i].kind, uid |-> p[i].uid] \in Folds
  BY <1>1 DEF Entry, Folds
<1>3. Len(p) \in Nat
  BY LenProperties DEF Payload
<1>4. Folded(p) \in [1..Len(p) -> Folds]
  BY <1>2 DEF Folded
<1>5. Folded(p) \in Heads /\ Len(Folded(p)) = Len(p)
  BY <1>3, <1>4 DEF Heads
<1>6. Folded(<<>>) = <<>> /\ <<>> \in Payload
  BY DEF Folded, Payload
<1> QED
  BY <1>5, <1>6

\* The latest of the first n bundles, as the registry stores it.
LEMMA LatestOfPrefix ==
    ASSUME NEW bundles \in Seq(Bundle), NEW n \in 0..Len(bundles)
    PROVE  /\ SubSeq(bundles, 1, n) \in Seq(Bundle)
           /\ Len(SubSeq(bundles, 1, n)) = n
           /\ LatestPayload(SubSeq(bundles, 1, n)) =
                  IF n = 0 THEN <<>> ELSE bundles[n].payload
           /\ LatestPayload(SubSeq(bundles, 1, n)) \in Payload
<1>1. /\ SubSeq(bundles, 1, n) \in Seq(Bundle)
      /\ Len(SubSeq(bundles, 1, n)) = n
      /\ \A i \in 1..n : SubSeq(bundles, 1, n)[i] = bundles[i]
  OBVIOUS
<1>2. CASE n = 0
  <2>1. SubSeq(bundles, 1, n) = <<>>
    BY <1>1, <1>2
  <2> QED
    BY <1>1, <1>2, <2>1 DEF LatestPayload, Payload
<1>3. CASE n # 0
  <2>1. n \in 1..n /\ n \in 1..Len(bundles) /\ SubSeq(bundles, 1, n) # <<>>
    BY <1>1, <1>3
  <2>2. bundles[n] \in Bundle
    BY <2>1, ElementOfSeq
  <2>3. bundles[n].payload \in Payload
    BY <2>2 DEF Bundle, Payload
  <2> QED
    BY <1>1, <1>3, <2>1, <2>3 DEF LatestPayload
<1> QED
  BY <1>2, <1>3

\* What the registry is at now.
LEMMA LiveFacts ==
    ASSUME anchors \in Seq(Bundle)
    PROVE  /\ LivePayload = PayloadAt(Len(anchors))
           /\ LivePayload \in Payload
           /\ \A n \in 0..Len(anchors) : PayloadAt(n) \in Payload
<1>1. Len(anchors) \in Nat /\ SubSeq(anchors, 1, Len(anchors)) = anchors
  OBVIOUS
<1>2. \A n \in 0..Len(anchors) :
         /\ PayloadAt(n) \in Payload
         /\ LatestPayload(SubSeq(anchors, 1, n)) = PayloadAt(n)
  BY LatestOfPrefix DEF PayloadAt
<1>3. LivePayload = LatestPayload(SubSeq(anchors, 1, Len(anchors)))
  BY <1>1 DEF LivePayload
<1>4. Len(anchors) \in 0..Len(anchors)
  BY <1>1
<1> QED
  BY <1>2, <1>3, <1>4

\* What the indexer's last row carries.
LEMMA IndexedFacts ==
    ASSUME index \in Seq(Row)
    PROVE  IndexedPayload \in Payload
<1>1. Len(index) \in Nat /\ \A i \in 1..Len(index) : index[i].bundle \in Bundle
  <2>1. \A i \in 1..Len(index) : index[i] \in Row
    BY ElementOfSeq
  <2> QED
    BY <2>1, LenProperties DEF Row
<1>2. Indexed(Len(index)) \in [1..Len(index) -> Bundle]
  BY <1>1 DEF Indexed
<1>3. Indexed(Len(index)) \in Seq(Bundle)
  BY <1>1, <1>2
<1>4. /\ Len(Indexed(Len(index))) = Len(index)
      /\ SubSeq(Indexed(Len(index)), 1, Len(index)) = Indexed(Len(index))
  BY <1>1, <1>2, <1>3
<1> QED
  <2>1. Len(index) \in 0..Len(Indexed(Len(index)))
    BY <1>1, <1>4
  <2>2. LatestPayload(SubSeq(Indexed(Len(index)), 1, Len(index))) \in Payload
    BY <1>3, <2>1, LatestOfPrefix
  <2> QED
    BY <1>4, <2>2 DEF IndexedPayload

\* Extending is reflexive and transitive.
LEMMA ExtendsChain ==
    ASSUME NEW a \in Heads, NEW b \in Heads, NEW c \in Heads,
           Log!Extends(b, a), Log!Extends(c, b)
    PROVE  Log!Extends(c, a) /\ Log!Extends(a, a)
<1>1. Len(a) \in Nat /\ Len(b) \in Nat /\ Len(c) \in Nat
  BY LenProperties DEF Heads
<1> QED
  BY <1>1 DEF Log!Extends

-----------------------------------------------------------------------------
(* The initial states.                                                     *)

LEMMA InitLane == Init => LaneInv
<1> SUFFICES ASSUME Init PROVE LaneInv
  OBVIOUS
<1>1. /\ anchors \in Seq(Bundle) /\ Len(anchors) = 0
      /\ index \in Seq(Row)
  BY EmptySeq DEF Init
<1>2. <<>> \in Payload /\ Folded(<<>>) = <<>>
  BY EmptySeq, FoldedFacts DEF Payload
<1>3. \A h \in Handlers : RequestOK(req[h], lived)
  BY DEF Init, Idle, RequestOK, Phases, IsReading
<1>4. LaneTypeOK
  BY <1>1, <1>2, <1>3, LaneAssumption DEF Init, LaneTypeOK
<1>5. PastLived /\ AnchorsLinked
  BY <1>1 DEF Init, PastLived, AnchorsLinked, PayloadAt
<1>6. VersionsExtend
  <2>1. Log!Extends(<<>>, <<>>)
    BY DEF Log!Extends
  <2> QED
    BY <1>1, <1>2, <2>1 DEF VersionsExtend, PayloadAt
<1>7. SentIsStored /\ RequestsEarned
  BY DEF Init, SentIsStored, RequestsEarned, Earned, Idle
<1> QED
  BY <1>4, <1>5, <1>6, <1>7 DEF LaneInv

-----------------------------------------------------------------------------
(* The steps that leave the chain alone.                                   *)

\* The registry's past stands while more is stored.
LEMMA ChainStands ==
    ASSUME LaneInv, UNCHANGED <<anchors, lived>>, stored \subseteq stored'
    PROVE  PastLived' /\ AnchorsLinked' /\ VersionsExtend'
<1>1. \A n : PayloadAt(n)' = PayloadAt(n)
  BY DEF PayloadAt
<1>2. PastLived'
  BY <1>1 DEF LaneInv, PastLived
<1>3. AnchorsLinked'
  BY <1>1 DEF LaneInv, AnchorsLinked
<1>4. VersionsExtend'
  BY <1>1 DEF LaneInv, VersionsExtend
<1> QED
  BY <1>2, <1>3, <1>4

\* One handler goes on, and may store its payload or send its transaction.
LEMMA HandlerStep ==
    ASSUME LaneInv, NEW h \in Handlers, UNCHANGED <<chainVars, index, signed>>,
           DOMAIN req' = Handlers,
           \A g \in Handlers \ {h} : req'[g] = req[g],
           RequestOK(req'[h], lived), Earned(req'[h], lived, stored'),
           stored \subseteq stored', stored' \subseteq Payload,
           pool' \subseteq Handlers \X Bundle, SentIsStored'
    PROVE  LaneInv'
<1>1. LaneTypeOK'
  BY DEF LaneInv, LaneTypeOK, chainVars
<1>2. PastLived' /\ AnchorsLinked' /\ VersionsExtend'
  BY ChainStands DEF chainVars
<1>3. RequestsEarned'
  BY DEF LaneInv, RequestsEarned, Earned, chainVars
<1> QED
  BY <1>1, <1>2, <1>3 DEF LaneInv

\* The same, when it does neither.
LEMMA QuietHandlerStep ==
    ASSUME LaneInv, NEW h \in Handlers,
           UNCHANGED <<chainVars, index, signed, pool, stored>>,
           DOMAIN req' = Handlers,
           \A g \in Handlers \ {h} : req'[g] = req[g],
           RequestOK(req'[h], lived), Earned(req'[h], lived, stored)
    PROVE  LaneInv'
<1>1. /\ stored \subseteq stored' /\ stored' \subseteq Payload
      /\ pool' \subseteq Handlers \X Bundle /\ SentIsStored'
  BY DEF LaneInv, LaneTypeOK, SentIsStored
<1> QED
  BY <1>1, HandlerStep

-----------------------------------------------------------------------------
(* The relays.                                                             *)

\* What was read is what the registry has been at.
LEMMA ReadIsLived ==
    ASSUME LaneInv, NEW h \in Handlers, IsReading(req[h]),
           NEW live \in Answered(h)
    PROVE  live.dataCommitment \in lived
<1>1. req[h].seen \subseteq lived
  BY DEF LaneInv, LaneTypeOK, RequestOK
<1>2. live.dataCommitment \in req[h].seen
  BY DEF Answered
<1> QED
  BY <1>1, <1>2

\* A handler that moves on with its bundle, as far as it has earned.
LEMMA Advancing ==
    ASSUME LaneInv, NEW h \in Handlers, ~At(h, "idle"),
           NEW pc \in Phases \ {"idle", "lane", "landed", "raced"},
           Advance(h, pc)
    PROVE  /\ DOMAIN req' = Handlers
           /\ \A g \in Handlers \ {h} : req'[g] = req[g]
           /\ RequestOK(req'[h], lived)
           /\ req'[h].pc = pc /\ req'[h].bundle = req[h].bundle
<1>1. DOMAIN req = Handlers /\ RequestOK(req[h], lived)
  BY DEF LaneInv, LaneTypeOK
<1>2. /\ DOMAIN req' = Handlers
      /\ \A g \in Handlers \ {h} : req'[g] = req[g]
      /\ req'[h] = [pc |-> pc, bundle |-> req[h].bundle]
  BY <1>1 DEF Advance
<1>3. req'[h].pc = pc /\ req'[h].bundle = req[h].bundle
  BY <1>2
<1>4. ~IsReading(req'[h])
  BY <1>3 DEF IsReading
<1>5. RequestOK(req'[h], lived)
  BY <1>1, <1>3, <1>4 DEF RequestOK, At
<1> QED
  BY <1>2, <1>3, <1>5

\* A handler that gives up is idle.
LEMMA Failing ==
    ASSUME LaneInv, NEW h \in Handlers, req' = [req EXCEPT ![h] = Idle],
           UNCHANGED <<chainVars, pool, stored, index, signed>>
    PROVE  LaneInv'
<1>1. /\ DOMAIN req' = Handlers
      /\ \A g \in Handlers \ {h} : req'[g] = req[g]
      /\ req'[h].pc = "idle"
  BY DEF LaneInv, LaneTypeOK, Idle
<1>2. RequestOK(req'[h], lived) /\ Earned(req'[h], lived, stored)
  BY <1>1 DEF RequestOK, Earned, IsReading, Phases
<1> QED
  BY <1>1, <1>2, QuietHandlerStep

LEMMA StepPost ==
    ASSUME LaneInv, NEW h \in Handlers, NEW b \in signed, Post(h, b)
    PROVE  LaneInv'
<1>1. b \in Bundle /\ WellFormed(b) /\ DOMAIN req = Handlers
  BY DEF LaneInv, LaneTypeOK, Post
<1>2. LivePayload \in lived
  <2>1. Len(anchors) \in 0..Len(anchors) /\ LivePayload = PayloadAt(Len(anchors))
    BY LiveFacts, LenProperties DEF LaneInv, LaneTypeOK
  <2> QED
    BY <2>1 DEF LaneInv, PastLived
<1>3. /\ DOMAIN req' = Handlers
      /\ \A g \in Handlers \ {h} : req'[g] = req[g]
      /\ req'[h] = [pc |-> "lane", bundle |-> b, seen |-> {LivePayload}]
  BY <1>1 DEF Post, Reading
<1>4. RequestOK(req'[h], lived) /\ Earned(req'[h], lived, stored)
  BY <1>1, <1>2, <1>3 DEF RequestOK, Earned, IsReading, Phases
<1> QED
  BY <1>3, <1>4, QuietHandlerStep DEF Post

LEMMA StepAdmit ==
    ASSUME LaneInv, NEW h \in Handlers, Admit(h) PROVE LaneInv'
<1>1. PICK live \in Answered(h) : LET b == req[h].bundle IN
          \/ Exact(live, b) /\ Advance(h, "confirming")
          \/ SameCountFork(live, b) /\ Answer(h, "fork")
          \/ Admissible(live, b) /\ Advance(h, "storing")
          \/ ~Exact(live, b) /\ ~SameCountFork(live, b) /\ Fail(h)
  BY DEF Admit
<1>2. /\ At(h, "lane") /\ ~At(h, "idle") /\ IsReading(req[h])
      /\ UNCHANGED <<chainVars, pool, stored, index, signed>>
  BY DEF Admit, At, IsReading
<1>3. CASE Exact(live, req[h].bundle) /\ Advance(h, "confirming")
  <2>1. req[h].bundle.payload \in lived
    BY <1>2, <1>3, ReadIsLived DEF Exact
  <2>2. /\ DOMAIN req' = Handlers
        /\ \A g \in Handlers \ {h} : req'[g] = req[g]
        /\ RequestOK(req'[h], lived)
        /\ req'[h].pc = "confirming" /\ req'[h].bundle = req[h].bundle
    BY <1>2, <1>3, Advancing DEF Phases
  <2>3. Earned(req'[h], lived, stored)
    BY <2>1, <2>2 DEF Earned
  <2> QED
    BY <1>2, <2>2, <2>3, QuietHandlerStep
<1>4. ASSUME NEW pc \in {"fork", "storing"}, Advance(h, pc) PROVE LaneInv'
  <2>1. /\ DOMAIN req' = Handlers
        /\ \A g \in Handlers \ {h} : req'[g] = req[g]
        /\ RequestOK(req'[h], lived)
        /\ req'[h].pc = pc
    BY <1>2, <1>4, Advancing DEF Phases
  <2>2. Earned(req'[h], lived, stored)
    BY <2>1 DEF Earned
  <2> QED
    BY <1>2, <2>1, <2>2, QuietHandlerStep
<1>5. ASSUME Fail(h) PROVE LaneInv'
  BY <1>2, <1>5, Failing DEF Fail
<1> QED
  BY <1>1, <1>3, <1>4, <1>5 DEF Answer

LEMMA StepStore ==
    ASSUME LaneInv, NEW h \in Handlers, Store(h) PROVE LaneInv'
<1> DEFINE p == req[h].bundle.payload
<1>1. /\ req[h].pc \in {"confirming", "storing"} /\ ~At(h, "idle")
      /\ stored' = stored \cup {p}
      /\ UNCHANGED <<chainVars, pool, index, signed>>
  BY DEF Store, At
<1>2. p \in Payload
  <2>1. req[h].bundle \in Bundle
    BY <1>1 DEF LaneInv, LaneTypeOK, RequestOK
  <2> QED
    BY <2>1 DEF Bundle, Payload
<1>3. /\ stored \subseteq stored' /\ stored' \subseteq Payload
      /\ pool' \subseteq Handlers \X Bundle
  BY <1>1, <1>2 DEF LaneInv, LaneTypeOK
<1>4. SentIsStored'
  BY <1>1 DEF LaneInv, SentIsStored
<1>5. CASE At(h, "confirming") /\ Answer(h, "success")
  <2>1. p \in lived
    BY <1>5 DEF LaneInv, RequestsEarned, Earned, At
  <2>2. /\ DOMAIN req' = Handlers
        /\ \A g \in Handlers \ {h} : req'[g] = req[g]
        /\ RequestOK(req'[h], lived)
        /\ req'[h].pc = "success" /\ req'[h].bundle = req[h].bundle
    BY <1>1, <1>5, Advancing DEF Phases, Answer
  <2>3. Earned(req'[h], lived, stored')
    BY <1>1, <2>1, <2>2 DEF Earned
  <2> QED
    BY <1>1, <1>3, <1>4, <2>2, <2>3, HandlerStep
<1>6. CASE At(h, "storing") /\ Advance(h, "sending")
  <2>1. /\ DOMAIN req' = Handlers
        /\ \A g \in Handlers \ {h} : req'[g] = req[g]
        /\ RequestOK(req'[h], lived)
        /\ req'[h].pc = "sending" /\ req'[h].bundle = req[h].bundle
    BY <1>1, <1>6, Advancing DEF Phases
  <2>2. Earned(req'[h], lived, stored')
    BY <1>1, <2>1 DEF Earned
  <2> QED
    BY <1>1, <1>3, <1>4, <2>1, <2>2, HandlerStep
<1> QED
  BY <1>5, <1>6 DEF Store

LEMMA StepSend ==
    ASSUME LaneInv, NEW h \in Handlers, Send(h) PROVE LaneInv'
<1> DEFINE b == req[h].bundle
<1>1. /\ req[h].pc = "sending" /\ ~At(h, "idle")
      /\ pool' = pool \cup {<<h, b>>} /\ Advance(h, "waiting")
      /\ UNCHANGED <<chainVars, stored, index, signed>>
  BY DEF Send, At
<1>2. b \in Bundle /\ WellFormed(b) /\ b.payload \in stored
  BY <1>1 DEF LaneInv, LaneTypeOK, RequestOK, RequestsEarned, Earned
<1>3. /\ stored \subseteq stored' /\ stored' \subseteq Payload
      /\ pool' \subseteq Handlers \X Bundle
  BY <1>1, <1>2 DEF LaneInv, LaneTypeOK
<1>4. SentIsStored'
  BY <1>1, <1>2 DEF LaneInv, SentIsStored
<1>5. /\ DOMAIN req' = Handlers
      /\ \A g \in Handlers \ {h} : req'[g] = req[g]
      /\ RequestOK(req'[h], lived)
      /\ req'[h].pc = "waiting" /\ req'[h].bundle = b
  BY <1>1, Advancing DEF Phases
<1>6. Earned(req'[h], lived, stored')
  BY <1>1, <1>2, <1>5 DEF Earned
<1> QED
  BY <1>1, <1>3, <1>4, <1>5, <1>6, HandlerStep

LEMMA StepSendFails ==
    ASSUME LaneInv, NEW h \in Handlers, SendFails(h) PROVE LaneInv'
<1> DEFINE b == req[h].bundle
<1>1. /\ req[h].pc \in {"sending", "waiting"}
      /\ UNCHANGED <<chainVars, pool, stored, index, signed>>
  BY DEF SendFails
<1>2. b \in Bundle /\ WellFormed(b) /\ b.payload \in stored
  BY <1>1 DEF LaneInv, LaneTypeOK, RequestOK, RequestsEarned, Earned
<1>3. LivePayload \in lived
  <2>1. Len(anchors) \in 0..Len(anchors) /\ LivePayload = PayloadAt(Len(anchors))
    BY LiveFacts, LenProperties DEF LaneInv, LaneTypeOK
  <2> QED
    BY <2>1 DEF LaneInv, PastLived
<1>4. /\ DOMAIN req' = Handlers
      /\ \A g \in Handlers \ {h} : req'[g] = req[g]
      /\ req'[h] = [pc |-> "raced", bundle |-> b, seen |-> {LivePayload}]
  BY DEF SendFails, Reading, LaneInv, LaneTypeOK
<1>5. RequestOK(req'[h], lived) /\ Earned(req'[h], lived, stored)
  BY <1>2, <1>3, <1>4 DEF RequestOK, Earned, IsReading, Phases
<1> QED
  BY <1>1, <1>4, <1>5, QuietHandlerStep

LEMMA StepConclude ==
    ASSUME LaneInv, NEW h \in Handlers, Conclude(h) PROVE LaneInv'
<1>1. PICK live \in Answered(h) : LET b == req[h].bundle IN
          \/ Exact(live, b) /\ Answer(h, "success")
          \/ At(h, "raced") /\ SameCountFork(live, b) /\ Answer(h, "fork")
          \/ /\ ~Exact(live, b)
             /\ At(h, "raced") => ~SameCountFork(live, b)
             /\ Fail(h)
  BY DEF Conclude
<1>2. /\ req[h].pc \in {"landed", "raced"} /\ ~At(h, "idle")
      /\ IsReading(req[h])
      /\ UNCHANGED <<chainVars, pool, stored, index, signed>>
  BY DEF Conclude, At, IsReading
<1>3. CASE Exact(live, req[h].bundle) /\ Answer(h, "success")
  <2>1. req[h].bundle.payload \in lived \cap stored
    BY <1>2, <1>3, ReadIsLived DEF Exact, LaneInv, RequestsEarned, Earned
  <2>2. /\ DOMAIN req' = Handlers
        /\ \A g \in Handlers \ {h} : req'[g] = req[g]
        /\ RequestOK(req'[h], lived)
        /\ req'[h].pc = "success" /\ req'[h].bundle = req[h].bundle
    BY <1>2, <1>3, Advancing DEF Phases, Answer
  <2>3. Earned(req'[h], lived, stored)
    BY <2>1, <2>2 DEF Earned
  <2> QED
    BY <1>2, <2>2, <2>3, QuietHandlerStep
<1>4. CASE Answer(h, "fork")
  <2>1. /\ DOMAIN req' = Handlers
        /\ \A g \in Handlers \ {h} : req'[g] = req[g]
        /\ RequestOK(req'[h], lived)
        /\ req'[h].pc = "fork"
    BY <1>2, <1>4, Advancing DEF Phases, Answer
  <2>2. Earned(req'[h], lived, stored)
    BY <2>1 DEF Earned
  <2> QED
    BY <1>2, <2>1, <2>2, QuietHandlerStep
<1>5. CASE Fail(h)
  BY <1>2, <1>5, Failing DEF Fail
<1> QED
  BY <1>1, <1>3, <1>4, <1>5

-----------------------------------------------------------------------------
(* The chain, the indexer and the browser.                                 *)

\* A request that has been watching sees one payload more.
LEMMA SeenMore ==
    ASSUME NEW r, NEW p, NEW past, NEW more, NEW held, past \subseteq more,
           p \in more, RequestOK(r, past), Earned(r, past, held)
    PROVE  RequestOK(SeenBy(r, p), more) /\ Earned(SeenBy(r, p), more, held)
<1>1. CASE IsReading(r)
  <2>1. SeenBy(r, p) = [r EXCEPT !.seen = @ \cup {p}]
    BY <1>1 DEF SeenBy
  <2>2. /\ SeenBy(r, p).pc = r.pc /\ SeenBy(r, p).bundle = r.bundle
    BY <2>1
  <2>3. SeenBy(r, p).seen \subseteq more
    BY <1>1, <2>1 DEF RequestOK
  <2> QED
    BY <2>2, <2>3 DEF RequestOK, Earned, IsReading
<1>2. CASE ~IsReading(r)
  BY <1>2 DEF SeenBy, RequestOK, Earned
<1> QED
  BY <1>1, <1>2

\* Every version a registry has after a new anchor.
LEMMA AnchorStep ==
    ASSUME LaneInv, NEW b \in Bundle, WellFormed(b), b.payload \in stored,
           Anchorable(b), anchors' = Append(anchors, b),
           lived' = lived \cup {LivePayload'}, stored' = stored
    PROVE  /\ anchors' \in Seq(Bundle) /\ Len(anchors') = Len(anchors) + 1
           /\ LivePayload' = b.payload
           /\ PastLived' /\ AnchorsLinked' /\ VersionsExtend'
<1>0. PICK N \in Nat : N = Len(anchors)
  BY LenProperties DEF LaneInv, LaneTypeOK
<1>1. /\ anchors \in Seq(Bundle) /\ N = Len(anchors)
      /\ anchors' \in Seq(Bundle) /\ Len(anchors') = N + 1
      /\ \A n \in 1..N : anchors'[n] = anchors[n]
      /\ anchors'[N + 1] = b
  BY <1>0, AppendProperties DEF LaneInv, LaneTypeOK
<1>2. /\ \A n \in 0..N : PayloadAt(n)' = PayloadAt(n)
      /\ PayloadAt(N + 1)' = b.payload
  BY <1>1 DEF PayloadAt
<1>3. LivePayload' = b.payload
  BY <1>1 DEF LivePayload, LatestPayload
<1>4. LivePayload = PayloadAt(N) /\ \A n \in 0..N : PayloadAt(n) \in Payload
  BY <1>1, LiveFacts
<1>5. PastLived'
  <2> SUFFICES ASSUME NEW n \in 0..(N + 1) PROVE PayloadAt(n)' \in lived'
    BY <1>1 DEF PastLived
  <2>1. CASE n \in 0..N
    BY <1>1, <1>2, <2>1 DEF LaneInv, PastLived
  <2>2. CASE n = N + 1
    BY <1>2, <1>3, <2>2
  <2> QED
    BY <1>1, <2>1, <2>2
<1>6. b.previousHead = Folded(PayloadAt(N))
  BY <1>4 DEF Anchorable
<1>7. AnchorsLinked'
  <2> SUFFICES ASSUME NEW n \in 1..(N + 1)
               PROVE  /\ WellFormed(anchors'[n]) /\ anchors'[n].payload \in stored
                      /\ anchors'[n].previousHead = Folded(PayloadAt(n - 1)')
    BY <1>1 DEF AnchorsLinked
  <2>1. CASE n \in 1..N
    <3>1. PayloadAt(n - 1)' = PayloadAt(n - 1)
      BY <1>1, <1>2, <2>1
    <3> QED
      BY <1>1, <2>1, <3>1 DEF LaneInv, AnchorsLinked
  <2>2. CASE n = N + 1
    <3>1. PayloadAt(n - 1)' = PayloadAt(N)
      BY <1>1, <1>2, <2>2
    <3> QED
      BY <1>1, <1>6, <2>2, <3>1
  <2> QED
    BY <1>1, <2>1, <2>2
<1>8. VersionsExtend'
  <2> SUFFICES ASSUME NEW m \in 0..(N + 1), NEW n \in 0..(N + 1), m <= n
               PROVE  Log!Extends(Folded(PayloadAt(n)'), Folded(PayloadAt(m)'))
    BY <1>1 DEF VersionsExtend
  <2>1. Folded(b.payload) \in Heads
    BY FoldedFacts DEF Bundle, Payload
  <2>2. CASE n \in 0..N
    <3>1. m \in 0..N
      BY <1>1, <2>2
    <3> QED
      BY <1>1, <1>2, <2>2, <3>1 DEF LaneInv, VersionsExtend
  <2>3. CASE n = N + 1 /\ m = N + 1
    BY <1>2, <2>1, <2>3, LenProperties DEF Log!Extends, Heads
  <2>4. CASE n = N + 1 /\ m \in 0..N
    <3>1. /\ Folded(PayloadAt(m)) \in Heads /\ Folded(PayloadAt(N)) \in Heads
      BY <1>1, <1>4, <2>4, FoldedFacts
    <3>2. Log!Extends(Folded(PayloadAt(N)), Folded(PayloadAt(m)))
      BY <1>1, <2>4 DEF LaneInv, VersionsExtend
    <3>3. Log!Extends(Folded(b.payload), Folded(PayloadAt(N)))
      BY <1>6 DEF WellFormed, BundleHead
    <3>4. Log!Extends(Folded(b.payload), Folded(PayloadAt(m)))
      BY <2>1, <3>1, <3>2, <3>3, ExtendsChain
    <3> QED
      BY <1>2, <2>4, <3>4
  <2> QED
    BY <1>1, <2>2, <2>3, <2>4
<1> QED
  BY <1>1, <1>3, <1>5, <1>7, <1>8

LEMMA StepMine ==
    ASSUME LaneInv, NEW h \in Handlers, NEW b, Mine(h, b) PROVE LaneInv'
<1>1. /\ b \in Bundle /\ WellFormed(b) /\ b.payload \in stored
      /\ <<h, b>> \in pool
  BY DEF LaneInv, LaneTypeOK, SentIsStored, Mine
<1>2. /\ pool' = pool \ {<<h, b>>}
      /\ IF Anchorable(b) THEN anchors' = Append(anchors, b)
                          ELSE UNCHANGED anchors
      /\ lived' = lived \cup {LivePayload'}
      /\ UNCHANGED <<final, stored, index, signed, reorgs>>
  BY DEF Mine
<1>3. /\ anchors' \in Seq(Bundle) /\ Len(anchors) <= Len(anchors')
      /\ LivePayload' \in Payload
      /\ PastLived' /\ AnchorsLinked' /\ VersionsExtend'
  <2>1. CASE Anchorable(b)
    <3>1. /\ anchors' \in Seq(Bundle) /\ Len(anchors') = Len(anchors) + 1
          /\ LivePayload' = b.payload
          /\ PastLived' /\ AnchorsLinked' /\ VersionsExtend'
      BY <1>1, <1>2, <2>1, AnchorStep
    <3>2. Len(anchors) \in Nat
      BY LenProperties DEF LaneInv, LaneTypeOK
    <3>3. b.payload \in Payload
      BY <1>1 DEF Bundle, Payload
    <3> QED
      BY <3>1, <3>2, <3>3
  <2>2. CASE ~Anchorable(b)
    <3>1. anchors' = anchors /\ LivePayload' = LivePayload
      BY <1>2, <2>2 DEF LivePayload
    <3>2. /\ LivePayload = PayloadAt(Len(anchors)) /\ LivePayload \in Payload
          /\ anchors \in Seq(Bundle) /\ Len(anchors) \in Nat
      BY LiveFacts, LenProperties DEF LaneInv, LaneTypeOK
    <3>3. LivePayload \in lived
      BY <3>2 DEF LaneInv, PastLived
    <3>4. UNCHANGED <<anchors, lived>> /\ stored \subseteq stored'
      BY <1>2, <3>1, <3>3
    <3> QED
      BY <3>1, <3>2, <3>4, ChainStands
  <2> QED
    BY <2>1, <2>2
<1>4. \A g \in Handlers : /\ RequestOK(req'[g], lived')
                          /\ Earned(req'[g], lived', stored')
  <2> SUFFICES ASSUME NEW g \in Handlers
               PROVE  RequestOK(req'[g], lived') /\ Earned(req'[g], lived', stored')
    OBVIOUS
  <2>1. CASE g = h /\ At(h, "waiting") /\ req[h].bundle = b
    <3>1. req'[g] = [pc |-> IF Anchorable(b) THEN "landed" ELSE "raced",
                     bundle |-> b, seen |-> {LivePayload'}]
      BY <2>1 DEF Mine, Reading
    <3>2. req'[g].pc \in {"landed", "raced"} /\ req'[g].bundle = b
      BY <3>1
    <3>3. req'[g].seen \subseteq lived'
      BY <1>2, <3>1
    <3> QED
      BY <1>1, <1>2, <3>2, <3>3 DEF RequestOK, Earned, IsReading, Phases
  <2>2. CASE ~(g = h /\ At(h, "waiting") /\ req[h].bundle = b)
    <3>1. req'[g] = SeenBy(req[g], LivePayload')
      BY <2>2 DEF Mine
    <3>2. /\ lived \subseteq lived' /\ LivePayload' \in lived'
          /\ RequestOK(req[g], lived) /\ Earned(req[g], lived, stored)
      BY <1>2 DEF LaneInv, LaneTypeOK, RequestsEarned
    <3>3. /\ RequestOK(SeenBy(req[g], LivePayload'), lived')
          /\ Earned(SeenBy(req[g], LivePayload'), lived', stored)
      BY <3>2, SeenMore
    <3> QED
      BY <1>2, <3>1, <3>3
  <2> QED
    BY <2>1, <2>2
<1>5. LaneTypeOK'
  <2>1. DOMAIN req' = Handlers
    BY DEF Mine
  <2>2. Len(anchors) \in Nat /\ Len(anchors') \in Nat
    BY <1>3, LenProperties DEF LaneInv, LaneTypeOK
  <2>3. final' \in Nat /\ final' <= Len(anchors')
    BY <1>2, <1>3, <2>2 DEF LaneInv, LaneTypeOK
  <2>4. stored' \subseteq Payload /\ lived' \subseteq Payload
    BY <1>2, <1>3 DEF LaneInv, LaneTypeOK
  <2>5. pool' \subseteq Handlers \X Bundle
    BY <1>2 DEF LaneInv, LaneTypeOK
  <2>6. signed' \subseteq Bundle /\ index' \in Seq(Row)
    BY <1>2 DEF LaneInv, LaneTypeOK
  <2> QED
    BY <1>3, <1>4, <2>1, <2>3, <2>4, <2>5, <2>6 DEF LaneTypeOK
<1>6. SentIsStored' /\ RequestsEarned'
  BY <1>2, <1>4 DEF LaneInv, SentIsStored, RequestsEarned
<1> QED
  BY <1>3, <1>5, <1>6 DEF LaneInv

LEMMA StepReorg ==
    ASSUME LaneInv, Reorg PROVE LaneInv'
<1> DEFINE N == Len(anchors)
<1>1. PICK n \in final..(N - 1) : anchors' = SubSeq(anchors, 1, n)
  BY DEF Reorg
<1>2. /\ anchors \in Seq(Bundle) /\ N \in Nat /\ n \in 0..N /\ final <= n
      /\ final \in Nat
      /\ UNCHANGED <<final, pool, stored, index, signed, lived>>
  BY <1>1, LenProperties DEF Reorg, LaneInv, LaneTypeOK
<1>3. /\ anchors' \in Seq(Bundle) /\ Len(anchors') = n
      /\ \A i \in 1..n : anchors'[i] = anchors[i]
  BY <1>1, <1>2, LatestOfPrefix
<1>4. \A i \in 0..n : PayloadAt(i)' = PayloadAt(i) /\ i \in 0..N
  BY <1>2, <1>3 DEF PayloadAt
<1>5. PastLived'
  BY <1>2, <1>3, <1>4 DEF LaneInv, PastLived
<1>6. AnchorsLinked'
  <2> SUFFICES ASSUME NEW i \in 1..n
               PROVE  /\ WellFormed(anchors'[i]) /\ anchors'[i].payload \in stored
                      /\ anchors'[i].previousHead = Folded(PayloadAt(i - 1)')
    BY <1>2, <1>3 DEF AnchorsLinked
  <2>1. i \in 1..N /\ PayloadAt(i - 1)' = PayloadAt(i - 1)
    BY <1>2, <1>4
  <2> QED
    BY <1>3, <2>1 DEF LaneInv, AnchorsLinked
<1>7. VersionsExtend'
  BY <1>3, <1>4 DEF LaneInv, VersionsExtend
<1>8. LivePayload' \in lived
  <2>1. LivePayload' = PayloadAt(n)
    BY <1>1, <1>2, LatestOfPrefix DEF LivePayload, PayloadAt
  <2> QED
    BY <1>2, <2>1 DEF LaneInv, PastLived
<1>9. \A g \in Handlers : /\ RequestOK(req'[g], lived')
                          /\ Earned(req'[g], lived', stored')
  <2> SUFFICES ASSUME NEW g \in Handlers
               PROVE  RequestOK(req'[g], lived) /\ Earned(req'[g], lived, stored)
    BY <1>2
  <2>1. req'[g] = SeenBy(req[g], LivePayload')
    BY DEF Reorg
  <2>2. RequestOK(req[g], lived) /\ Earned(req[g], lived, stored)
    BY DEF LaneInv, LaneTypeOK, RequestsEarned
  <2> QED
    BY <1>8, <2>1, <2>2, SeenMore
<1>10. LaneTypeOK'
  <2>1. DOMAIN req' = Handlers
    BY DEF Reorg
  <2> QED
    BY <1>2, <1>3, <1>9, <2>1 DEF LaneInv, LaneTypeOK
<1>11. SentIsStored' /\ RequestsEarned'
  BY <1>2, <1>9 DEF LaneInv, SentIsStored, RequestsEarned
<1> QED
  BY <1>5, <1>6, <1>7, <1>10, <1>11 DEF LaneInv

\* Finality, the indexer and the browser touch neither anchors nor requests.
LEMMA StepAside ==
    ASSUME LaneInv, UNCHANGED <<anchors, lived, pool, stored, req>>,
           final' \in Nat, final' <= Len(anchors),
           index' \in Seq(Row), signed' \subseteq Bundle
    PROVE  LaneInv'
<1>1. PastLived' /\ AnchorsLinked' /\ VersionsExtend'
  BY ChainStands
<1>2. LaneTypeOK'
  BY DEF LaneInv, LaneTypeOK
<1>3. SentIsStored' /\ RequestsEarned'
  BY DEF LaneInv, SentIsStored, RequestsEarned
<1> QED
  BY <1>1, <1>2, <1>3 DEF LaneInv

LEMMA StepFinalise == ASSUME LaneInv, Finalise PROVE LaneInv'
<1>1. /\ final' \in Nat /\ final' <= Len(anchors)
      /\ index' \in Seq(Row) /\ signed' \subseteq Bundle
  BY LenProperties DEF Finalise, LaneInv, LaneTypeOK
<1> QED
  BY <1>1, StepAside DEF Finalise

LEMMA StepIndexAnchor == ASSUME LaneInv, IndexAnchor PROVE LaneInv'
<1> DEFINE b == anchors[Len(index) + 1]
<1>1. Len(index) + 1 \in 1..Len(anchors)
  BY LenProperties DEF IndexAnchor, LaneInv, LaneTypeOK
<1>2. b \in Bundle
  BY <1>1, ElementOfSeq DEF LaneInv, LaneTypeOK
<1>3. PICK fetched \in {FALSE, b.payload \in stored} :
          index' = Append(index, [bundle |-> b,
                                  verified |-> fetched /\ WellFormed(b)])
  BY DEF IndexAnchor, AppendRow
<1>4. [bundle |-> b, verified |-> fetched /\ WellFormed(b)] \in Row
  BY <1>2 DEF Row
<1>5. index' \in Seq(Row)
  BY <1>3, <1>4, AppendProperties DEF LaneInv, LaneTypeOK
<1> QED
  BY <1>5, StepAside DEF IndexAnchor, chainVars, LaneInv, LaneTypeOK

LEMMA StepIndexRewind == ASSUME LaneInv, IndexRewind PROVE LaneInv'
<1>1. index' = SubSeq(index, 1, Len(index) - 1) /\ index \in Seq(Row)
  BY DEF IndexRewind, LaneInv, LaneTypeOK
<1>2. CASE index = <<>>
  <2>1. Len(index) = 0
    BY <1>2
  <2>2. index' = <<>>
    BY <1>1, <2>1
  <2> QED
    BY <2>2, EmptySeq, StepAside DEF IndexRewind, chainVars, LaneInv, LaneTypeOK
<1>3. CASE index # <<>>
  <2>1. Len(index) \in Nat \ {0}
    BY <1>1, <1>3, LenProperties, EmptySeq
  <2>2. index' \in Seq(Row)
    BY <1>1, <2>1
  <2> QED
    BY <2>2, StepAside DEF IndexRewind, chainVars, LaneInv, LaneTypeOK
<1> QED
  BY <1>2, <1>3

LEMMA StepSign ==
    ASSUME LaneInv, NEW op \in Operations, Sign(op) PROVE LaneInv'
<1> DEFINE payload == Append(IndexedPayload, op)
<1>1. IndexedPayload \in Payload /\ op \in Entry
  BY IndexedFacts, LaneAssumption DEF LaneInv, LaneTypeOK
<1>2. payload \in Payload /\ Folded(IndexedPayload) \in Heads
  BY <1>1, AppendProperties, FoldedFacts DEF Payload
<1>3. [previousHead |-> Folded(IndexedPayload), payload |-> payload] \in Bundle
  BY <1>2 DEF Bundle, Payload
<1>4. signed' \subseteq Bundle
  BY <1>3 DEF Sign, LaneInv, LaneTypeOK
<1> QED
  BY <1>4, StepAside DEF Sign, chainVars, LaneInv, LaneTypeOK

-----------------------------------------------------------------------------
(* The invariant.                                                          *)

LEMMA NextKeepsLaneInv == LaneInv /\ [Next]_vars => LaneInv'
<1> SUFFICES ASSUME LaneInv, [Next]_vars PROVE LaneInv'
  OBVIOUS
<1>1. CASE UNCHANGED vars
  <2>1. UNCHANGED <<anchors, final, lived, pool, stored, index, signed, req>>
    BY <1>1 DEF vars
  <2> QED
    BY <2>1, StepAside DEF LaneInv, LaneTypeOK
<1>2. ASSUME NEW h \in Handlers, NEW b \in signed, Mine(h, b) PROVE LaneInv'
  BY <1>2, StepMine
<1>3. ASSUME NEW h \in Handlers, NEW b \in signed, Post(h, b) PROVE LaneInv'
  BY <1>3, StepPost
<1>4. ASSUME NEW h \in Handlers, Respond(h) \/ StoreFails(h) \/ ReadFails(h)
      PROVE  LaneInv'
  <2>1. /\ req' = [req EXCEPT ![h] = Idle]
        /\ UNCHANGED <<chainVars, pool, stored, index, signed>>
    BY <1>4 DEF Respond, StoreFails, ReadFails, Fail
  <2> QED
    BY <2>1, Failing
<1>5. ASSUME NEW h \in Handlers, Relaying(h) PROVE LaneInv'
  BY <1>4, <1>5, StepAdmit, StepStore, StepSend, StepSendFails, StepConclude
     DEF Relaying
<1>6. ASSUME NEW op \in Operations, Sign(op) PROVE LaneInv'
  BY <1>6, StepSign
<1>7. ASSUME Reorg \/ Finalise \/ IndexAnchor \/ IndexRewind PROVE LaneInv'
  BY <1>7, StepReorg, StepFinalise, StepIndexAnchor, StepIndexRewind
<1> QED
  BY <1>1, <1>2, <1>3, <1>5, <1>6, <1>7 DEF Next

\* The inductive invariant: every anchored payload is legal, is held by a
\* quorum and extends the ones before it, and every request is at a point its
\* bundle has earned (submit, anchor, storeWithQuorum).
THEOREM LaneInvariant == Spec => []LaneInv
<1>1. Init => LaneInv
  BY InitLane
<1>2. LaneInv /\ [Next]_vars => LaneInv'
  BY NextKeepsLaneInv
<1> QED
  BY <1>1, <1>2, PTL DEF Spec

\* A success answer of submit() is true, for any number of relays, bundles,
\* torn reads and reorganisations.
THEOREM SuccessesAreTrue == Spec => []SuccessIsTrue
<1>1. LaneInv => SuccessIsTrue
  BY DEF LaneInv, RequestsEarned, Earned, SuccessIsTrue, At
<1> QED
  BY <1>1, LaneInvariant, PTL

-----------------------------------------------------------------------------
(* The refinement.                                                         *)

\* The log and its final part, in terms of the anchors.
LEMMA LogFacts ==
    ASSUME LaneInv
    PROVE  /\ LivePayload = PayloadAt(Len(anchors))
           /\ LatestPayload(SubSeq(anchors, 1, final)) = PayloadAt(final)
           /\ Len(anchors) \in Nat /\ final \in 0..Len(anchors)
<1>1. Len(anchors) \in Nat /\ final \in 0..Len(anchors)
  BY LenProperties DEF LaneInv, LaneTypeOK
<1>2. LatestPayload(SubSeq(anchors, 1, final)) = PayloadAt(final)
  BY <1>1, LatestOfPrefix DEF LaneInv, LaneTypeOK, PayloadAt
<1> QED
  BY <1>1, <1>2, LiveFacts DEF LaneInv, LaneTypeOK

\* A transaction the registry takes extends the log; one it refuses does not
\* touch it.
LEMMA MineRefines ==
    ASSUME LaneInv, LaneInv', NEW h \in Handlers, NEW b, Mine(h, b)
    PROVE  [Log!Next]_Log!logVars
<1>1. /\ b \in Bundle /\ WellFormed(b) /\ b.payload \in stored
      /\ UNCHANGED <<final, stored>> /\ lived' = lived \cup {LivePayload'}
  BY DEF LaneInv, LaneTypeOK, SentIsStored, Mine
<1>2. CASE ~Anchorable(b)
  <2>1. UNCHANGED <<anchors, final, stored>>
    BY <1>1, <1>2 DEF Mine
  <2> QED
    BY <2>1 DEF Log!logVars, LivePayload
<1>3. CASE Anchorable(b)
  <2>1. /\ anchors' = Append(anchors, b) /\ LivePayload' = b.payload
        /\ Len(anchors') = Len(anchors) + 1
    BY <1>1, <1>3, AnchorStep DEF Mine
  <2>2. /\ Log!Extends(Folded(b.payload), Folded(LivePayload))
        /\ Log!Legal(Folded(b.payload))
    BY <1>1, <1>3 DEF Anchorable, WellFormed, BundleHead
  <2>3. Len(Folded(b.payload)) > Len(Folded(LivePayload))
    <3>1. b.payload \in Payload /\ LivePayload \in Payload
      BY <1>1, LiveFacts DEF LaneInv, LaneTypeOK, Bundle, Payload
    <3> QED
      BY <1>3, <3>1, FoldedFacts DEF Anchorable, Count
  <2>4. LatestPayload(SubSeq(anchors, 1, final))' =
            LatestPayload(SubSeq(anchors, 1, final))
    <3>1. PayloadAt(final)' = PayloadAt(final)
      BY <1>1, <2>1, LogFacts, AppendProperties
         DEF PayloadAt, LaneInv, LaneTypeOK
    <3>2. LatestPayload(SubSeq(anchors, 1, final))' = PayloadAt(final)'
      BY LatestOfPrefix, LenProperties DEF LaneInv, LaneTypeOK, PayloadAt
    <3> QED
      BY <3>1, <3>2, LogFacts
  <2>5. Log!Extend
    BY <1>1, <2>1, <2>2, <2>3, <2>4 DEF Log!Extend
  <2> QED
    BY <2>5 DEF Log!Next
<1> QED
  BY <1>2, <1>3

\* A reorganisation goes back to a version between the final one and the last.
LEMMA ReorgRefines ==
    ASSUME LaneInv, Reorg PROVE [Log!Next]_Log!logVars
<1>1. PICK n \in final..(Len(anchors) - 1) : anchors' = SubSeq(anchors, 1, n)
  BY DEF Reorg
<1>2. /\ n \in 0..Len(anchors) /\ final \in 0..n /\ final \in 0..Len(anchors)
      /\ Len(anchors) \in Nat
      /\ anchors \in Seq(Bundle) /\ UNCHANGED <<final, stored>>
  BY <1>1, LogFacts DEF Reorg, LaneInv, LaneTypeOK
<1>3. LivePayload' = PayloadAt(n)
  BY <1>1, <1>2, LatestOfPrefix DEF LivePayload, PayloadAt
<1>4. /\ Log!Extends(Folded(LivePayload), Folded(PayloadAt(n)))
      /\ Log!Extends(Folded(PayloadAt(n)), Folded(PayloadAt(final)))
  BY <1>2, LogFacts DEF LaneInv, VersionsExtend
<1>5. LatestPayload(SubSeq(anchors, 1, final))' =
          LatestPayload(SubSeq(anchors, 1, final))
  <2>1. SubSeq(anchors', 1, final) = SubSeq(anchors, 1, final)
    BY <1>1, <1>2
  <2> QED
    BY <1>2, <2>1
<1>6. Log!Retract
  BY <1>2, <1>3, <1>4, <1>5, LogFacts DEF Log!Retract
<1> QED
  BY <1>6 DEF Log!Next

LEMMA FinaliseRefines ==
    ASSUME LaneInv, Finalise PROVE [Log!Next]_Log!logVars
<1>1. /\ final' = final + 1 /\ final' \in 0..Len(anchors)
      /\ final \in 0..Len(anchors) /\ Len(anchors) \in Nat
      /\ anchors \in Seq(Bundle) /\ UNCHANGED <<anchors, stored>>
  BY LogFacts DEF Finalise, LaneInv, LaneTypeOK
<1>2. LatestPayload(SubSeq(anchors, 1, final))' = PayloadAt(final')
  BY <1>1, LatestOfPrefix DEF PayloadAt
<1>3. /\ Log!Extends(Folded(PayloadAt(final')), Folded(PayloadAt(final)))
      /\ Log!Extends(Folded(LivePayload), Folded(PayloadAt(final')))
  BY <1>1, LogFacts DEF LaneInv, VersionsExtend
<1>4. LivePayload' = LivePayload
  BY <1>1 DEF LivePayload
<1>5. Log!Settle
  BY <1>1, <1>2, <1>3, <1>4, LogFacts DEF Log!Settle
<1> QED
  BY <1>5 DEF Log!Next

\* Everything else leaves the log alone, or publishes a payload.
LEMMA AsideRefines ==
    ASSUME UNCHANGED <<anchors, final>>, stored \subseteq stored'
    PROVE  [Log!Next]_Log!logVars
<1>1. Log!Publish
  BY DEF Log!Publish, LivePayload
<1> QED
  BY <1>1 DEF Log!Next

\* The lane implements the append-only log of VouchLog: relays, registry and
\* storage together give what none of them checks alone.
THEOREM LaneImplementsLog == Spec => ImplementsVouchLog
<1>1. Init => Log!Init
  <2> SUFFICES ASSUME Init PROVE Log!Init
    OBVIOUS
  <2>1. LaneInv
    BY InitLane
  <2>2. PayloadAt(Len(anchors)) = <<>> /\ PayloadAt(final) = <<>>
    BY DEF Init, PayloadAt
  <2>3. /\ LivePayload = <<>>
        /\ LatestPayload(SubSeq(anchors, 1, final)) = <<>>
    BY <2>1, <2>2, LogFacts
  <2>4. Folded(<<>>) = <<>>
    BY FoldedFacts, EmptySeq DEF Payload
  <2> QED
    BY <2>3, <2>4 DEF Log!Init, Init
<1>2. LaneInv /\ LaneInv' /\ [Next]_vars => [Log!Next]_Log!logVars
  <2> SUFFICES ASSUME LaneInv, LaneInv', [Next]_vars
               PROVE  [Log!Next]_Log!logVars
    OBVIOUS
  <2>1. CASE UNCHANGED vars
    BY <2>1, AsideRefines DEF vars
  <2>2. ASSUME NEW h \in Handlers, NEW b \in signed, Mine(h, b)
        PROVE  [Log!Next]_Log!logVars
    BY <2>2, MineRefines
  <2>3. ASSUME NEW h \in Handlers, NEW b \in signed, Post(h, b)
        PROVE  [Log!Next]_Log!logVars
    BY <2>3, AsideRefines DEF Post, chainVars
  <2>4. ASSUME NEW h \in Handlers, Relaying(h) PROVE [Log!Next]_Log!logVars
    <3>1. UNCHANGED <<anchors, final>> /\ stored \subseteq stored'
      BY <2>4 DEF Relaying, Respond, Admit, Store, StoreFails, Send, SendFails,
         Conclude, ReadFails, chainVars
    <3> QED
      BY <3>1, AsideRefines
  <2>5. ASSUME NEW op \in Operations, Sign(op) PROVE [Log!Next]_Log!logVars
    BY <2>5, AsideRefines DEF Sign, chainVars
  <2>6. CASE Reorg
    BY <2>6, ReorgRefines
  <2>7. CASE Finalise
    BY <2>7, FinaliseRefines
  <2>8. CASE IndexAnchor \/ IndexRewind
    BY <2>8, AsideRefines DEF IndexAnchor, IndexRewind, chainVars
  <2> QED
    BY <2>1, <2>2, <2>3, <2>4, <2>5, <2>6, <2>7, <2>8 DEF Next
<1> QED
  BY <1>1, <1>2, LaneInvariant, PTL DEF Spec, ImplementsVouchLog, Log!Spec

=============================================================================
