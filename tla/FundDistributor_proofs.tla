----------------------- MODULE FundDistributor_proofs -----------------------
(***************************************************************************)
(* Theorems about FundDistributor, for every tree, token, fee and timing.  *)
(*                                                                         *)
(* The argument rests on one equation: the seconds since deployment are    *)
(* the seconds spent open plus PausedSoFar (Clock).  Each round keeps the  *)
(* same equation as it stood when it was funded, so the deadline the code  *)
(* computes is the promised window less the seconds the round has been     *)
(* open, and a sweep and a claim exclude each other.                       *)
(*                                                                         *)
(* Money is a sum over rounds: Covered says that the balance of a token is *)
(* what its rounds owe, so that no round pays with another's funds.  Within *)
(* a round of an honest tree, what nobody has collected yet is at most what *)
(* is left to collect (FitsIn), by the rounding of each share.             *)
(***************************************************************************)
EXTENDS FundDistributor, SumTheorems, FiniteSetTheorems, TLAPS

Round == [tree : {t \in Trees : t.total # 0}, distributor : Funders, token : Tokens,
          amountFunded : Int, amountDistributed : Int, feeAmount : Int,
          timestamp : Int, claimDeadline : Int, sweptAmount : Int,
          pausedDuration : Int, openedAt : Int]

(***************************************************************************)
(* The inductive invariant.                                                *)
(***************************************************************************)
FundTypeOK ==
    /\ latest \in [Snapshots -> Trees \cup {NoTree}]
    /\ merkleSnapshot \in Snapshots
    /\ feePercentage \in Rates
    /\ pendingFeePercentage \in Rates
    /\ pendingFeeEffectiveAt \in Int
    /\ distributions \in Seq(Round)
    /\ claimed \in Seq([Accounts -> Int])
    /\ Len(claimed) = Len(distributions)
    /\ paused \in BOOLEAN
    /\ pauseStartedAt \in Int
    /\ totalPausedDuration \in Int
    /\ now \in Int
    /\ openSeconds \in Int
    /\ noticed \in [0..HigherOf(feePercentage, pendingFeePercentage) -> Int]

\* Time is either open or paused.
Clock == now - 1 = openSeconds + PausedSoFar

\* A round was funded at a time the clock counted the same way, owes no less
\* than nothing, and was swept only once its window had run out.
SoundAt(open, d) ==
    /\ d.timestamp - 1 = d.openedAt + d.pausedDuration
    /\ d.amountFunded - d.feeAmount - d.amountDistributed - d.sweptAmount >= 0
    /\ d.sweptAmount # 0 =>
          d.claimDeadline # 0 /\ open - d.openedAt > d.claimDeadline - d.timestamp

Sound(d) == SoundAt(openSeconds, d)

RoundsSound == \A i \in 1..Len(distributions) : Sound(distributions[i])

\* Rates in force had their notice; a scheduled one will have had it.
Notice ==
    /\ \A p \in DOMAIN noticed : noticed[p] <= now
    /\ \A p \in 0..feePercentage : noticed[p] + FEE_INCREASE_DELAY <= now
    /\ pendingFeeEffectiveAt # 0 =>
          \A p \in 0..pendingFeePercentage :
              noticed[p] + FEE_INCREASE_DELAY <= pendingFeeEffectiveAt

FundInv == FundTypeOK /\ Clock /\ RoundsSound /\ Notice

\* No round owes less than nothing: the claims and the sweep of one round
\* never pay out more than it was funded with after its fee.
NoRoundOverpays == \A i \in 1..Len(distributions) : Owed(distributions[i]) >= 0

(***************************************************************************)
(* Arithmetic of the fee and of the windows.                               *)
(***************************************************************************)
\* mulDiv of an amount by a rate up to the range is at most the amount.
LEMMA FeeWithin ==
    ASSUME NEW a \in Nat, NEW r \in Nat \ {0}, NEW p \in 0..r
    PROVE  MulDiv(a, p, r) \in Int /\ MulDiv(a, p, r) <= a
  <1>1. a * p \in Nat /\ a * p <= a * r
    OBVIOUS
  <1> DEFINE q == (a * p) \div r
  <1>2. q \in Int /\ q * r <= a * p
    BY <1>1
  <1>3. q * r <= a * r /\ q \in Int
    BY <1>1, <1>2
  <1> HIDE DEF q
  <1>4. q <= a
    <2> SUFFICES ASSUME q >= a + 1 PROVE FALSE
      BY <1>3
    <2>1. q * r >= (a + 1) * r
      BY <1>3
    <2>2. (a + 1) * r = a * r + r
      OBVIOUS
    <2> QED BY <1>3, <2>1, <2>2
  <1> QED BY <1>3, <1>4 DEF q, MulDiv

\* What the code computes as left of a window is what was promised of it less
\* the seconds the round has been open.
LEMMA DeadlineIsTheWindow ==
    ASSUME FundTypeOK, Clock, NEW d \in Round, Sound(d)
    PROVE  EffectiveClaimDeadline(d) - now = Promised(d) - HasBeenOpen(d)
  <1>1. PausedSoFar \in Int /\ now \in Int /\ openSeconds \in Int
    BY DEF FundTypeOK, PausedSoFar
  <1>2. /\ d.timestamp \in Int /\ d.openedAt \in Int /\ d.pausedDuration \in Int
        /\ d.claimDeadline \in Int
    BY DEF Round
  <1>3. now - 1 = openSeconds + PausedSoFar
    BY DEF Clock
  <1>4. d.timestamp - 1 = d.openedAt + d.pausedDuration
    BY DEF Sound, SoundAt
  <1> QED BY <1>1, <1>2, <1>3, <1>4 DEF EffectiveClaimDeadline, Promised, HasBeenOpen

\* The window of a round is open, or over, by the seconds it has been open.
LEMMA WindowOpenOrOver ==
    ASSUME FundTypeOK, Clock, NEW d \in Round, Sound(d)
    PROVE  /\ ClaimsOpen(d) <=> (d.claimDeadline = 0 \/ HasBeenOpen(d) <= Promised(d))
           /\ SweepOpen(d) <=> (d.claimDeadline # 0 /\ HasBeenOpen(d) > Promised(d))
  <1>1. PausedSoFar \in Int
    BY DEF FundTypeOK, PausedSoFar
  <1>2. /\ EffectiveClaimDeadline(d) \in Int /\ now \in Int
        /\ Promised(d) \in Int /\ HasBeenOpen(d) \in Int
    BY <1>1 DEF FundTypeOK, EffectiveClaimDeadline, Promised, HasBeenOpen, Round
  <1> QED BY <1>2, DeadlineIsTheWindow DEF ClaimsOpen, SweepOpen

(***************************************************************************)
(* The initial states.                                                     *)
(***************************************************************************)
\* The constructor establishes the invariant.
LEMMA InitInv == Init => FundInv
  <1> SUFFICES ASSUME Init PROVE FundInv
    OBVIOUS
  <1> USE DistributorAssumption
  <1>1. feePercentage \in Rates
    BY DEF Init, Rates
  <1>2. HigherOf(feePercentage, pendingFeePercentage) = feePercentage
    BY <1>1 DEF Init, HigherOf, Rates
  <1>3. noticed \in [0..HigherOf(feePercentage, pendingFeePercentage) -> Int]
    BY <1>2 DEF Init
  <1>4. FundTypeOK
    <2>1. distributions \in Seq(Round) /\ claimed \in Seq([Accounts -> Int])
      BY DEF Init
    <2>2. Len(claimed) = Len(distributions)
      BY DEF Init
    <2>3. latest \in [Snapshots -> Trees \cup {NoTree}] /\ merkleSnapshot \in Snapshots
      BY DEF Init
    <2>4. /\ pendingFeePercentage \in Rates /\ pendingFeeEffectiveAt \in Int
          /\ pauseStartedAt \in Int /\ totalPausedDuration \in Int
          /\ now \in Int /\ openSeconds \in Int
      BY DEF Init, Rates
    <2>5. paused \in BOOLEAN
      BY Zenon DEF Init
    <2> QED BY <1>1, <1>3, <2>1, <2>2, <2>3, <2>4, <2>5 DEF FundTypeOK
  <1>5. Clock
    BY DEF Init, Clock, PausedSoFar
  <1>6. RoundsSound
    BY DEF Init, RoundsSound
  <1>7. Notice
    BY <1>1, <1>2, <1>3 DEF Init, Notice, Rates
  <1> QED BY <1>4, <1>5, <1>6, <1>7 DEF FundInv

\* A sound round stays sound as time is spent open.
LEMMA SoundLater ==
    ASSUME NEW open \in Int, NEW later \in Int, later >= open, NEW d \in Round,
           SoundAt(open, d)
    PROVE  SoundAt(later, d)
  BY DEF SoundAt, Round

(***************************************************************************)
(* What leaves the rounds, the fee or the clock alone.                     *)
(***************************************************************************)
\* A step that moves neither the rounds nor the clock keeps the rounds sound.
LEMMA RoundsStandStill ==
    ASSUME RoundsSound, UNCHANGED <<distributions, openSeconds>>
    PROVE  RoundsSound'
  BY DEF RoundsSound, Sound

\* A step that moves neither the pause nor the clock keeps the clock.
LEMMA ClockStandsStill ==
    ASSUME Clock, UNCHANGED <<pauseVars, clockVars>>
    PROVE  Clock'
  BY DEF Clock, PausedSoFar, pauseVars, clockVars

\* A step that moves neither a rate nor the clock keeps the notice.
LEMMA NoticeStandsStill ==
    ASSUME Notice, UNCHANGED <<feePercentage, pendingFeePercentage,
                               pendingFeeEffectiveAt, noticed, now>>
    PROVE  Notice'
  BY DEF Notice

\* What the owner and the world do besides fees and pauses keeps everything.
LEMMA QuietStep ==
    ASSUME FundInv,
           \/ \E r \in Recipients : SetFeeRecipient(r)
           \/ \E s \in Snapshots : SetMerkleSnapshot(s)
           \/ \E enabled \in BOOLEAN : SetAllowlistEnabled(enabled)
           \/ \E f \in Funders, can \in BOOLEAN : UpdateDistributorAllowance(f, can)
           \/ \E s \in Snapshots, tree \in Trees : Report(s, tree)
           \/ UNCHANGED vars
    PROVE  FundInv'
  <1>1. UNCHANGED <<feePercentage, pendingFeePercentage, pendingFeeEffectiveAt,
                    noticed, roundVars, pauseVars, clockVars>>
    BY DEF SetFeeRecipient, SetMerkleSnapshot, SetAllowlistEnabled,
           UpdateDistributorAllowance, Report, vars, feeVars
  <1>2. merkleSnapshot' \in Snapshots
    BY DEF FundInv, FundTypeOK, SetFeeRecipient, SetMerkleSnapshot,
           SetAllowlistEnabled, UpdateDistributorAllowance, Report, vars,
           snapshotVars
  <1>3. latest' \in [Snapshots -> Trees \cup {NoTree}]
    BY DEF FundInv, FundTypeOK, SetFeeRecipient, SetMerkleSnapshot,
           SetAllowlistEnabled, UpdateDistributorAllowance, Report, vars,
           snapshotVars
  <1>4. FundTypeOK'
    BY <1>1, <1>2, <1>3 DEF FundInv, FundTypeOK, roundVars, pauseVars, clockVars
  <1> QED
    BY <1>1, <1>4, RoundsStandStill, ClockStandsStill, NoticeStandsStill
    DEF FundInv, roundVars, clockVars

(***************************************************************************)
(* Fees.                                                                   *)
(***************************************************************************)
\* What the two ways of changing a rate share: the rounds and the clock stay,
\* the rates announced are recomputed.
RateStep ==
    /\ Announced
    /\ feePercentage' \in Rates /\ pendingFeePercentage' \in Rates
    /\ pendingFeeEffectiveAt' \in Int
    /\ UNCHANGED <<snapshotVars, roundVars, pauseVars, clockVars>>

\* A rate change keeps types; a rate already noticed keeps its date, another
\* one is noticed now.
LEMMA RatesTyped ==
    ASSUME FundInv, RateStep
    PROVE  /\ FundTypeOK'
           /\ \A p \in DOMAIN noticed' :
                 noticed'[p] = IF p \in DOMAIN noticed THEN noticed[p] ELSE now
           /\ DOMAIN noticed' = 0..HigherOf(feePercentage', pendingFeePercentage')
           /\ \A p \in DOMAIN noticed' : noticed'[p] <= now'
  <1>1. now \in Int /\ now' = now
    BY DEF FundInv, FundTypeOK, RateStep, clockVars
  <1>2. /\ DOMAIN noticed' = 0..HigherOf(feePercentage', pendingFeePercentage')
        /\ \A p \in DOMAIN noticed' :
              noticed'[p] = IF p \in DOMAIN noticed THEN noticed[p] ELSE now
    BY DEF RateStep, Announced
  <1>3. \A p \in DOMAIN noticed : noticed[p] \in Int /\ noticed[p] <= now
    BY DEF FundInv, FundTypeOK, Notice
  <1>4. \A p \in DOMAIN noticed' : noticed'[p] \in Int /\ noticed'[p] <= now'
    BY <1>1, <1>2, <1>3
  <1>5. noticed' \in [0..HigherOf(feePercentage', pendingFeePercentage') -> Int]
    BY <1>2, <1>4 DEF RateStep, Announced
  <1>6. FundTypeOK'
    BY <1>1, <1>5 DEF FundInv, FundTypeOK, RateStep, snapshotVars, roundVars,
       pauseVars, clockVars
  <1> QED BY <1>2, <1>4, <1>6

\* Every rate up to the one in force, and up to the one announced, is noticed.
LEMMA RatesNoticed ==
    ASSUME FundTypeOK
    PROVE  /\ DOMAIN noticed = 0..HigherOf(feePercentage, pendingFeePercentage)
           /\ 0..feePercentage \subseteq DOMAIN noticed
           /\ 0..pendingFeePercentage \subseteq DOMAIN noticed
           /\ feePercentage \in Nat /\ pendingFeePercentage \in Nat
  <1>1. feePercentage \in Nat /\ pendingFeePercentage \in Nat
    BY DistributorAssumption DEF FundTypeOK, Rates
  <1>2. /\ HigherOf(feePercentage, pendingFeePercentage) \in Nat
        /\ feePercentage <= HigherOf(feePercentage, pendingFeePercentage)
        /\ pendingFeePercentage <= HigherOf(feePercentage, pendingFeePercentage)
    BY <1>1 DEF HigherOf
  <1>3. DOMAIN noticed = 0..HigherOf(feePercentage, pendingFeePercentage)
    BY DEF FundTypeOK
  <1> QED BY <1>1, <1>2, <1>3

\* Setting the fee keeps the notice: a lower rate has had it, a higher one is
\* given it.
LEMMA SetFeeKeepsNotice ==
    ASSUME FundInv, NEW p \in Rates, SetFeePercentage(p)
    PROVE  FundInv'
  <1>1. feePercentage \in Nat /\ p \in Nat /\ now \in Int /\ FEE_INCREASE_DELAY \in Nat
    BY DistributorAssumption DEF FundInv, FundTypeOK, Rates
  <1>2. RateStep
    BY <1>1, DistributorAssumption
    DEF SetFeePercentage, RateStep, LowerFee, ScheduleFeeIncrease, FundInv,
        FundTypeOK, Rates, feeVars
  <1>3. /\ FundTypeOK'
        /\ \A q \in DOMAIN noticed' :
              noticed'[q] = IF q \in DOMAIN noticed THEN noticed[q] ELSE now
        /\ \A q \in DOMAIN noticed' : noticed'[q] <= now'
    BY <1>2, RatesTyped
  <1>4. /\ 0..feePercentage' \subseteq DOMAIN noticed'
        /\ 0..pendingFeePercentage' \subseteq DOMAIN noticed'
    BY <1>3 DEF FundTypeOK, HigherOf, Rates
  <1>5. 0..feePercentage \subseteq DOMAIN noticed
    BY RatesNoticed DEF FundInv
  <1>6. feePercentage' <= feePercentage /\ feePercentage' \in Nat
    BY <1>1 DEF SetFeePercentage, LowerFee, ScheduleFeeIncrease
  <1>7. now' = now
    BY <1>2 DEF RateStep, clockVars
  <1>8. \A q \in 0..feePercentage' : noticed'[q] + FEE_INCREASE_DELAY <= now'
    <2> SUFFICES ASSUME NEW q \in 0..feePercentage'
                 PROVE  noticed'[q] + FEE_INCREASE_DELAY <= now'
      OBVIOUS
    <2>1. q \in 0..feePercentage
      BY <1>1, <1>6
    <2>2. noticed[q] + FEE_INCREASE_DELAY <= now
      BY <2>1 DEF FundInv, Notice
    <2>3. noticed'[q] = noticed[q]
      BY <1>3, <1>4, <1>5, <2>1
    <2> QED BY <1>7, <2>2, <2>3
  <1>9. pendingFeeEffectiveAt' # 0 =>
           \A q \in 0..pendingFeePercentage' :
               noticed'[q] + FEE_INCREASE_DELAY <= pendingFeeEffectiveAt'
    <2> SUFFICES ASSUME pendingFeeEffectiveAt' # 0,
                        NEW q \in 0..pendingFeePercentage'
                 PROVE  noticed'[q] + FEE_INCREASE_DELAY <= pendingFeeEffectiveAt'
      OBVIOUS
    <2>1. pendingFeeEffectiveAt' = now + FEE_INCREASE_DELAY
      BY DEF SetFeePercentage, LowerFee, ScheduleFeeIncrease
    <2>2. noticed'[q] <= now /\ noticed'[q] \in Int
      BY <1>3, <1>4, <1>7 DEF FundTypeOK
    <2> QED BY <1>1, <2>1, <2>2
  <1>10. Notice'
    BY <1>3, <1>8, <1>9 DEF Notice
  <1> QED
    BY <1>2, <1>3, <1>10, RoundsStandStill, ClockStandsStill
    DEF FundInv, RateStep, roundVars, clockVars

\* Applying the scheduled increase keeps the notice: its date has come.
LEMMA ApplyKeepsNotice ==
    ASSUME FundInv, ApplyFeePercentageIncrease
    PROVE  FundInv'
  <1>1. RateStep
    BY DistributorAssumption
    DEF ApplyFeePercentageIncrease, RateStep, FundInv, FundTypeOK, Rates
  <1>2. /\ FundTypeOK'
        /\ \A q \in DOMAIN noticed' :
              noticed'[q] = IF q \in DOMAIN noticed THEN noticed[q] ELSE now
        /\ \A q \in DOMAIN noticed' : noticed'[q] <= now'
    BY <1>1, RatesTyped
  <1>3. 0..feePercentage' \subseteq DOMAIN noticed'
    BY <1>2 DEF FundTypeOK, HigherOf, Rates
  <1>4. 0..pendingFeePercentage \subseteq DOMAIN noticed
    BY RatesNoticed DEF FundInv
  <1>5. /\ feePercentage' = pendingFeePercentage
        /\ pendingFeeEffectiveAt # 0 /\ now >= pendingFeeEffectiveAt
        /\ pendingFeeEffectiveAt' = 0
    BY DEF ApplyFeePercentageIncrease
  <1>6. now' = now /\ now \in Int /\ pendingFeeEffectiveAt \in Int
    BY <1>1 DEF RateStep, clockVars, FundInv, FundTypeOK
  <1>7. \A q \in 0..feePercentage' : noticed'[q] + FEE_INCREASE_DELAY <= now'
    <2> SUFFICES ASSUME NEW q \in 0..feePercentage'
                 PROVE  noticed'[q] + FEE_INCREASE_DELAY <= now'
      OBVIOUS
    <2>1. noticed[q] + FEE_INCREASE_DELAY <= pendingFeeEffectiveAt
      BY <1>5 DEF FundInv, Notice
    <2>2. noticed'[q] = noticed[q] /\ noticed[q] \in Int
      BY <1>2, <1>3, <1>4, <1>5 DEF FundInv, FundTypeOK
    <2> QED BY <1>5, <1>6, <2>1, <2>2, DistributorAssumption
  <1>8. Notice'
    BY <1>2, <1>5, <1>7 DEF Notice
  <1> QED
    BY <1>1, <1>2, <1>8, RoundsStandStill, ClockStandsStill
    DEF FundInv, RateStep, roundVars, clockVars

(***************************************************************************)
(* Time and pauses.                                                        *)
(***************************************************************************)
\* A second more leaves every swept window over and every notice given.
LEMMA TimeKeepsInv ==
    ASSUME FundInv, TimePasses
    PROVE  FundInv'
  <1>1. /\ now \in Int /\ openSeconds \in Int /\ totalPausedDuration \in Int
        /\ pauseStartedAt \in Int /\ FEE_INCREASE_DELAY \in Nat
    BY DistributorAssumption DEF FundInv, FundTypeOK
  <1>2. /\ now' = now + 1
        /\ openSeconds' = IF paused THEN openSeconds ELSE openSeconds + 1
        /\ UNCHANGED <<snapshotVars, feeVars, allowVars, roundVars, pauseVars>>
    BY DEF TimePasses
  <1>3. FundTypeOK'
    BY <1>1, <1>2
    DEF FundInv, FundTypeOK, snapshotVars, feeVars, roundVars, pauseVars
  <1>4. Clock'
    <2>1. now - 1 = openSeconds + PausedSoFar
      BY DEF FundInv, Clock
    <2>2. CASE paused
      BY <1>1, <1>2, <2>1, <2>2 DEF Clock, PausedSoFar, pauseVars
    <2>3. CASE ~paused
      BY <1>1, <1>2, <2>1, <2>3 DEF Clock, PausedSoFar, pauseVars
    <2> QED BY <2>2, <2>3
  <1>5. RoundsSound'
    <2> SUFFICES ASSUME NEW i \in 1..Len(distributions) PROVE SoundAt(openSeconds', distributions'[i])
      BY <1>2 DEF RoundsSound, roundVars, Sound
    <2>1. distributions'[i] = distributions[i] /\ openSeconds' >= openSeconds
      BY <1>1, <1>2 DEF roundVars
    <2>2. distributions[i] \in Round /\ SoundAt(openSeconds, distributions[i])
      BY DEF FundInv, FundTypeOK, RoundsSound, Sound
    <2>3. openSeconds' \in Int
      BY <1>1, <1>2
    <2> QED BY <1>1, <2>1, <2>2, <2>3, SoundLater
  <1>6. Notice'
    <2>1. /\ \A p \in DOMAIN noticed : noticed[p] \in Int /\ noticed[p] <= now
          /\ \A p \in 0..feePercentage : noticed[p] + FEE_INCREASE_DELAY <= now
          /\ 0..feePercentage \subseteq DOMAIN noticed
      BY RatesNoticed DEF FundInv, FundTypeOK, Notice
    <2>2. UNCHANGED <<feePercentage, pendingFeePercentage, pendingFeeEffectiveAt,
                      noticed>>
      BY <1>2 DEF feeVars
    <2>3. \A p \in DOMAIN noticed : noticed[p] <= now'
      BY <1>1, <1>2, <2>1
    <2>4. \A p \in 0..feePercentage : noticed[p] + FEE_INCREASE_DELAY <= now'
      BY <1>1, <1>2, <2>1
    <2> QED BY <2>2, <2>3, <2>4 DEF FundInv, Notice
  <1> QED BY <1>3, <1>4, <1>5, <1>6 DEF FundInv

\* pause() and unpause() move no second between the open and the paused.
LEMMA PauseKeepsInv ==
    ASSUME FundInv, Pause \/ Unpause
    PROVE  FundInv'
  <1>1. /\ now \in Int /\ openSeconds \in Int /\ totalPausedDuration \in Int
        /\ pauseStartedAt \in Int
    BY DEF FundInv, FundTypeOK
  <1>2. UNCHANGED <<snapshotVars, feeVars, allowVars, roundVars, clockVars>>
    BY DEF Pause, Unpause
  <1>3. paused' \in BOOLEAN
    BY Zenon DEF Pause, Unpause
  <1>4. pauseStartedAt' \in Int /\ totalPausedDuration' \in Int
    BY <1>1 DEF Pause, Unpause
  <1>5. FundTypeOK'
    BY <1>2, <1>3, <1>4 DEF FundInv, FundTypeOK, snapshotVars, feeVars, roundVars,
       clockVars
  <1>6. Clock'
    <2>1. now - 1 = openSeconds + PausedSoFar /\ UNCHANGED clockVars
      BY <1>2 DEF FundInv, Clock
    <2>2. CASE Pause
      BY <1>1, <2>1, <2>2 DEF Clock, PausedSoFar, Pause, clockVars
    <2>3. CASE Unpause
      BY <1>1, <2>1, <2>3 DEF Clock, PausedSoFar, Unpause, clockVars
    <2> QED BY <2>2, <2>3
  <1> QED
    BY <1>2, <1>5, <1>6, RoundsStandStill, NoticeStandsStill
    DEF FundInv, roundVars, clockVars, feeVars

(***************************************************************************)
(* Rounds.                                                                 *)
(***************************************************************************)
\* What the three calls that move funds leave alone.
FundsStep ==
    /\ UNCHANGED <<snapshotVars, feeVars, allowVars, pauseVars, clockVars>>
    /\ distributions' \in Seq(Round)
    /\ claimed' \in Seq([Accounts -> Int])
    /\ Len(claimed') = Len(distributions')

\* They keep the invariant when every round stays sound.
LEMMA FundsKeepInv ==
    ASSUME FundInv, FundsStep, RoundsSound'
    PROVE  FundInv'
  <1>1. FundTypeOK'
    BY DEF FundInv, FundTypeOK, FundsStep, snapshotVars, feeVars, pauseVars, clockVars
  <1> QED
    BY <1>1, ClockStandsStill, NoticeStandsStill DEF FundInv, FundsStep, feeVars,
       clockVars

\* A new round owes what was funded less a fee that is part of it, and starts
\* at the clock's reading.
LEMMA DistributeKeepsInv ==
    ASSUME FundInv, NEW f \in Funders, NEW tree \in Trees, NEW token \in Tokens,
           NEW amount \in Amounts, NEW window \in Windows, NEW cap \in FeeCaps,
           NEW r \in Recipients,
           Distribute(f, tree, token, amount, window, cap, r)
    PROVE  FundInv'
  <1> DEFINE funded == Funded(token, amount)
             d == NewRound(f, tree, token, funded, window)
  <1>1. funded \in Nat
    BY DistributorAssumption DEF Funded, Arrives
  <1>2. FeeOf(funded) \in Int /\ FeeOf(funded) <= funded
    BY <1>1, FeeWithin, DistributorAssumption DEF FeeOf, FundInv, FundTypeOK, Rates
  <1>3. /\ now \in Int /\ openSeconds \in Int /\ totalPausedDuration \in Int
        /\ window \in Nat
    BY DistributorAssumption DEF FundInv, FundTypeOK
  <1>4. tree.total # 0
    BY DEF Distribute
  <1>5. (IF window = 0 THEN 0 ELSE now + window) \in Int
    BY <1>3
  <1> HIDE DEF funded
  <1>6. /\ d \in Round
        /\ d.timestamp = now /\ d.openedAt = openSeconds
        /\ d.pausedDuration = totalPausedDuration
        /\ d.amountFunded = funded /\ d.feeAmount = FeeOf(funded)
        /\ d.amountDistributed = 0 /\ d.sweptAmount = 0
    BY <1>1, <1>2, <1>3, <1>4, <1>5 DEF NewRound, Round
  <1>7. /\ distributions' = Append(distributions, d)
        /\ claimed' = Append(claimed, [a \in Accounts |-> 0])
        /\ ~paused
    BY DEF Distribute, funded
  <1>8. UNCHANGED <<snapshotVars, feeVars, allowVars, pauseVars, clockVars>>
    BY DEF Distribute
  <1>9. now - 1 = openSeconds + totalPausedDuration
    BY <1>3, <1>7 DEF FundInv, Clock, PausedSoFar
  <1> HIDE DEF d
  <1>10. FundsStep
    <2>1. distributions \in Seq(Round) /\ claimed \in Seq([Accounts -> Int])
          /\ Len(claimed) = Len(distributions)
      BY DEF FundInv, FundTypeOK
    <2>2. [a \in Accounts |-> 0] \in [Accounts -> Int]
      OBVIOUS
    <2> QED BY <1>6, <1>7, <1>8, <2>1, <2>2 DEF FundsStep
  <1>11. RoundsSound'
    <2> SUFFICES ASSUME NEW i \in 1..Len(distributions') PROVE SoundAt(openSeconds', distributions'[i])
      BY DEF RoundsSound, Sound
    <2>1. distributions \in Seq(Round) /\ openSeconds' = openSeconds
      BY <1>8 DEF FundInv, FundTypeOK, clockVars
    <2>2. CASE i = Len(distributions) + 1
      <3>1. distributions'[i] = d
        BY <1>7, <2>1, <2>2
      <3>2. SoundAt(openSeconds, d)
        BY <1>1, <1>2, <1>6, <1>9 DEF SoundAt
      <3> QED BY <2>1, <3>1, <3>2
    <2>3. CASE i \in 1..Len(distributions)
      <3>1. distributions'[i] = distributions[i] /\ Sound(distributions[i])
        BY <1>7, <2>1, <2>3 DEF FundInv, RoundsSound
      <3> QED BY <2>1, <3>1 DEF Sound
    <2> QED BY <1>7, <2>1, <2>2, <2>3
  <1> QED BY <1>10, <1>11, FundsKeepInv

\* The round a claim or a sweep is of.
LEMMA RoundAt ==
    ASSUME FundInv, NEW i \in DOMAIN distributions
    PROVE  /\ distributions[i] \in Round /\ Sound(distributions[i])
           /\ i \in 1..Len(distributions)
  BY DEF FundInv, FundTypeOK, RoundsSound

\* What a round and the clock are made of.
LEMMA RoundTyped ==
    ASSUME FundInv, NEW d \in Round
    PROVE  /\ d.amountFunded \in Int /\ d.feeAmount \in Int
           /\ d.amountDistributed \in Int /\ d.sweptAmount \in Int
           /\ d.claimDeadline \in Int /\ d.timestamp \in Int
           /\ d.openedAt \in Int /\ d.tree \in Trees /\ openSeconds \in Int
  BY DEF FundInv, FundTypeOK, Round

\* Replacing one sound round by another keeps them all sound.
LEMMA OneRoundChanges ==
    ASSUME FundInv, NEW i \in DOMAIN distributions, NEW e \in Round,
           distributions' = [distributions EXCEPT ![i] = e],
           openSeconds' = openSeconds,
           Sound(e)
    PROVE  RoundsSound'
  <1> SUFFICES ASSUME NEW j \in 1..Len(distributions') PROVE SoundAt(openSeconds', distributions'[j])
    BY DEF RoundsSound, Sound
  <1>1. distributions \in Seq(Round)
    BY DEF FundInv, FundTypeOK
  <1>2. Len(distributions') = Len(distributions)
    BY <1>1
  <1>3. distributions'[j] = IF j = i THEN e ELSE distributions[j]
    BY <1>1, <1>2
  <1>4. Sound(distributions'[j])
    BY <1>2, <1>3 DEF FundInv, RoundsSound
  <1> QED BY <1>4 DEF Sound

\* A claim is paid from what a round still owes; a round already swept is past
\* its window, so it pays none.
LEMMA ClaimKeepsInv ==
    ASSUME FundInv, NEW i \in DOMAIN distributions,
           NEW leaf \in distributions[i].tree.leaves, Claim(i, leaf)
    PROVE  /\ FundInv'
           /\ distributions[i].sweptAmount = 0
  <1> DEFINE d == distributions[i]
             amount == Share(d, leaf[2])
             e == [d EXCEPT !.amountDistributed = @ + amount]
  <1>1. d \in Round /\ Sound(d) /\ distributions \in Seq(Round)
    BY RoundAt DEF FundInv, FundTypeOK
  <1>2. d.tree.leaves \subseteq Accounts \X Nat /\ d.tree.total \in Nat
    BY <1>1, DistributorAssumption DEF Round
  <1>3. leaf[1] \in Accounts /\ leaf[2] \in Nat
    BY <1>2
  <1>4. ClaimsOpen(d) /\ amount <= RemainingBudget(d) /\ amount # 0
    BY DEF Claim
  <1>5. d.sweptAmount = 0
    <2>1. d.claimDeadline = 0 \/ HasBeenOpen(d) <= Promised(d)
      BY <1>1, <1>4, WindowOpenOrOver DEF FundInv
    <2>2. d.claimDeadline \in Int /\ HasBeenOpen(d) \in Int /\ Promised(d) \in Int
      BY <1>1, RoundTyped DEF HasBeenOpen, Promised
    <2> QED BY <1>1, <2>1, <2>2 DEF Sound, SoundAt, HasBeenOpen, Promised
  <1>6. amount \in Int
    <2>1. d.tree.total \in Nat \ {0}
      BY <1>1, <1>2 DEF Round
    <2>2. TotalDistributable(d) \in Int
      BY <1>1, RoundTyped DEF TotalDistributable
    <2>3. TotalDistributable(d) * leaf[2] \in Int
      BY <1>3, <2>2
    <2> QED BY <2>1, <2>3 DEF Share, MulDiv
  <1> HIDE DEF amount
  <1>7. d.amountDistributed + amount <= TotalDistributable(d)
    <2>1. Owed(d) >= 0
      BY <1>1 DEF Sound, SoundAt, Owed, TotalDistributable
    <2> QED
      BY <1>1, <1>4, <1>5, <1>6, <2>1, RoundTyped
      DEF RemainingBudget, TotalDistributable, Owed
  <1>8. /\ distributions' = [distributions EXCEPT ![i].amountDistributed = @ + amount]
        /\ claimed' = [claimed EXCEPT ![i][leaf[1]] = amount]
        /\ UNCHANGED <<snapshotVars, feeVars, allowVars, pauseVars, clockVars>>
    BY DEF Claim, amount
  <1>9. distributions' = [distributions EXCEPT ![i] = e]
    BY <1>8
  <1>10. e \in Round
    <2>1. d.amountDistributed + amount \in Int
      BY <1>1, <1>6, RoundTyped
    <2> HIDE DEF d
    <2> QED BY <1>1, <2>1 DEF Round
  <1>11. Sound(e)
    <2> HIDE DEF d
    <2>1. /\ e.amountDistributed = d.amountDistributed + amount
          /\ e.sweptAmount = d.sweptAmount /\ e.timestamp = d.timestamp
          /\ e.openedAt = d.openedAt /\ e.pausedDuration = d.pausedDuration
          /\ e.amountFunded = d.amountFunded /\ e.feeAmount = d.feeAmount
      BY <1>1 DEF Round
    <2> HIDE DEF e
    <2> QED
      BY <1>1, <1>5, <1>6, <1>7, <2>1, RoundTyped DEF Sound, SoundAt, TotalDistributable
  <1>12. FundsStep
    <2>1. claimed \in Seq([Accounts -> Int]) /\ Len(claimed) = Len(distributions)
      BY DEF FundInv, FundTypeOK
    <2>2. i \in 1..Len(claimed) /\ claimed[i] \in [Accounts -> Int]
      BY <1>1, <2>1
    <2>3. [claimed[i] EXCEPT ![leaf[1]] = amount] \in [Accounts -> Int]
      BY <1>6, <2>2
    <2>4. claimed' = [claimed EXCEPT ![i] = [claimed[i] EXCEPT ![leaf[1]] = amount]]
      BY <1>8
    <2>5. claimed' \in Seq([Accounts -> Int]) /\ Len(claimed') = Len(claimed)
      BY <2>1, <2>2, <2>3, <2>4
    <2>6. distributions' \in Seq(Round) /\ Len(distributions') = Len(distributions)
      <3> HIDE DEF e
      <3> QED BY <1>1, <1>9, <1>10
    <2> QED BY <1>8, <2>1, <2>5, <2>6 DEF FundsStep
  <1>13. RoundsSound'
    <2> HIDE DEF e
    <2> QED BY <1>8, <1>9, <1>10, <1>11, OneRoundChanges DEF clockVars
  <1> QED BY <1>5, <1>12, <1>13, FundsKeepInv

\* A sweep takes all a round owes, and marks it swept after its window.
LEMMA SweepKeepsInv ==
    ASSUME FundInv, NEW i \in DOMAIN distributions, Sweep(i)
    PROVE  /\ FundInv'
           /\ distributions[i].claimDeadline # 0
           /\ HasBeenOpen(distributions[i]) > Promised(distributions[i])
  <1> DEFINE d == distributions[i]
             rest == TotalDistributable(d) - d.amountDistributed
             e == [d EXCEPT !.sweptAmount = rest]
  <1>1. d \in Round /\ Sound(d) /\ distributions \in Seq(Round)
    BY RoundAt DEF FundInv, FundTypeOK
  <1>2. SweepOpen(d)
    BY DEF Sweep
  <1>3. d.claimDeadline # 0 /\ HasBeenOpen(d) > Promised(d)
    BY <1>1, <1>2, WindowOpenOrOver DEF FundInv
  <1>4. rest \in Int
    BY <1>1, RoundTyped DEF TotalDistributable
  <1>5. /\ distributions' = [distributions EXCEPT ![i] = e]
        /\ UNCHANGED <<snapshotVars, feeVars, allowVars, pauseVars, clockVars>>
        /\ claimed' = claimed
    BY DEF Sweep
  <1>6. e \in Round
    BY <1>1, <1>4 DEF Round
  <1>7. Sound(e)
    <2>1. /\ e.amountDistributed = d.amountDistributed
          /\ e.sweptAmount = rest /\ e.timestamp = d.timestamp
          /\ e.openedAt = d.openedAt /\ e.pausedDuration = d.pausedDuration
          /\ e.amountFunded = d.amountFunded /\ e.feeAmount = d.feeAmount
          /\ e.claimDeadline = d.claimDeadline
      BY <1>1 DEF Round
    <2>2. /\ d.amountFunded \in Int /\ d.feeAmount \in Int /\ d.amountDistributed \in Int
          /\ rest = d.amountFunded - d.feeAmount - d.amountDistributed
      BY <1>1, RoundTyped DEF TotalDistributable
    <2>3. d.timestamp - 1 = d.openedAt + d.pausedDuration
      BY <1>1 DEF Sound, SoundAt
    <2>4. openSeconds - d.openedAt > d.claimDeadline - d.timestamp
      BY <1>3 DEF HasBeenOpen, Promised
    <2> HIDE DEF e, rest, d
    <2> QED BY <1>3, <1>4, <2>1, <2>2, <2>3, <2>4 DEF Sound, SoundAt
  <1> HIDE DEF e
  <1>8. FundsStep
    <2>1. distributions' \in Seq(Round) /\ Len(distributions') = Len(distributions)
      BY <1>1, <1>5, <1>6
    <2> QED BY <1>5, <2>1 DEF FundsStep, FundInv, FundTypeOK
  <1>9. RoundsSound'
    BY <1>5, <1>6, <1>7, OneRoundChanges DEF clockVars
  <1> QED BY <1>3, <1>8, <1>9, FundsKeepInv

(***************************************************************************)
(* The invariant, and what follows from it.                                *)
(***************************************************************************)
\* Every step keeps the invariant.
LEMMA NextInv == FundInv /\ [Next]_vars => FundInv'
  <1> SUFFICES ASSUME FundInv, [Next]_vars PROVE FundInv'
    OBVIOUS
  <1>1. ASSUME NEW p \in Rates, SetFeePercentage(p) PROVE FundInv'
    BY <1>1, SetFeeKeepsNotice
  <1>2. CASE ApplyFeePercentageIncrease
    BY <1>2, ApplyKeepsNotice
  <1>3. CASE Pause \/ Unpause
    BY <1>3, PauseKeepsInv
  <1>4. CASE TimePasses
    BY <1>4, TimeKeepsInv
  <1>5. CASE Fund
    BY <1>5, DistributeKeepsInv DEF Fund
  <1>6. CASE Collect
    BY <1>6, ClaimKeepsInv DEF Collect
  <1>7. ASSUME NEW i \in DOMAIN distributions, Sweep(i) PROVE FundInv'
    BY <1>7, SweepKeepsInv
  <1>8. CASE \/ \E r \in Recipients : SetFeeRecipient(r)
             \/ \E s \in Snapshots : SetMerkleSnapshot(s)
             \/ \E enabled \in BOOLEAN : SetAllowlistEnabled(enabled)
             \/ \E f \in Funders, can \in BOOLEAN : UpdateDistributorAllowance(f, can)
             \/ \E s \in Snapshots, tree \in Trees : Report(s, tree)
             \/ UNCHANGED vars
    BY <1>8, QuietStep
  <1> QED
    BY <1>1, <1>2, <1>3, <1>4, <1>5, <1>6, <1>7, <1>8 DEF Next, Owner

\* The invariant of FundDistributor.
THEOREM FundInvariant == Spec => []FundInv
  <1> QED BY InitInv, NextInv, PTL DEF Spec

\* The fee rate in force has had its notice, for every schedule of the owner.
THEOREM FeeRisesHadNotice == Spec => []FeeRisesAnnounced
  <1>1. FundInv => FeeRisesAnnounced
    <2> SUFFICES ASSUME FundInv PROVE FeeRisesAnnounced
      OBVIOUS
    <2>1. /\ feePercentage \in Nat /\ feePercentage \in 0..feePercentage
          /\ feePercentage \in DOMAIN noticed
      BY RatesNoticed DEF FundInv
    <2>2. noticed[feePercentage] + FEE_INCREASE_DELAY <= now
      BY <2>1 DEF FundInv, Notice
    <2>3. noticed[feePercentage] \in Int /\ now \in Int
      BY <2>1 DEF FundInv, FundTypeOK
    <2> QED BY <2>1, <2>2, <2>3, DistributorAssumption DEF FeeRisesAnnounced
  <1> QED BY <1>1, FundInvariant, PTL

\* No round pays out more than it was funded with, whatever tree the snapshot
\* reported.
THEOREM RoundsNeverOverpay == Spec => []NoRoundOverpays
  <1>1. FundInv => NoRoundOverpays
    BY DEF FundInv, RoundsSound, Sound, SoundAt, NoRoundOverpays, Owed,
       TotalDistributable
  <1> QED BY <1>1, FundInvariant, PTL

\* Claims are paid only while a round has been open for no longer than promised
\* and sweeps only after, for every sequence of pauses.
THEOREM WindowsAlwaysKept == Spec => WindowsKept
  <1> DEFINE Kept(i) ==
         LET d == distributions[i]
             e == distributions'[i]
         IN  /\ e.amountDistributed # d.amountDistributed /\ d.claimDeadline # 0
                    => /\ HasBeenOpen(d) <= Promised(d)
                       /\ d.sweptAmount = 0
             /\ e.sweptAmount # d.sweptAmount
                    => d.claimDeadline # 0 /\ HasBeenOpen(d) > Promised(d)
  <1>1. FundInv /\ [Next]_vars => [\A i \in DOMAIN distributions : Kept(i)]_vars
    <2> SUFFICES ASSUME FundInv, Next, NEW i \in DOMAIN distributions
                 PROVE  Kept(i)
      OBVIOUS
    <2>1. distributions \in Seq(Round) /\ i \in 1..Len(distributions)
      BY RoundAt DEF FundInv, FundTypeOK
    <2>2. CASE distributions'[i] = distributions[i]
      BY <2>2
    <2>3. CASE Fund
      <3>1. PICK d : distributions' = Append(distributions, d)
        BY <2>3 DEF Fund, Distribute
      <3>2. distributions'[i] = distributions[i]
        BY <2>1, <3>1
      <3> QED BY <2>2, <3>2
    <2>4. ASSUME NEW j \in DOMAIN distributions,
                 NEW leaf \in distributions[j].tree.leaves, Claim(j, leaf)
          PROVE  Kept(i)
      <3>1. distributions' = [distributions EXCEPT ![j].amountDistributed =
                                 @ + Share(distributions[j], leaf[2])]
        BY <2>4 DEF Claim
      <3>2. CASE i # j
        <4>1. distributions'[i] = distributions[i]
          BY <2>1, <3>1, <3>2
        <4> QED BY <2>2, <4>1
      <3>3. CASE i = j
        <4>1. distributions'[i].sweptAmount = distributions[i].sweptAmount
          <5>1. distributions'[i] = [distributions[i] EXCEPT !.amountDistributed =
                                        @ + Share(distributions[j], leaf[2])]
            BY <2>1, <3>1, <3>3
          <5>2. distributions[i] \in Round
            BY <2>1
          <5> QED BY <5>1, <5>2 DEF Round
        <4>2. distributions[i].sweptAmount = 0 /\ ClaimsOpen(distributions[i])
          BY <2>4, <3>3, ClaimKeepsInv DEF Claim
        <4>3. \/ distributions[i].claimDeadline = 0
              \/ HasBeenOpen(distributions[i]) <= Promised(distributions[i])
          BY <4>2, RoundAt, WindowOpenOrOver DEF FundInv
        <4> QED BY <4>1, <4>2, <4>3
      <3> QED BY <3>2, <3>3
    <2>5. ASSUME NEW j \in DOMAIN distributions, Sweep(j) PROVE Kept(i)
      <3>1. distributions' = [distributions EXCEPT ![j].sweptAmount =
               TotalDistributable(distributions[j]) - distributions[j].amountDistributed]
        BY <2>5 DEF Sweep
      <3>2. CASE i # j
        <4>1. distributions'[i] = distributions[i]
          BY <2>1, <3>1, <3>2
        <4> QED BY <2>2, <4>1
      <3>3. CASE i = j
        <4>1. distributions'[i].amountDistributed = distributions[i].amountDistributed
          <5>1. distributions'[i] = [distributions[i] EXCEPT !.sweptAmount =
               TotalDistributable(distributions[j]) - distributions[j].amountDistributed]
            BY <2>1, <3>1, <3>3
          <5>2. distributions[i] \in Round
            BY <2>1
          <5> QED BY <5>1, <5>2 DEF Round
        <4> QED BY <2>5, <3>3, <4>1, SweepKeepsInv
      <3> QED BY <3>2, <3>3
    <2>6. CASE \/ Owner \/ ApplyFeePercentageIncrease \/ TimePasses
               \/ \E s \in Snapshots, tree \in Trees : Report(s, tree)
      <3>1. distributions' = distributions
        BY <2>6 DEF Owner, SetFeePercentage, SetFeeRecipient, SetMerkleSnapshot,
           SetAllowlistEnabled, UpdateDistributorAllowance, Pause, Unpause,
           ApplyFeePercentageIncrease, TimePasses, Report, roundVars
      <3> QED BY <2>2, <3>1
    <2> QED BY <2>3, <2>4, <2>5, <2>6 DEF Next, Collect
  <1> QED BY <1>1, FundInvariant, PTL DEF Spec, WindowsKept

(***************************************************************************)
(* Solvency: what the rounds of a token owe together is what the balance   *)
(* of the token must cover.                                                *)
(***************************************************************************)
\* What a round owes is an integer.
LEMMA OwedInt ==
    ASSUME NEW d \in Round
    PROVE  Owed(d) \in Int /\ TotalDistributable(d) \in Int
  <1>1. /\ d.amountFunded \in Int /\ d.feeAmount \in Int
        /\ d.amountDistributed \in Int /\ d.sweptAmount \in Int
    BY DEF Round
  <1> QED BY <1>1 DEF Owed, TotalDistributable

\* The rounds of a token are finitely many, and owe an integer.
LEMMA OwedByInt ==
    ASSUME NEW s \in Seq(Round), NEW t
    PROVE  /\ IsFiniteSet({i \in DOMAIN s : s[i].token = t})
           /\ OwedBy(s, t) \in Int
  <1> DEFINE f == [i \in DOMAIN s |-> Owed(s[i])]
             I == {i \in DOMAIN s : s[i].token = t}
  <1>1. DOMAIN s = 1..Len(s) /\ Len(s) \in Nat
    OBVIOUS
  <1>2. IsFiniteSet(I)
    <2>1. IsFiniteSet(1..Len(s)) /\ I \in SUBSET (1..Len(s))
      BY <1>1, FS_Interval
    <2> HIDE DEF I
    <2> QED BY <2>1, FS_Subset
  <1>3. \A i \in I : f[i] \in Int
    BY OwedInt
  <1> HIDE DEF f, I
  <1>4. SumFunctionOnSet(f, I) \in Int
    BY <1>2, <1>3, SumIsInt
  <1> QED BY <1>2, <1>4 DEF OwedBy, f, I

\* A new round adds what it owes to what its token owes.
LEMMA OwedWithNewRound ==
    ASSUME NEW s \in Seq(Round), NEW d \in Round, NEW t
    PROVE  OwedBy(Append(s, d), t) =
              IF d.token = t THEN OwedBy(s, t) + Owed(d) ELSE OwedBy(s, t)
  <1> DEFINE r == Append(s, d)
             n == Len(s) + 1
             f == [i \in DOMAIN s |-> Owed(s[i])]
             g == [i \in DOMAIN r |-> Owed(r[i])]
             I == {i \in DOMAIN s : s[i].token = t}
             J == {i \in DOMAIN r : r[i].token = t}
  <1>1. /\ DOMAIN s = 1..Len(s) /\ Len(s) \in Nat
        /\ DOMAIN r = 1..n /\ r[n] = d
        /\ \A i \in 1..Len(s) : r[i] = s[i]
    OBVIOUS
  <1>2. J = IF d.token = t THEN I \cup {n} ELSE I
    <2>1. \A i \in DOMAIN r : i \in J <=> i \in I \/ (i = n /\ d.token = t)
      BY <1>1
    <2>2. J \subseteq DOMAIN r /\ I \subseteq DOMAIN r /\ n \in DOMAIN r
      BY <1>1
    <2> HIDE DEF I, J, r, n
    <2> QED BY <2>1, <2>2
  <1>3. n \notin I
    BY <1>1
  <1>4. \A i \in I : f[i] \in Int /\ f[i] = g[i]
    BY <1>1, OwedInt
  <1>5. g[n] = Owed(d) /\ Owed(d) \in Int
    BY <1>1, OwedInt
  <1>6. IsFiniteSet(I) /\ OwedBy(s, t) = SumFunctionOnSet(f, I)
    BY OwedByInt DEF OwedBy
  <1>7. OwedBy(r, t) = SumFunctionOnSet(g, J)
    BY DEF OwedBy
  <1>8. OwedBy(s, t) \in Int
    BY OwedByInt
  <1> HIDE DEF I, J, f, g, n, r
  <1>9. SumFunctionOnSet(f, I) = SumFunctionOnSet(g, I)
    BY <1>4, <1>6, SumSame
  <1>10. SumFunctionOnSet(g, I \cup {n}) = g[n] + SumFunctionOnSet(g, I)
    <2>1. \A i \in I \cup {n} : g[i] \in Int
      BY <1>4, <1>5
    <2> QED BY <1>3, <1>6, <2>1, SumWith
  <1>11. OwedBy(r, t) = IF d.token = t THEN OwedBy(s, t) + Owed(d) ELSE OwedBy(s, t)
    BY <1>2, <1>5, <1>6, <1>7, <1>8, <1>9, <1>10
  <1> QED BY <1>11 DEF r

\* Replacing a round by another of the same token changes what the token owes
\* by the difference.
LEMMA OwedWithRoundChanged ==
    ASSUME NEW s \in Seq(Round), NEW k \in DOMAIN s, NEW e \in Round,
           e.token = s[k].token, NEW t
    PROVE  OwedBy([s EXCEPT ![k] = e], t) =
              IF e.token = t THEN OwedBy(s, t) + Owed(e) - Owed(s[k])
              ELSE OwedBy(s, t)
  <1> DEFINE r == [s EXCEPT ![k] = e]
             f == [i \in DOMAIN s |-> Owed(s[i])]
             g == [i \in DOMAIN r |-> Owed(r[i])]
             I == {i \in DOMAIN s : s[i].token = t}
             J == {i \in DOMAIN r : r[i].token = t}
  <1>1. /\ DOMAIN r = DOMAIN s /\ r[k] = e
        /\ \A i \in DOMAIN s : i # k => r[i] = s[i]
        /\ \A i \in DOMAIN s : s[i] \in Round /\ r[i] \in Round
    OBVIOUS
  <1>2. J = I
    BY <1>1
  <1>3. /\ \A i \in I : f[i] \in Int /\ g[i] \in Int
        /\ \A i \in I \ {k} : g[i] = f[i]
    BY <1>1, OwedInt
  <1>4. g[k] = Owed(e) /\ f[k] = Owed(s[k])
    BY <1>1
  <1>5. IsFiniteSet(I) /\ OwedBy(s, t) = SumFunctionOnSet(f, I)
    BY OwedByInt DEF OwedBy
  <1>6. OwedBy(r, t) = SumFunctionOnSet(g, J)
    BY DEF OwedBy
  <1>7. k \in I <=> e.token = t
    OBVIOUS
  <1> HIDE DEF I, J, f, g, r
  <1>8. CASE k \in I
    <2>1. SumFunctionOnSet(g, I) = SumFunctionOnSet(f, I) + g[k] - f[k]
      BY <1>3, <1>5, <1>8, SumChange
    <2> QED BY <1>2, <1>4, <1>5, <1>6, <1>7, <1>8, <2>1 DEF r
  <1>9. CASE k \notin I
    <2>1. \A i \in I : f[i] \in Int /\ f[i] = g[i]
      BY <1>3, <1>9
    <2>2. SumFunctionOnSet(f, I) = SumFunctionOnSet(g, I)
      BY <1>5, <2>1, SumSame
    <2> QED BY <1>2, <1>5, <1>6, <1>7, <1>9, <2>2 DEF r
  <1> QED BY <1>8, <1>9

\* The balance covers what the rounds of each token owe.
Covered ==
    /\ balance \in [Tokens -> Int]
    /\ \A t \in Tokens : balance[t] >= OwedOf(t)

\* The deployment owes nothing.
LEMMA InitCovered == Init => Covered
  <1> SUFFICES ASSUME Init PROVE Covered
    OBVIOUS
  <1>1. /\ distributions = <<>> /\ balance = [t \in Tokens |-> 0]
    BY DEF Init
  <1>2. ASSUME NEW t \in Tokens PROVE OwedOf(t) = 0
    <2>1. {i \in DOMAIN distributions : distributions[i].token = t} = {}
      BY <1>1
    <2> QED BY <2>1, SumOfNone DEF OwedOf, OwedBy
  <1>3. balance \in [Tokens -> Int]
    BY <1>1
  <1>4. ASSUME NEW t \in Tokens PROVE balance[t] >= OwedOf(t)
    <2>1. OwedOf(t) = 0 /\ balance[t] = 0
      BY <1>1, <1>2
    <2> QED BY <2>1
  <1> QED BY <1>3, <1>4 DEF Covered

\* distribute() brings in at least what the new round owes: it books what the
\* transfer added, and pays the fee out of it.
LEMMA DistributeKeepsCovered ==
    ASSUME FundInv, Covered, NEW f \in Funders, NEW tree \in Trees,
           NEW token \in Tokens, NEW amount \in Amounts, NEW window \in Windows,
           NEW cap \in FeeCaps, NEW r \in Recipients,
           Distribute(f, tree, token, amount, window, cap, r)
    PROVE  Covered'
  <1> DEFINE funded == Funded(token, amount)
             d == NewRound(f, tree, token, funded, window)
  <1>1. /\ distributions' = Append(distributions, d)
        /\ balance' = [balance EXCEPT ![token] =
                          @ + Arrives(token, amount) - FeeOf(funded)]
    BY DEF Distribute
  <1>2. /\ distributions \in Seq(Round) /\ distributions' \in Seq(Round)
        /\ balance \in [Tokens -> Int]
    BY DistributeKeepsInv DEF FundInv, FundTypeOK, Covered
  <1>3. d \in Round
    <2>1. /\ distributions'[Len(distributions) + 1] = d
          /\ Len(distributions) + 1 \in 1..Len(distributions')
      BY <1>1, <1>2
    <2> QED BY <1>2, <2>1
  <1>4. funded = Arrives(token, amount) /\ funded \in Nat
    BY DistributorAssumption DEF Funded, Arrives
  <1>5. FeeOf(funded) \in Int
    BY <1>4, FeeWithin, DistributorAssumption DEF FeeOf, FundInv, FundTypeOK, Rates
  <1>6. Owed(d) = funded - FeeOf(funded) /\ d.token = token
    <2> HIDE DEF funded
    <2>1. /\ d.amountFunded = funded /\ d.feeAmount = FeeOf(funded)
          /\ d.amountDistributed = 0 /\ d.sweptAmount = 0 /\ d.token = token
      BY DEF NewRound
    <2> HIDE DEF d
    <2> QED BY <1>4, <1>5, <2>1 DEF Owed, TotalDistributable
  <1> HIDE DEF d, funded
  <1>7. balance' \in [Tokens -> Int]
    BY <1>1, <1>2, <1>4, <1>5
  <1>8. ASSUME NEW t \in Tokens PROVE balance'[t] >= OwedBy(distributions', t)
    <2>1. balance[t] >= OwedBy(distributions, t) /\ balance[t] \in Int
      BY <1>2 DEF Covered, OwedOf
    <2>2. OwedBy(distributions, t) \in Int
      BY <1>2, OwedByInt
    <2>3. OwedBy(distributions', t) =
             IF d.token = t THEN OwedBy(distributions, t) + Owed(d)
             ELSE OwedBy(distributions, t)
      BY <1>1, <1>2, <1>3, OwedWithNewRound
    <2>4. balance'[t] = IF token = t THEN balance[t] + funded - FeeOf(funded)
                        ELSE balance[t]
      BY <1>1, <1>2, <1>4
    <2> QED BY <1>4, <1>5, <1>6, <2>1, <2>2, <2>3, <2>4
  <1> QED BY <1>7, <1>8 DEF Covered, OwedOf

\* claim() and sweep() pay out of the balance exactly what their round stops
\* owing.
LEMMA PaidFromItsRound ==
    ASSUME FundInv, Covered, NEW i \in DOMAIN distributions, NEW e \in Round,
           NEW amount \in Int,
           e.token = distributions[i].token,
           Owed(e) = Owed(distributions[i]) - amount,
           distributions' = [distributions EXCEPT ![i] = e],
           balance' = [balance EXCEPT ![distributions[i].token] = @ - amount]
    PROVE  Covered'
  <1>1. /\ distributions \in Seq(Round) /\ balance \in [Tokens -> Int]
        /\ distributions[i] \in Round
    BY RoundAt DEF FundInv, FundTypeOK, Covered
  <1>2. Owed(distributions[i]) \in Int
    BY <1>1, OwedInt
  <1>3. balance' \in [Tokens -> Int]
    <2>1. distributions[i].token \in Tokens
      BY <1>1 DEF Round
    <2> QED BY <1>1, <2>1
  <1>4. ASSUME NEW t \in Tokens PROVE balance'[t] >= OwedBy(distributions', t)
    <2>1. balance[t] >= OwedBy(distributions, t) /\ balance[t] \in Int
      BY <1>1 DEF Covered, OwedOf
    <2>2. OwedBy(distributions, t) \in Int
      BY <1>1, OwedByInt
    <2>3. OwedBy(distributions', t) =
             IF e.token = t THEN OwedBy(distributions, t) + Owed(e)
                                 - Owed(distributions[i])
             ELSE OwedBy(distributions, t)
      <3>1. OwedBy([distributions EXCEPT ![i] = e], t) =
               IF e.token = t THEN OwedBy(distributions, t) + Owed(e)
                                   - Owed(distributions[i])
               ELSE OwedBy(distributions, t)
        BY ONLY <1>1, i \in DOMAIN distributions, e \in Round,
           e.token = distributions[i].token, OwedWithRoundChanged
      <3> QED BY <3>1
    <2>4. balance'[t] = IF distributions[i].token = t THEN balance[t] - amount
                        ELSE balance[t]
      BY <1>1
    <2> QED BY <1>2, <2>1, <2>2, <2>3, <2>4
  <1> QED BY <1>3, <1>4 DEF Covered, OwedOf

\* What a claim pays is an integer: a leaf's share of what a round has to pay.
LEMMA ShareInt ==
    ASSUME NEW d \in Round, NEW leaf \in d.tree.leaves
    PROVE  /\ leaf[1] \in Accounts /\ leaf[2] \in Nat
           /\ d.tree \in Trees /\ d.tree.total \in Nat \ {0}
           /\ Share(d, leaf[2]) \in Int
           /\ d.tree.total * Share(d, leaf[2]) <= TotalDistributable(d) * leaf[2]
  <1>1. d.tree \in Trees /\ d.tree.total \in Nat \ {0}
    BY DistributorAssumption DEF Round
  <1>2. leaf[1] \in Accounts /\ leaf[2] \in Nat
    <2>1. d.tree.leaves \subseteq Accounts \X Nat
      BY <1>1, DistributorAssumption
    <2> QED BY <2>1
  <1>3. TotalDistributable(d) * leaf[2] \in Int
    BY <1>2, OwedInt
  <1> DEFINE n == TotalDistributable(d) * leaf[2]
             c == d.tree.total
  <1>4. n \div c \in Int /\ c * (n \div c) <= n
    <2>1. n \in Int /\ c \in Nat \ {0}
      BY <1>1, <1>3
    <2> HIDE DEF n, c
    <2> QED BY <2>1
  <1> QED BY <1>1, <1>2, <1>4 DEF Share, MulDiv

\* A claim keeps the balance covering.
LEMMA ClaimKeepsCovered ==
    ASSUME FundInv, Covered, NEW i \in DOMAIN distributions,
           NEW leaf \in distributions[i].tree.leaves, Claim(i, leaf)
    PROVE  Covered'
  <1> DEFINE d == distributions[i]
             amount == Share(d, leaf[2])
             e == [d EXCEPT !.amountDistributed = @ + amount]
  <1>1. d \in Round /\ amount \in Int
    BY RoundAt, ShareInt
  <1>2. /\ distributions' = [distributions EXCEPT ![i].amountDistributed = @ + amount]
        /\ balance' = [balance EXCEPT ![d.token] = @ - amount]
    BY DEF Claim
  <1>3. distributions' = [distributions EXCEPT ![i] = e]
    BY <1>2
  <1> HIDE DEF amount
  <1>4. /\ e \in Round /\ e.token = d.token
        /\ e.amountDistributed = d.amountDistributed + amount
        /\ e.amountFunded = d.amountFunded /\ e.feeAmount = d.feeAmount
        /\ e.sweptAmount = d.sweptAmount
    <2> HIDE DEF d
    <2>1. d.amountDistributed + amount \in Int
      BY <1>1, RoundTyped
    <2> QED BY <1>1, <2>1 DEF Round
  <1>5. Owed(e) = Owed(d) - amount
    <2> HIDE DEF e, d
    <2> QED BY <1>1, <1>4, RoundTyped DEF Owed, TotalDistributable
  <1> HIDE DEF e
  <1> QED BY <1>1, <1>2, <1>3, <1>4, <1>5, PaidFromItsRound

\* A sweep keeps the balance covering.
LEMMA SweepKeepsCovered ==
    ASSUME FundInv, Covered, NEW i \in DOMAIN distributions, Sweep(i)
    PROVE  Covered'
  <1> DEFINE d == distributions[i]
             rest == TotalDistributable(d) - d.amountDistributed
             e == [d EXCEPT !.sweptAmount = rest]
  <1>1. d \in Round /\ rest \in Int
    BY RoundAt, OwedInt, RoundTyped
  <1>2. /\ distributions' = [distributions EXCEPT ![i] = e]
        /\ balance' = [balance EXCEPT ![d.token] = @ - rest]
        /\ d.sweptAmount = 0
    BY DEF Sweep
  <1>3. /\ e \in Round /\ e.token = d.token
        /\ e.amountDistributed = d.amountDistributed
        /\ e.amountFunded = d.amountFunded /\ e.feeAmount = d.feeAmount
        /\ e.sweptAmount = rest
    BY <1>1 DEF Round
  <1>4. Owed(e) = Owed(d) - rest
    <2>1. /\ TotalDistributable(e) = TotalDistributable(d)
          /\ TotalDistributable(d) \in Int /\ d.amountDistributed \in Int
      BY <1>1, <1>3, OwedInt, RoundTyped DEF TotalDistributable
    <2> HIDE DEF e, d
    <2> QED BY <1>1, <1>2, <1>3, <2>1 DEF Owed
  <1> HIDE DEF e, rest
  <1> QED BY <1>1, <1>2, <1>3, <1>4, PaidFromItsRound

\* Every step keeps the balance covering.
LEMMA NextCovered == FundInv /\ Covered /\ [Next]_vars => Covered'
  <1> SUFFICES ASSUME FundInv, Covered, [Next]_vars PROVE Covered'
    OBVIOUS
  <1>1. CASE Fund
    BY <1>1, DistributeKeepsCovered DEF Fund
  <1>2. CASE Collect
    BY <1>2, ClaimKeepsCovered DEF Collect
  <1>3. ASSUME NEW i \in DOMAIN distributions, Sweep(i) PROVE Covered'
    BY <1>3, SweepKeepsCovered
  <1>4. CASE \/ Owner \/ ApplyFeePercentageIncrease \/ TimePasses
             \/ \E s \in Snapshots, tree \in Trees : Report(s, tree)
             \/ UNCHANGED vars
    <2>1. distributions' = distributions /\ balance' = balance
      BY <1>4 DEF Owner, SetFeePercentage, SetFeeRecipient, SetMerkleSnapshot,
         SetAllowlistEnabled, UpdateDistributorAllowance, Pause, Unpause,
         ApplyFeePercentageIncrease, TimePasses, Report, roundVars, vars
    <2> QED BY <2>1 DEF Covered, OwedOf
  <1> QED BY <1>1, <1>2, <1>3, <1>4 DEF Next

\* The distributor can pay what every round still owes without touching what
\* the others of the same token owe: for every tree a snapshot reports, every
\* token and every order of rounds, claims and sweeps.
THEOREM DistributorIsSolvent == Spec => []Solvent
  <1>1. Spec => []Covered
    <2>1. FundInv /\ Covered /\ [Next]_vars => Covered'
      BY NextCovered
    <2> QED BY InitCovered, <2>1, FundInvariant, PTL DEF Spec
  <1>2. FundInv /\ Covered => Solvent
    <2> SUFFICES ASSUME FundInv, Covered PROVE Solvent
      OBVIOUS
    <2>1. ASSUME NEW i \in DOMAIN distributions PROVE Owed(distributions[i]) >= 0
      BY RoundAt DEF Sound, SoundAt, Owed, TotalDistributable
    <2> QED BY <2>1 DEF Covered, Solvent
  <1> QED BY <1>1, <1>2, FundInvariant, PTL

(***************************************************************************)
(* Claims fit: in a round of an honest tree, what nobody has collected yet *)
(* never exceeds what is left to collect.                                  *)
(***************************************************************************)
\* What a round has left is what it still owes, until it is swept.
LEMMA BudgetIsOwed ==
    ASSUME NEW d \in Round, d.sweptAmount = 0, Owed(d) >= 0
    PROVE  /\ RemainingBudget(d) = Owed(d)
           /\ Owed(d) = TotalDistributable(d) - d.amountDistributed
  <1>1. d.amountDistributed \in Int /\ TotalDistributable(d) \in Int
    BY OwedInt DEF Round
  <1> QED BY <1>1 DEF RemainingBudget, Owed

\* The leaves of a round's tree are finitely many.
LEMMA LeavesFinite ==
    ASSUME NEW d \in Round, NEW paid
    PROVE  /\ IsFiniteSet(d.tree.leaves)
           /\ Uncollected(d, paid) \subseteq d.tree.leaves
           /\ IsFiniteSet(Uncollected(d, paid))
  <1>1. IsFiniteSet(d.tree.leaves)
    BY DistributorAssumption DEF Round
  <1>2. Uncollected(d, paid) \subseteq d.tree.leaves
    BY DEF Uncollected
  <1> QED BY <1>1, <1>2, FS_Subset

\* The rounding of a share is down and the leaves add up to no more than the
\* total, so the shares of an honest tree add up to no more than the round
\* has to pay.
LEMMA HonestSharesFit ==
    ASSUME NEW d \in Round, NEW paid, Honest(d.tree), TotalDistributable(d) >= 0,
           \A l \in d.tree.leaves : paid[l[1]] = 0
    PROVE  OutstandingOf(d, paid) <= TotalDistributable(d)
  <1> DEFINE L == d.tree.leaves
             f == [l \in L |-> Share(d, l[2])]
             v == [l \in L |-> l[2]]
             c == d.tree.total
             n == TotalDistributable(d)
             F == SumFunctionOnSet(f, L)
             V == SumFunctionOnSet(v, L)
  <1>1. Uncollected(d, paid) = L
    BY DEF Uncollected
  <1>2. IsFiniteSet(L) /\ n \in Nat /\ c \in Int
    BY LeavesFinite, OwedInt, DistributorAssumption DEF Round
  <1>3. \A l \in L : f[l] \in Int /\ v[l] \in Int /\ c * f[l] <= n * v[l]
    BY ShareInt
  <1>4. V <= c
    <2>1. DOMAIN v = L
      OBVIOUS
    <2> QED BY <2>1 DEF Honest, SumFunction
  <1>5. OutstandingOf(d, paid) = F
    BY <1>1 DEF OutstandingOf
  <1>6. CASE L = {}
    BY <1>2, <1>5, <1>6, SumOfNone
  <1>7. CASE L # {}
    <2>1. c \in Nat \ {0}
      BY <1>7, ShareInt
    <2> HIDE DEF f, v, c, n, L
    <2>2. F \in Int /\ V \in Int
      BY <1>2, <1>3, SumIsInt
    <2>3. c * F <= n * V
      BY <1>2, <1>3, SumScaledBound
    <2> HIDE DEF F, V
    <2>4. n * V <= n * c
      BY <1>2, <1>4, <2>1, <2>2
    <2>5. F <= n
      <3> SUFFICES ASSUME F >= n + 1 PROVE FALSE
        BY <1>2, <2>2
      <3>1. c * F >= c * (n + 1)
        BY <1>2, <2>1, <2>2
      <3>2. c * (n + 1) = n * c + c
        BY <1>2, <2>1
      <3>3. c * F \in Int /\ n * V \in Int /\ n * c \in Int
        BY <1>2, <2>1, <2>2
      <3> QED BY <2>1, <2>3, <2>4, <3>1, <3>2, <3>3
    <2> QED BY <1>5, <2>5 DEF n
  <1> QED BY <1>6, <1>7

\* Collecting the leaf of an account takes that leaf's share, and no other, off
\* what an honest tree has outstanding.
LEMMA CollectingOneLeaf ==
    ASSUME NEW d \in Round, NEW paid \in [Accounts -> Int], Honest(d.tree),
           NEW leaf \in d.tree.leaves, paid[leaf[1]] = 0,
           NEW amount \in Int, amount = Share(d, leaf[2]), amount # 0
    PROVE  OutstandingOf(d, [paid EXCEPT ![leaf[1]] = amount])
              = OutstandingOf(d, paid) - amount
  <1> DEFINE L == d.tree.leaves
             f == [l \in L |-> Share(d, l[2])]
             now_paid == [paid EXCEPT ![leaf[1]] = amount]
             U == Uncollected(d, paid)
             W == Uncollected(d, now_paid)
  <1>1. leaf \in U
    BY DEF Uncollected
  <1>2. W = U \ {leaf}
    <2>1. ASSUME NEW l \in L, l # leaf PROVE now_paid[l[1]] = paid[l[1]]
      <3>1. l[1] # leaf[1]
        BY <2>1 DEF Honest
      <3>2. l[1] \in Accounts
        BY ShareInt
      <3> QED BY <3>1, <3>2
    <2>2. now_paid[leaf[1]] = amount
      BY ShareInt
    <2> HIDE DEF now_paid
    <2> QED BY <2>1, <2>2 DEF Uncollected
  <1>3. IsFiniteSet(U) /\ IsFiniteSet(W) /\ \A l \in U : f[l] \in Int
    BY LeavesFinite, ShareInt
  <1>4. f[leaf] = amount
    OBVIOUS
  <1> HIDE DEF U, W, f
  <1>5. SumFunctionOnSet(f, U) = f[leaf] + SumFunctionOnSet(f, U \ {leaf})
    BY <1>1, <1>3, SumWithout
  <1>6. SumFunctionOnSet(f, W) \in Int
    BY <1>2, <1>3, SumIsInt
  <1>7. SumFunctionOnSet(f, W) = SumFunctionOnSet(f, U) - amount
    BY <1>2, <1>4, <1>5, <1>6
  <1> QED BY <1>7 DEF OutstandingOf, U, W, f

\* What ClaimsFit says of one round and of what its claimants have had.
FitsIn(d, paid) ==
    Honest(d.tree) /\ d.sweptAmount = 0 => OutstandingOf(d, paid) <= RemainingBudget(d)

\* Replacing one round, and what was paid in it, by a pair that fits keeps the
\* others as they were.
LEMMA OneRoundFits ==
    ASSUME FundInv, ClaimsFit, NEW i \in DOMAIN distributions, NEW e \in Round,
           NEW p \in [Accounts -> Int], FitsIn(e, p),
           distributions' = [distributions EXCEPT ![i] = e],
           claimed' = [claimed EXCEPT ![i] = p]
    PROVE  ClaimsFit'
  <1>1. /\ distributions \in Seq(Round) /\ claimed \in Seq([Accounts -> Int])
        /\ Len(claimed) = Len(distributions)
    BY DEF FundInv, FundTypeOK
  <1>2. DOMAIN distributions' = DOMAIN distributions
        /\ DOMAIN claimed = DOMAIN distributions
    BY <1>1
  <1>3. ASSUME NEW j \in DOMAIN distributions'
        PROVE  FitsIn(distributions'[j], claimed'[j])
    <2>1. CASE j = i
      <3>1. distributions'[j] = e /\ claimed'[j] = p
        BY <1>1, <1>2, <2>1
      <3> QED BY <3>1
    <2>2. CASE j # i
      <3>1. distributions'[j] = distributions[j] /\ claimed'[j] = claimed[j]
        BY <1>1, <1>2, <2>2
      <3>2. FitsIn(distributions[j], claimed[j])
        BY <1>2 DEF ClaimsFit, FitsIn, Outstanding
      <3> QED BY <3>1, <3>2
    <2> QED BY <2>1, <2>2
  <1> QED BY <1>3 DEF ClaimsFit, FitsIn, Outstanding

\* Nobody has collected from a new round, and its shares fit.
LEMMA DistributeFits ==
    ASSUME FundInv, ClaimsFit, NEW f \in Funders, NEW tree \in Trees,
           NEW token \in Tokens, NEW amount \in Amounts, NEW window \in Windows,
           NEW cap \in FeeCaps, NEW r \in Recipients,
           Distribute(f, tree, token, amount, window, cap, r)
    PROVE  ClaimsFit'
  <1> DEFINE n == Len(distributions) + 1
             none == [a \in Accounts |-> 0]
  <1>1. PICK d : /\ distributions' = Append(distributions, d)
                 /\ d.amountDistributed = 0 /\ d.sweptAmount = 0
    BY DEF Distribute, NewRound
  <1>2. claimed' = Append(claimed, none)
    BY DEF Distribute
  <1>3. /\ distributions \in Seq(Round) /\ claimed \in Seq([Accounts -> Int])
        /\ Len(claimed) = Len(distributions)
        /\ distributions' \in Seq(Round) /\ RoundsSound'
    BY DistributeKeepsInv DEF FundInv, FundTypeOK
  <1>4. /\ distributions'[n] = d /\ claimed'[n] = none /\ n \in 1..Len(distributions')
        /\ DOMAIN distributions' = (DOMAIN distributions) \cup {n}
        /\ \A j \in DOMAIN distributions : /\ distributions'[j] = distributions[j]
                                           /\ claimed'[j] = claimed[j]
    BY <1>1, <1>2, <1>3
  <1>5. d \in Round /\ Owed(d) >= 0
    <2>1. d \in Round
      BY <1>3, <1>4
    <2>2. SoundAt(openSeconds', distributions'[n])
      BY <1>3, <1>4 DEF RoundsSound, Sound
    <2> QED BY <1>4, <2>1, <2>2 DEF SoundAt, Owed, TotalDistributable
  <1>6. FitsIn(d, none)
    <2>1. RemainingBudget(d) = TotalDistributable(d) /\ TotalDistributable(d) >= 0
      <3>1. TotalDistributable(d) \in Int
        BY <1>5, OwedInt
      <3> QED BY <1>1, <1>5, <3>1, BudgetIsOwed
    <2>2. \A l \in d.tree.leaves : none[l[1]] = 0
      BY <1>5, ShareInt
    <2> HIDE DEF none
    <2> QED BY <1>5, <2>1, <2>2, HonestSharesFit DEF FitsIn
  <1>7. ASSUME NEW j \in DOMAIN distributions'
        PROVE  FitsIn(distributions'[j], claimed'[j])
    <2>1. CASE j = n
      BY <1>4, <1>6, <2>1
    <2>2. CASE j \in DOMAIN distributions
      <3>1. FitsIn(distributions[j], claimed[j])
        BY <2>2 DEF ClaimsFit, FitsIn, Outstanding
      <3> QED BY <1>4, <2>2, <3>1
    <2> QED BY <1>4, <2>1, <2>2
  <1> QED BY <1>7 DEF ClaimsFit, FitsIn, Outstanding

\* A claim takes the same amount off what is outstanding and off what is left.
LEMMA ClaimFits ==
    ASSUME FundInv, ClaimsFit, NEW i \in DOMAIN distributions,
           NEW leaf \in distributions[i].tree.leaves, Claim(i, leaf)
    PROVE  ClaimsFit'
  <1> DEFINE d == distributions[i]
             paid == claimed[i]
             amount == Share(d, leaf[2])
             e == [d EXCEPT !.amountDistributed = @ + amount]
             p == [paid EXCEPT ![leaf[1]] = amount]
  <1>1. /\ d \in Round /\ Sound(d) /\ amount \in Int
        /\ d.sweptAmount = 0
        /\ paid \in [Accounts -> Int] /\ leaf[1] \in Accounts
    <2>1. d \in Round /\ Sound(d) /\ d.sweptAmount = 0
      BY RoundAt, ClaimKeepsInv
    <2>2. /\ claimed \in Seq([Accounts -> Int]) /\ i \in 1..Len(claimed)
      BY RoundAt DEF FundInv, FundTypeOK
    <2>3. paid \in [Accounts -> Int]
      BY <2>2
    <2> QED BY <2>1, <2>3, ShareInt
  <1>2. /\ paid[leaf[1]] = 0 /\ amount # 0 /\ amount <= RemainingBudget(d)
        /\ claimed' = [claimed EXCEPT ![i][leaf[1]] = amount]
        /\ distributions' = [distributions EXCEPT ![i].amountDistributed = @ + amount]
    BY DEF Claim
  <1>3. distributions' = [distributions EXCEPT ![i] = e]
        /\ claimed' = [claimed EXCEPT ![i] = p]
    BY <1>2
  <1> DEFINE share == Share(d, leaf[2])
  <1>4. amount = share
    OBVIOUS
  <1> HIDE DEF amount
  <1>5. /\ e \in Round /\ e.tree = d.tree /\ e.sweptAmount = d.sweptAmount
        /\ e.amountDistributed = d.amountDistributed + amount
        /\ e.amountFunded = d.amountFunded /\ e.feeAmount = d.feeAmount
    <2> HIDE DEF d
    <2>1. d.amountDistributed + amount \in Int
      BY <1>1, RoundTyped
    <2> QED BY <1>1, <2>1 DEF Round
  <1>6. p \in [Accounts -> Int]
    BY <1>1
  <1>7. FitsIn(e, p)
    <2> SUFFICES ASSUME Honest(d.tree) PROVE OutstandingOf(e, p) <= RemainingBudget(e)
      BY <1>5 DEF FitsIn
    <2>1. OutstandingOf(d, paid) <= RemainingBudget(d)
      BY <1>1 DEF ClaimsFit, Outstanding
    <2>2. OutstandingOf(d, p) = OutstandingOf(d, paid) - amount
      BY <1>1, <1>2, <1>4, CollectingOneLeaf
    <2>3. OutstandingOf(e, p) = OutstandingOf(d, p)
      <3>1. TotalDistributable(e) = TotalDistributable(d)
        BY <1>5 DEF TotalDistributable
      <3> HIDE DEF e, d, p
      <3> QED BY <1>5, <3>1 DEF OutstandingOf, Uncollected, Share
    <2>4. RemainingBudget(d) = Owed(d) /\ Owed(d) \in Int /\ Owed(d) >= 0
      BY <1>1, BudgetIsOwed, OwedInt DEF Sound, SoundAt, Owed, TotalDistributable
    <2>5. Owed(e) = Owed(d) - amount
      <3> HIDE DEF e, d
      <3> QED BY <1>1, <1>5, RoundTyped DEF Owed, TotalDistributable
    <2>6. RemainingBudget(e) = Owed(e)
      <3> HIDE DEF e, d
      <3> QED BY <1>1, <1>2, <1>5, <2>4, <2>5, BudgetIsOwed
    <2>7. OutstandingOf(d, paid) \in Int
      <3>1. /\ IsFiniteSet(Uncollected(d, paid))
            /\ \A l \in Uncollected(d, paid) :
                  [m \in d.tree.leaves |-> Share(d, m[2])][l] \in Int
        BY <1>1, LeavesFinite, ShareInt
      <3> HIDE DEF d, paid
      <3> QED BY <3>1, SumIsInt DEF OutstandingOf
    <2> HIDE DEF e, d, p, paid
    <2> QED BY <1>1, <2>1, <2>2, <2>3, <2>4, <2>5, <2>6, <2>7
  <1> HIDE DEF e, p
  <1> QED BY <1>3, <1>5, <1>6, <1>7, OneRoundFits

\* A swept round promises nothing more.
LEMMA SweepFits ==
    ASSUME FundInv, ClaimsFit, NEW i \in DOMAIN distributions, Sweep(i)
    PROVE  ClaimsFit'
  <1> DEFINE d == distributions[i]
             rest == TotalDistributable(d) - d.amountDistributed
             e == [d EXCEPT !.sweptAmount = rest]
             p == claimed[i]
  <1>1. d \in Round /\ rest \in Int
    BY RoundAt, OwedInt, RoundTyped
  <1>2. /\ distributions' = [distributions EXCEPT ![i] = e]
        /\ claimed' = claimed
        /\ d.amountDistributed < TotalDistributable(d)
    BY DEF Sweep
  <1>3. claimed' = [claimed EXCEPT ![i] = p] /\ p \in [Accounts -> Int]
    <2>1. claimed \in Seq([Accounts -> Int]) /\ i \in 1..Len(claimed)
      BY RoundAt DEF FundInv, FundTypeOK
    <2> QED BY <1>2, <2>1
  <1>4. e \in Round /\ e.sweptAmount # 0
    <2>1. rest # 0
      BY <1>1, <1>2, OwedInt, RoundTyped
    <2> QED BY <1>1, <2>1 DEF Round
  <1>5. FitsIn(e, p)
    BY <1>4 DEF FitsIn
  <1> HIDE DEF e, p
  <1> QED BY <1>2, <1>3, <1>4, <1>5, OneRoundFits

\* In a round of an honest tree every account that has not collected still can
\* in full, whatever the order of the claims and the rounding of the shares.
THEOREM ClaimsAlwaysFit == Spec => []ClaimsFit
  <1>1. Init => ClaimsFit
    BY DEF Init, ClaimsFit
  <1>2. FundInv /\ ClaimsFit /\ [Next]_vars => ClaimsFit'
    <2> SUFFICES ASSUME FundInv, ClaimsFit, [Next]_vars PROVE ClaimsFit'
      OBVIOUS
    <2>1. CASE Fund
      BY <2>1, DistributeFits DEF Fund
    <2>2. CASE Collect
      BY <2>2, ClaimFits DEF Collect
    <2>3. ASSUME NEW i \in DOMAIN distributions, Sweep(i) PROVE ClaimsFit'
      BY <2>3, SweepFits
    <2>4. CASE \/ Owner \/ ApplyFeePercentageIncrease \/ TimePasses
               \/ \E s \in Snapshots, tree \in Trees : Report(s, tree)
               \/ UNCHANGED vars
      <3>1. distributions' = distributions /\ claimed' = claimed
        BY <2>4 DEF Owner, SetFeePercentage, SetFeeRecipient, SetMerkleSnapshot,
           SetAllowlistEnabled, UpdateDistributorAllowance, Pause, Unpause,
           ApplyFeePercentageIncrease, TimePasses, Report, roundVars, vars
      <3> QED BY <3>1 DEF ClaimsFit, Outstanding
    <2> QED BY <2>1, <2>2, <2>3, <2>4 DEF Next
  <1> QED BY <1>1, <1>2, FundInvariant, PTL DEF Spec
=============================================================================
