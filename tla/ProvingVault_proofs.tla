------------------------- MODULE ProvingVault_proofs -------------------------
(***************************************************************************)
(* The vault pays a proven statement once, to the payee its proof          *)
(* committed, not sooner than the cadence allows; a copied proof leaves    *)
(* the bounty payable; a quote is what a settlement pays; withdrawals had  *)
(* their notice; and the vault holds exactly what it owes: for any         *)
(* instances, snapshots, accounts, schedules and prices, and for any       *)
(* sequence of transactions.                                               *)
(***************************************************************************)
EXTENDS ProvingVault, SumTheorems, SequenceTheorems, TLAPS

Account == [snapshot : Snapshots \cup {NoSnapshot},
            program : Programs \cup {NoSnapshot}, eth : Nat, usdc : Nat]
Policy == [interval : Nat, cap : Nat, lastPaidBlock : Nat]
Balance == [eth : Nat, usdc : Nat]
Token == {"eth", "usdc"}
Statements == Snapshots \X {Inputs[f] : f \in Frozen}
                        \X (Provable \X {Inputs[f] : f \in Frozen})
Landed == [checkpointId : Nat, root : Provable \X {Inputs[f] : f \in Frozen},
           recipient : Accounts \cup {NoAccount}]
ClaimRecord ==
    [instance : Instances, snapshot : Snapshots, id : Nat,
     statement : Statements, recipient : Accounts \cup {NoAccount},
     feeDue : Nat, feeUsd : Nat, gasUsd : Nat, price : Nat, eth : Nat,
     usdc : Nat, cap : Nat, interval : Nat, min : Nat, block : Nat]
Leg == [account : Account, paidUsd : Nat, eth : Nat, usdc : Nat]
Request == [eth : Nat, usdc : Nat, at : Nat]

-----------------------------------------------------------------------------
(* The inductive invariant.                                                *)

\* What every variable holds.
VaultTypeOK ==
    /\ block \in Nat \ {0}
    /\ issued \in [Snapshots -> Seq(Frozen)]
    /\ accepted \in [Snapshots -> Seq(Landed)]
    /\ registry \in [Instances -> [snapshot : Snapshots \cup {NoSnapshot},
                                   program : Programs \cup {NoSnapshot}]]
    /\ accounts \in [Instances -> Account]
    /\ policies \in [Instances -> Policy]
    /\ pending \in [Instances -> [eth : Nat, usdc : Nat, readyAt : Nat]]
    /\ claimed \subseteq Instances \X Snapshots \X Nat
    /\ paidStatement \subseteq Instances \X Statements
    /\ credit \in [Accounts -> Balance]
    /\ feePerRootUsd \in [Programs -> [1..3 -> Nat]]
    /\ gasParams \in Nat \X Nat
    /\ held \in [eth : Int, usdc : Int]
    /\ claims \in Seq(ClaimRecord)
    /\ requests \in [Instances -> Seq(Request)]

\* A bound account names a snapshot together with a program the registry knew.
BoundInv ==
    \A i \in Instances :
        /\ registry[i] = NoRecord \/ (/\ registry[i].snapshot \in Snapshots
                                      /\ registry[i].program \in Programs)
        /\ accounts[i].snapshot # NoSnapshot =>
              accounts[i].program \in Programs

\* Each snapshot accepts checkpoints it froze, each later than the last.
AcceptedAscend ==
    \A s \in Snapshots : \A k \in 1..Len(accepted[s]) :
        /\ accepted[s][k].checkpointId < Len(issued[s])
        /\ \A l \in 1..(k - 1) :
              accepted[s][l].checkpointId < accepted[s][k].checkpointId

\* A consumed slot is a claim's, and a claim consumed its slot and statement.
SlotsAreClaims ==
    /\ \A x \in claimed : \E c \in Claims :
          x = <<c.instance, c.snapshot, c.id>>
    /\ \A c \in Claims : /\ <<c.instance, c.snapshot, c.id>> \in claimed
                         /\ <<c.instance, c.statement>> \in paidStatement

\* The policy remembers a block no earlier than any claim it paid.
LastPaidCovers ==
    /\ \A c \in Claims : c.block # 0 /\ c.block <= policies[c.instance].lastPaidBlock
    /\ \A i \in Instances : policies[i].lastPaidBlock <= block

\* A pending withdrawal is the sum of its requests, ready a full notice after
\* the last of them.
IsRequests(i) ==
    /\ pending[i].readyAt = 0 => requests[i] = <<>>
    /\ \A token \in Token : pending[i][token] =
          SumFunction([k \in 1..Len(requests[i]) |-> requests[i][k][token]])
    /\ \A k \in 1..Len(requests[i]) :
          /\ requests[i][k].at <= block
          /\ requests[i][k].at + WithdrawalNotice <= pending[i].readyAt

PendingIsRequests == \A i \in Instances : IsRequests(i)

VaultInv ==
    /\ VaultTypeOK
    /\ BoundInv
    /\ AcceptedAscend
    /\ SlotsAreClaims
    /\ StatementPaidOnce
    /\ FeeFollowsCommittedPayee
    /\ LastPaidCovers
    /\ CadenceRespected
    /\ PendingIsRequests
    /\ Solvent

-----------------------------------------------------------------------------
(* What a payment takes, and how it rounds.                                *)

\* Integer division, without the division.
LEMMA Quotient ==
    ASSUME NEW a \in Nat, NEW b \in Nat \ {0}
    PROVE  /\ a \div b \in Nat
           /\ (a \div b) * b <= a
           /\ a < (a \div b) * b + b
OBVIOUS

\* A payment takes what it pays out of the tank, and nothing for nobody.
LEMMA PayTakesFromTank ==
    ASSUME NEW a \in Account, NEW to, NEW usd \in Nat, NEW price \in Nat \ {0}
    PROVE  LET p == Pay(a, to, usd, price)
           IN  /\ p \in Leg
               /\ p.eth \in 0..a.eth /\ p.usdc \in 0..a.usdc
               /\ p.account \in Account
               /\ p.account.eth = a.eth - p.eth
               /\ p.account.usdc = a.usdc - p.usdc
               /\ p.account.snapshot = a.snapshot
               /\ p.account.program = a.program
               /\ to = NoAccount => p.eth = 0 /\ p.usdc = 0
<1> DEFINE want == (usd * EthScale) \div price
           payWei == IF to = NoAccount THEN 0 ELSE Lesser(want, a.eth)
           covered == (payWei * price) \div EthScale
           left == IF usd > covered THEN usd - covered ELSE 0
           payUsdc == IF to = NoAccount THEN 0
                      ELSE Lesser(left \div UsdPerUsdc, a.usdc)
<1>1. want \in Nat
  BY VaultAssumption, Quotient
<1>2. payWei \in 0..a.eth
  BY <1>1 DEF Lesser, Account
<1>3. covered \in Nat
  BY <1>2, VaultAssumption, Quotient
<1>4. payUsdc \in 0..a.usdc
  <2>1. left \in Nat
    BY <1>3
  <2>2. left \div UsdPerUsdc \in Nat
    BY <2>1, VaultAssumption, Quotient
  <2> QED
    BY <2>2 DEF Lesser, Account
<1>5. Pay(a, to, usd, price) =
         [account |-> [a EXCEPT !.eth = @ - payWei, !.usdc = @ - payUsdc],
          paidUsd |-> covered + payUsdc * UsdPerUsdc,
          eth |-> payWei, usdc |-> payUsdc]
  BY DEF Pay
<1>6. to = NoAccount => payWei = 0 /\ payUsdc = 0
  OBVIOUS
<1> DEFINE tank == [a EXCEPT !.eth = @ - payWei, !.usdc = @ - payUsdc]
<1> HIDE DEF want, payWei, covered, left, payUsdc
<1>7. /\ tank \in Account /\ tank.eth = a.eth - payWei
      /\ tank.usdc = a.usdc - payUsdc
      /\ tank.snapshot = a.snapshot /\ tank.program = a.program
  <2>1. a.eth - payWei \in Nat /\ a.usdc - payUsdc \in Nat
    BY <1>2, <1>4 DEF Account
  <2> QED
    BY <2>1 DEF Account
<1>8. covered + payUsdc * UsdPerUsdc \in Nat
  BY <1>3, <1>4, VaultAssumption
<1> HIDE DEF tank
<1>9. Pay(a, to, usd, price) =
         [account |-> tank, paidUsd |-> covered + payUsdc * UsdPerUsdc,
          eth |-> payWei, usdc |-> payUsdc]
  BY <1>5 DEF tank
<1>10. Pay(a, to, usd, price) \in Leg
  BY <1>2, <1>4, <1>7, <1>8, <1>9 DEF Leg
<1> QED
  BY <1>2, <1>4, <1>6, <1>7, <1>9, <1>10

\* A payment is at most what was asked, and short of it or of the tank by
\* less than one USDC unit; what it leaves is worth what it did not take, up
\* to one USD unit.
LEMMA PayRounds ==
    ASSUME NEW a \in Account, NEW to, to # NoAccount, NEW usd \in Nat,
           NEW price \in Nat \ {0}, price <= MaxEthUsd
    PROVE  LET p == Pay(a, to, usd, price)
           IN  /\ p.paidUsd <= usd
               /\ p.paidUsd + UsdPerUsdc > Lesser(usd, PayableUsd(a, price))
               /\ PayableUsd(p.account, price) + p.paidUsd + 1
                     >= PayableUsd(a, price)
<1> DEFINE want == (usd * EthScale) \div price
           payWei == Lesser(want, a.eth)
           covered == (payWei * price) \div EthScale
           left == IF usd > covered THEN usd - covered ELSE 0
           wantUsdc == left \div UsdPerUsdc
           payUsdc == Lesser(wantUsdc, a.usdc)
           worth == (a.eth * price) \div EthScale
           rest == ((a.eth - payWei) * price) \div EthScale
           p == Pay(a, to, usd, price)
<1>1. /\ EthScale \in Nat \ {0} /\ UsdPerUsdc \in Nat \ {0}
      /\ price <= EthScale * (UsdPerUsdc - 1)
      /\ a.eth \in Nat /\ a.usdc \in Nat
  BY VaultAssumption, PriceAssumption DEF Account
<1>2. usd * EthScale \in Nat
  BY <1>1
<1>3. /\ want \in Nat /\ want * price <= usd * EthScale
      /\ usd * EthScale < want * price + price
  BY <1>2, Quotient
<1>4. /\ payWei \in Nat /\ payWei <= a.eth /\ payWei <= want
      /\ payWei = want \/ payWei = a.eth
  BY <1>1, <1>3 DEF Lesser
<1> HIDE DEF want, payWei
<1>5. payWei * price \in Nat /\ a.eth * price \in Nat
      /\ (a.eth - payWei) * price \in Nat
  BY <1>1, <1>4
<1>6. /\ covered \in Nat /\ covered * EthScale <= payWei * price
      /\ payWei * price < covered * EthScale + EthScale
  BY <1>1, <1>5, Quotient
<1>7. /\ worth \in Nat /\ worth * EthScale <= a.eth * price
      /\ a.eth * price < worth * EthScale + EthScale
  BY <1>1, <1>5, Quotient
<1>8. /\ rest \in Nat /\ rest * EthScale <= (a.eth - payWei) * price
      /\ (a.eth - payWei) * price < rest * EthScale + EthScale
  BY <1>1, <1>5, Quotient
<1>9. payWei = a.eth => covered = worth
  OBVIOUS
<1> HIDE DEF covered, worth, rest
<1>10. covered <= usd
  <2>1. payWei * price <= want * price
    BY <1>3, <1>4
  <2>2. covered * EthScale <= usd * EthScale
    BY <1>1, <1>3, <1>5, <1>6, <2>1
  <2> QED
    BY <1>1, <1>6, <2>2
<1>11. left = usd - covered /\ left \in Nat
  BY <1>6, <1>10
<1>12. /\ wantUsdc \in Nat /\ wantUsdc * UsdPerUsdc <= left
       /\ left < wantUsdc * UsdPerUsdc + UsdPerUsdc
  BY <1>1, <1>11, Quotient
<1>13. /\ payUsdc \in Nat /\ payUsdc <= a.usdc /\ payUsdc <= wantUsdc
       /\ payUsdc = wantUsdc \/ payUsdc = a.usdc
  BY <1>1, <1>12 DEF Lesser
<1>14. /\ p.account.eth = a.eth - payWei /\ p.account.usdc = a.usdc - payUsdc
       /\ p.paidUsd = covered + payUsdc * UsdPerUsdc
  BY DEF Pay, Account, want, payWei, covered
<1> HIDE DEF left, wantUsdc, payUsdc, p
<1>15. p.paidUsd <= usd
  <2>1. payUsdc * UsdPerUsdc <= wantUsdc * UsdPerUsdc
    BY <1>1, <1>12, <1>13
  <2> QED
    BY <1>1, <1>6, <1>11, <1>12, <1>13, <1>14, <2>1
<1>16. /\ PayableUsd(a, price) = a.usdc * UsdPerUsdc + worth
      /\ PayableUsd(a, price) \in Nat /\ p.paidUsd \in Nat
  <2>1. a.usdc * UsdPerUsdc \in Nat /\ payUsdc * UsdPerUsdc \in Nat
    BY <1>1, <1>13
  <2> QED
    BY <1>6, <1>7, <1>14, <2>1 DEF PayableUsd, worth
<1>17. PayableUsd(p.account, price) = (a.usdc - payUsdc) * UsdPerUsdc + rest
  BY <1>14 DEF PayableUsd, rest
\* All the ether went and all the USDC: the tank; otherwise the request.
<1>18. p.paidUsd + UsdPerUsdc > Lesser(usd, PayableUsd(a, price))
  <2>1. CASE payUsdc = wantUsdc
    <3>1. p.paidUsd + UsdPerUsdc > usd
      BY <1>1, <1>6, <1>11, <1>12, <1>14, <2>1
    <3> QED
      BY <1>1, <1>16, <3>1 DEF Lesser
  <2>2. CASE payUsdc = a.usdc /\ payWei = a.eth
    BY <1>1, <1>6, <1>9, <1>14, <1>16, <2>2 DEF Lesser
  <2>3. CASE payUsdc = a.usdc /\ payWei = want
    <3>1. usd * EthScale < covered * EthScale + EthScale + price
      BY <1>1, <1>2, <1>3, <1>5, <1>6, <2>3
    <3>2. usd * EthScale < (covered + UsdPerUsdc) * EthScale
      <4>1. EthScale + price <= EthScale * UsdPerUsdc
        BY <1>1
      <4> QED
        BY <1>1, <1>2, <1>6, <3>1, <4>1
    <3>3. usd < covered + UsdPerUsdc
      BY <1>1, <1>6, <3>2
    <3>4. p.paidUsd + UsdPerUsdc > usd
      BY <1>1, <1>6, <1>13, <1>14, <3>3
    <3> QED
      BY <1>1, <1>16, <3>4 DEF Lesser
  <2> QED
    BY <1>4, <1>13, <2>1, <2>2, <2>3
<1>19. PayableUsd(p.account, price) + p.paidUsd + 1 >= PayableUsd(a, price)
  <2>1. a.eth * price = payWei * price + (a.eth - payWei) * price
    BY <1>1, <1>4
  <2>2. worth * EthScale < (covered + rest + 2) * EthScale
    BY <1>1, <1>5, <1>6, <1>7, <1>8, <2>1
  <2>3. worth < covered + rest + 2
    BY <1>1, <1>6, <1>7, <1>8, <2>2
  <2>4. a.usdc * UsdPerUsdc =
           payUsdc * UsdPerUsdc + (a.usdc - payUsdc) * UsdPerUsdc
    BY <1>1, <1>13
  <2>5. /\ a.usdc * UsdPerUsdc \in Nat /\ payUsdc * UsdPerUsdc \in Nat
        /\ (a.usdc - payUsdc) * UsdPerUsdc \in Nat
    BY <1>1, <1>13
  <2> QED
    BY <1>6, <1>7, <1>8, <1>14, <1>16, <1>17, <2>3, <2>4, <2>5
<1> QED
  BY <1>15, <1>18, <1>19 DEF p

-----------------------------------------------------------------------------
(* What a settlement does.                                                 *)

\* The terms of a claim on a bound account.
LEMMA TermsTyped ==
    ASSUME VaultTypeOK, BoundInv, NEW i \in Instances, NEW id \in Nat,
           accounts[i].snapshot # NoSnapshot
    PROVE  /\ accounts[i] \in Account /\ accounts[i].snapshot \in Snapshots
           /\ Terms(i, id).snapshot = accounts[i].snapshot
           /\ Terms(i, id).program \in Programs
           /\ Terms(i, id).cap \in Nat /\ Terms(i, id).interval \in Nat
           /\ Terms(i, id).interval = policies[i].interval
           /\ Terms(i, id).lastPaidBlock = policies[i].lastPaidBlock
           /\ Terms(i, id).lastPaidBlock \in Nat
           /\ Terms(i, id).band \in 0..3
<1>1. /\ accounts[i] \in Account /\ accounts[i].program \in Programs
      /\ policies[i] \in Policy
  BY DEF VaultTypeOK, BoundInv
<1>2. \A p, n : BandOf(p, n) \in 0..3
  BY DEF BandOf
<1> QED
  BY <1>1, <1>2 DEF Terms, Account, Policy

\* The price a settlement uses, when there is one.
LEMMA PriceUsable ==
    ASSUME NEW feed \in Feeds, EthUsd(feed) # 0
    PROVE  EthUsd(feed) \in Nat \ {0} /\ EthUsd(feed) <= MaxEthUsd
<1>1. feed \in [answer : Int, age : Int]
  BY VaultAssumption
<1> QED
  BY <1>1, VaultAssumption DEF EthUsd

\* The fee and the gas leg together stay within the cap.
LEMMA DueTyped ==
    ASSUME VaultTypeOK, NEW t, t.program \in Programs, t.band \in 1..3,
           t.cap \in Nat, NEW gasUsed \in Nat, NEW basefee \in Nat,
           NEW price \in Nat
    PROVE  /\ FeeDue(t) \in 0..t.cap
           /\ GasDue(t, gasUsed, basefee, price) \in 0..(t.cap - FeeDue(t))
<1>1. FeeDue(t) \in 0..t.cap
  <2>1. feePerRootUsd[t.program][t.band] \in Nat
    BY DEF VaultTypeOK
  <2> QED
    BY <2>1 DEF FeeDue, Lesser
<1> DEFINE units == Lesser(gasUsed, gasParams[1])
<1>2. units \in Nat
  BY DEF Lesser, VaultTypeOK
<1> HIDE DEF units
<1>3. RefundSafeGasUnits(units) \in Nat
  BY <1>2 DEF RefundSafeGasUnits
<1>4. RefundSafeGasUnits(units) * basefee * price \in Nat
  BY <1>3
<1>5. GasUsd(RefundSafeGasUnits(units), basefee, price) \in Nat
  BY <1>4, VaultAssumption, Quotient DEF GasUsd
<1> QED
  BY <1>1, <1>5 DEF GasDue, Lesser, units

\* Both legs come out of the tank.
LEMMA LegsTakeFromTank ==
    ASSUME NEW a \in Account, NEW recipient, NEW caller, NEW fee \in Nat,
           NEW gas \in Nat, NEW price \in Nat \ {0}
    PROVE  LET l == Legs(a, recipient, caller, fee, gas, price)
           IN  /\ l.fee \in Leg /\ l.gas \in Leg
               /\ l.account \in Account
               /\ l.account.eth = a.eth - (l.fee.eth + l.gas.eth)
               /\ l.account.usdc = a.usdc - (l.fee.usdc + l.gas.usdc)
               /\ l.account.snapshot = a.snapshot
               /\ l.account.program = a.program
               /\ recipient = NoAccount => l.fee.eth = 0 /\ l.fee.usdc = 0
               /\ caller = NoAccount => l.gas.eth = 0 /\ l.gas.usdc = 0
<1> DEFINE f == Pay(a, recipient, fee, price)
           g == Pay(f.account, caller, gas, price)
           l == Legs(a, recipient, caller, fee, gas, price)
<1>1. l = [fee |-> f, gas |-> g, account |-> g.account]
  BY DEF Legs
<1>2. /\ f.eth \in 0..a.eth /\ f.usdc \in 0..a.usdc
      /\ f.account \in Account /\ f.account.eth = a.eth - f.eth
      /\ f.account.usdc = a.usdc - f.usdc
      /\ f.account.snapshot = a.snapshot /\ f.account.program = a.program
      /\ recipient = NoAccount => f.eth = 0 /\ f.usdc = 0
  BY PayTakesFromTank
<1>3. /\ g.eth \in 0..f.account.eth /\ g.usdc \in 0..f.account.usdc
      /\ g.account \in Account /\ g.account.eth = f.account.eth - g.eth
      /\ g.account.usdc = f.account.usdc - g.usdc
      /\ g.account.snapshot = f.account.snapshot
      /\ g.account.program = f.account.program
      /\ caller = NoAccount => g.eth = 0 /\ g.usdc = 0
  BY <1>2, PayTakesFromTank
<1> HIDE DEF f, g, l
<1>4. a.eth \in Nat /\ a.usdc \in Nat
  BY DEF Account
<1>5. f \in Leg /\ g \in Leg
  BY <1>2, PayTakesFromTank DEF f, g
<1> QED
  BY <1>1, <1>2, <1>3, <1>4, <1>5 DEF l

\* The claim c of checkpoint id, its slot, its statement and its block.
Recorded(i, id, statement, recipient, c) ==
    /\ c.instance = i /\ c.snapshot = accounts[i].snapshot /\ c.id = id
    /\ c.statement = statement /\ c.recipient = recipient
    /\ c.block = block /\ c.interval = policies[i].interval
    /\ <<i, statement>> \notin paidStatement
    /\ policies[i].lastPaidBlock # 0 =>
          block >= policies[i].lastPaidBlock + policies[i].interval
    /\ claims' = Append(claims, c)
    /\ claimed' = claimed \cup {<<i, accounts[i].snapshot, id>>}
    /\ paidStatement' = paidStatement \cup {<<i, statement>>}
    /\ policies' = [policies EXCEPT ![i].lastPaidBlock = block]

\* The two legs, out of the tank of i and to its payees.
Moved(i, recipient, caller, tank, fee, gas) ==
    /\ recipient = NoAccount => fee.eth = 0 /\ fee.usdc = 0
    /\ tank.eth = accounts[i].eth - (fee.eth + gas.eth)
    /\ tank.usdc = accounts[i].usdc - (fee.usdc + gas.usdc)
    /\ tank.snapshot = accounts[i].snapshot
    /\ tank.program = accounts[i].program
    /\ accounts' = [accounts EXCEPT ![i] = tank]
    /\ credit' = Credited(Credited(credit, recipient, fee), caller, gas)

\* A paying settlement of account i: one claim, and what it moved.
Pays(i, id, statement, recipient, caller) ==
    \E c \in ClaimRecord, tank \in Account, fee \in Leg, gas \in Leg :
        /\ Recorded(i, id, statement, recipient, c)
        /\ Moved(i, recipient, caller, tank, fee, gas)

\* _settle changes nothing, or pays.
LEMMA SettlePays ==
    ASSUME VaultTypeOK, BoundInv, NEW i \in Instances, NEW id \in Nat,
           accounts[i].snapshot # NoSnapshot,
           NEW statement \in Statements,
           NEW recipient \in Accounts \cup {NoAccount}, NEW caller \in Accounts,
           NEW gasUsed \in Nat, NEW basefee \in Nat, NEW feed \in Feeds,
           NEW min \in Nat,
           Settle(i, Terms(i, id), id, statement, recipient, caller, gasUsed,
                  basefee, feed, min)
    PROVE  \/ UNCHANGED settlementVars
           \/ Pays(i, id, statement, recipient, caller)
<1> DEFINE t == Terms(i, id)
           s == Settlement(i, t, statement, recipient, caller, gasUsed, basefee,
                           feed)
           price == EthUsd(feed)
           fee == FeeDue(t)
           gas == GasDue(t, gasUsed, basefee, price)
           legs == Legs(accounts[i], recipient, caller, fee, gas, price)
<1>1. CASE s.reason # "None"
  BY <1>1 DEF Settle, ConsumeSlot, settlementVars
<1>2. CASE s.reason = "None"
  <2>1. /\ t.snapshot = accounts[i].snapshot /\ accounts[i] \in Account
        /\ t.snapshot \in Snapshots /\ t.program \in Programs
        /\ t.cap \in Nat /\ t.interval \in Nat
        /\ t.interval = policies[i].interval
        /\ t.lastPaidBlock = policies[i].lastPaidBlock /\ t.band \in 0..3
    BY TermsTyped
  <2> HIDE DEF t
  <2>2. Ineligible(i, t, statement, price) = "None"
    BY <1>2 DEF Settlement
  <2>3. /\ CadenceElapsed(t) /\ t.band # 0 /\ price # 0
        /\ <<i, statement>> \notin paidStatement
    BY <2>2 DEF Ineligible
  <2>4. s = [reason |-> IF legs.fee.eth + legs.fee.usdc + legs.gas.eth
                           + legs.gas.usdc = 0
                        THEN "InsufficientBalance" ELSE "None",
             offered |-> Lesser(fee + gas, PayableUsd(accounts[i], price)),
             feeDue |-> fee, legs |-> legs, price |-> price]
    BY <2>2 DEF Settlement
  <2>5. price \in Nat \ {0}
    BY <2>3, PriceUsable
  <2>6. fee \in Nat /\ gas \in Nat
    BY <2>1, <2>3, <2>5, DueTyped
  <2> HIDE DEF fee, gas, price
  <2>7. /\ legs.fee \in Leg /\ legs.gas \in Leg
        /\ legs.account \in Account
        /\ legs.account.eth = accounts[i].eth - (legs.fee.eth + legs.gas.eth)
        /\ legs.account.usdc =
              accounts[i].usdc - (legs.fee.usdc + legs.gas.usdc)
        /\ legs.account.snapshot = accounts[i].snapshot
        /\ legs.account.program = accounts[i].program
        /\ recipient = NoAccount => legs.fee.eth = 0 /\ legs.fee.usdc = 0
    BY <2>1, <2>5, <2>6, LegsTakeFromTank
  <2> DEFINE c == [instance |-> i, snapshot |-> t.snapshot, id |-> id,
                   statement |-> statement, recipient |-> recipient,
                   feeDue |-> s.feeDue, feeUsd |-> s.legs.fee.paidUsd,
                   gasUsd |-> s.legs.gas.paidUsd, price |-> s.price,
                   eth |-> s.legs.fee.eth + s.legs.gas.eth,
                   usdc |-> s.legs.fee.usdc + s.legs.gas.usdc,
                   cap |-> t.cap, interval |-> t.interval, min |-> min,
                   block |-> block]
  <2>8. /\ ConsumeSlot(i, t, id, statement, TRUE)
        /\ accounts' = [accounts EXCEPT ![i] = s.legs.account]
        /\ credit' = Credited(Credited(credit, recipient, s.legs.fee), caller,
                              s.legs.gas)
        /\ claims' = Append(claims, c)
    BY <1>2 DEF Settle, t
  <2>9. s.legs = legs /\ s.feeDue = fee /\ s.price = price
    BY <2>4
  <2> HIDE DEF s, legs
  <2>10. c \in ClaimRecord
    <3>1. block \in Nat
      BY DEF VaultTypeOK
    <3>2. /\ legs.fee.eth + legs.gas.eth \in Nat
          /\ legs.fee.usdc + legs.gas.usdc \in Nat
          /\ legs.fee.paidUsd \in Nat /\ legs.gas.paidUsd \in Nat
      BY <2>7 DEF Leg
    <3> QED
      BY <2>1, <2>5, <2>6, <2>7, <2>9, <3>1, <3>2 DEF ClaimRecord
  <2>11. /\ c.instance = i /\ c.snapshot = accounts[i].snapshot /\ c.id = id
         /\ c.statement = statement /\ c.recipient = recipient
         /\ c.block = block /\ c.interval = policies[i].interval
    BY <2>1
  <2> HIDE DEF c
  <2>12. /\ claimed' = claimed \cup {<<i, accounts[i].snapshot, id>>}
         /\ paidStatement' = paidStatement \cup {<<i, statement>>}
         /\ policies' = [policies EXCEPT ![i].lastPaidBlock = block]
    BY <2>1, <2>8 DEF ConsumeSlot
  <2>13. policies[i].lastPaidBlock # 0 =>
            block >= policies[i].lastPaidBlock + policies[i].interval
    BY <2>1, <2>3 DEF CadenceElapsed
  <2>14. Pays(i, id, statement, recipient, caller)
    <3>1. Recorded(i, id, statement, recipient, c)
      BY <2>3, <2>8, <2>11, <2>12, <2>13 DEF Recorded
    <3>2. Moved(i, recipient, caller, legs.account, legs.fee, legs.gas)
      BY <2>7, <2>8, <2>9 DEF Moved
    <3> QED
      BY <2>7, <2>10, <3>1, <3>2 DEF Pays
  <2> QED
    BY <2>14
<1> QED
  BY <1>1, <1>2

-----------------------------------------------------------------------------
(* Transactions that settle, and what a step may do to the snapshots.      *)

\* Snapshots only append: a frozen checkpoint, or an accepted one that was
\* frozen and comes after the last.
SnapshotsGrow ==
    \A s \in Snapshots :
        /\ \/ issued'[s] = issued[s]
           \/ \E f \in Frozen : issued'[s] = Append(issued[s], f)
        /\ \/ accepted'[s] = accepted[s]
           \/ \E e \in Landed :
                 /\ accepted'[s] = Append(accepted[s], e)
                 /\ e.checkpointId < Len(issued[s])
                 /\ accepted[s] # <<>> =>
                       e.checkpointId > accepted[s][Len(accepted[s])].checkpointId

\* A transaction that settles checkpoint id of account i: the accepted record
\* it pays for is in the history it leaves.
Settles(i, id) ==
    \E s \in Snapshots, e \in Landed, caller \in Accounts :
        /\ s = accounts[i].snapshot
        /\ <<i, s, id>> \notin claimed
        /\ e.checkpointId = id /\ id < Len(issued[s])
        /\ accepted' \in [Snapshots -> Seq(Landed)]
        /\ \E k \in 1..Len(accepted'[s]) : accepted'[s][k] = e
        /\ UNCHANGED <<block, issued, registry, pending, feePerRootUsd,
                       gasParams, held, requests>>
        /\ \/ UNCHANGED settlementVars
           \/ Pays(i, id, Statement(s, e), e.recipient, caller)

LEMMA LandedStatement ==
    ASSUME VaultTypeOK, NEW s \in Snapshots, NEW e \in Landed,
           e.checkpointId < Len(issued[s])
    PROVE  Statement(s, e) \in Statements
<1>1. issued[s][e.checkpointId + 1] \in Frozen
  BY DEF VaultTypeOK, Landed
<1> QED
  BY <1>1 DEF Statement, Statements, Landed

LEMMA ApplyAppends ==
    ASSUME VaultTypeOK, NEW s \in Snapshots, NEW id \in Nat,
           NEW program \in Provable, NEW recipient \in Accounts \cup {NoAccount},
           Apply(s, id, program, recipient)
    PROVE  \E e \in Landed :
              /\ e = [checkpointId |-> id,
                      root |-> Output(program, issued[s][id + 1]),
                      recipient |-> recipient]
              /\ accepted' \in [Snapshots -> Seq(Landed)]
              /\ accepted'[s] = Append(accepted[s], e)
              /\ e.checkpointId < Len(issued[s])
              /\ accepted[s] # <<>> =>
                    e.checkpointId > accepted[s][Len(accepted[s])].checkpointId
              /\ accepted'[s][Len(accepted'[s])] = e
              /\ Len(accepted'[s]) \in 1..Len(accepted'[s])
              /\ UNCHANGED issued
              /\ SnapshotsGrow
<1> DEFINE e == [checkpointId |-> id,
                 root |-> Output(program, issued[s][id + 1]),
                 recipient |-> recipient]
<1>1. issued[s][id + 1] \in Frozen
  BY DEF VaultTypeOK, Apply
<1>2. e \in Landed
  BY <1>1 DEF Landed, Output
<1>3. e.checkpointId = id
  OBVIOUS
<1> HIDE DEF e
<1>4. accepted' = [accepted EXCEPT ![s] = Append(accepted[s], e)]
  BY DEF Apply, e
<1>5. accepted \in [Snapshots -> Seq(Landed)]
  BY DEF VaultTypeOK
<1>6. accepted'[s] = Append(accepted[s], e) /\ accepted[s] \in Seq(Landed)
  BY <1>4, <1>5
<1>7. /\ accepted'[s][Len(accepted'[s])] = e
      /\ Len(accepted'[s]) \in 1..Len(accepted'[s])
  BY <1>2, <1>6
<1>11. accepted' \in [Snapshots -> Seq(Landed)]
  <2>1. Append(accepted[s], e) \in Seq(Landed)
    BY <1>2, <1>6
  <2> QED
    BY <1>4, <1>5, <2>1
<1>8. /\ id < Len(issued[s]) /\ UNCHANGED issued
      /\ accepted[s] # <<>> => id > accepted[s][Len(accepted[s])].checkpointId
  BY DEF Apply
<1>9. \A r \in Snapshots \ {s} : accepted'[r] = accepted[r]
  BY <1>4, <1>5
<1>10. SnapshotsGrow
  BY <1>2, <1>3, <1>6, <1>8, <1>9 DEF SnapshotsGrow
<1> QED
  BY <1>2, <1>3, <1>6, <1>7, <1>8, <1>10, <1>11 DEF e

LEMMA SubmitAndClaimSettles ==
    ASSUME VaultTypeOK, BoundInv, NEW i \in Instances, NEW id \in Nat,
           NEW program \in Provable, NEW recipient \in Accounts \cup {NoAccount},
           NEW caller \in Accounts, NEW gasUsed \in GasUsed,
           NEW basefee \in BaseFees, NEW feed \in Feeds, NEW min \in MinPayouts,
           SubmitAndClaim(i, id, program, recipient, caller, gasUsed, basefee,
                          feed, min)
    PROVE  Settles(i, id) /\ SnapshotsGrow
<1> DEFINE s == accounts[i].snapshot
           e == [checkpointId |-> id,
                 root |-> Output(program, issued[s][id + 1]),
                 recipient |-> recipient]
           f == [checkpointId |-> id,
                 root |-> Output(program, issued[s][id + 1])]
<1>1. /\ s # NoSnapshot /\ <<i, s, id>> \notin claimed
      /\ Apply(s, id, program, recipient)
      /\ Settle(i, Terms(i, id), id, Statement(s, f), recipient, caller,
                gasUsed, basefee, feed, min)
      /\ UNCHANGED <<block, registry, pending, feePerRootUsd, gasParams, held,
                     requests>>
  BY DEF SubmitAndClaim
<1>2. s \in Snapshots
  BY <1>1, TermsTyped
<1> HIDE DEF s
<1>3. /\ e \in Landed /\ id < Len(issued[s]) /\ e.checkpointId = id
      /\ e.recipient = recipient
      /\ accepted' \in [Snapshots -> Seq(Landed)]
      /\ \E k \in 1..Len(accepted'[s]) : accepted'[s][k] = e
      /\ UNCHANGED issued /\ SnapshotsGrow
  BY <1>1, <1>2, ApplyAppends
<1>4. Statement(s, e) \in Statements
  BY <1>2, <1>3, LandedStatement
<1>5. Statement(s, f) = Statement(s, e)
  BY DEF Statement
<1> HIDE DEF e, f
<1>6. gasUsed \in Nat /\ basefee \in Nat /\ min \in Nat
  BY VaultAssumption
<1>7. accounts[i].snapshot # NoSnapshot
  BY <1>1 DEF s
<1>8. \/ UNCHANGED settlementVars
      \/ Pays(i, id, Statement(s, f), recipient, caller)
  BY <1>1, <1>4, <1>5, <1>6, <1>7, SettlePays
<1>9. s = accounts[i].snapshot
  BY DEF s
<1> QED
  BY <1>1, <1>2, <1>3, <1>5, <1>8, <1>9 DEF Settles

LEMMA ClaimSettles ==
    ASSUME VaultTypeOK, BoundInv, AcceptedAscend, NEW i \in Instances,
           NEW id \in Nat, NEW caller \in Accounts, NEW feed \in Feeds,
           Claim(i, id, caller, feed)
    PROVE  Settles(i, id) /\ UNCHANGED snapshotVars
<1> DEFINE s == accounts[i].snapshot
<1>1. PICK e \in AcceptedWithId(s, id) :
         /\ s # NoSnapshot /\ <<i, s, id>> \notin claimed
         /\ Settle(i, Terms(i, id), id, Statement(s, e), e.recipient, caller,
                   0, 0, feed, 0)
         /\ UNCHANGED <<block, snapshotVars, registry, pending, feePerRootUsd,
                        gasParams, held, requests>>
  BY DEF Claim
<1>2. s \in Snapshots
  BY <1>1, TermsTyped
<1> HIDE DEF s
<1>3. PICK k \in 1..Len(accepted[s]) : accepted[s][k] = e
                                       /\ accepted[s][k].checkpointId = id
  BY DEF AcceptedWithId
<1>4. e \in Landed /\ e.checkpointId = id /\ id < Len(issued[s])
  BY <1>2, <1>3 DEF VaultTypeOK, AcceptedAscend
<1>5. Statement(s, e) \in Statements
  BY <1>2, <1>4, LandedStatement
<1>6. UNCHANGED <<issued, accepted>>
  BY <1>1 DEF snapshotVars
<1>7. accounts[i].snapshot # NoSnapshot /\ s = accounts[i].snapshot
  BY <1>1 DEF s
<1>8. e.recipient \in Accounts \cup {NoAccount}
  BY <1>4 DEF Landed
<1>9. \/ UNCHANGED settlementVars
      \/ Pays(i, id, Statement(s, e), e.recipient, caller)
  BY <1>1, <1>5, <1>7, <1>8, SettlePays
<1>10. /\ \E l \in 1..Len(accepted'[s]) : accepted'[s][l] = e
       /\ accepted' \in [Snapshots -> Seq(Landed)]
  BY <1>3, <1>6 DEF VaultTypeOK
<1> QED
  BY <1>1, <1>2, <1>4, <1>6, <1>7, <1>9, <1>10 DEF Settles, snapshotVars

-----------------------------------------------------------------------------
(* Types.                                                                  *)

\* Crediting a leg keeps a balance a balance.
LEMMA CreditTyped ==
    ASSUME NEW c \in [Accounts -> Balance], NEW to \in Accounts \cup {NoAccount},
           NEW leg \in Leg
    PROVE  Credited(c, to, leg) \in [Accounts -> Balance]
<1>1. CASE to = NoAccount
  BY <1>1 DEF Credited
<1>2. CASE to # NoAccount
  <2>1. to \in Accounts /\ c[to] \in Balance
    BY <1>2
  <2>2. c[to].eth + leg.eth \in Nat /\ c[to].usdc + leg.usdc \in Nat
    BY <2>1 DEF Balance, Leg
  <2> QED
    BY <1>2, <2>1, <2>2 DEF Credited, Balance
<1> QED
  BY <1>1, <1>2

LEMMA SettlesTyped ==
    ASSUME VaultTypeOK, BoundInv, NEW i \in Instances, NEW id \in Nat,
           Settles(i, id)
    PROVE  VaultTypeOK' /\ BoundInv'
<1>1. PICK s \in Snapshots, e \in Landed, caller \in Accounts :
         /\ s = accounts[i].snapshot /\ e.checkpointId = id
         /\ id < Len(issued[s])
         /\ accepted' \in [Snapshots -> Seq(Landed)]
         /\ UNCHANGED <<block, issued, registry, pending, feePerRootUsd,
                        gasParams, held, requests>>
         /\ \/ UNCHANGED settlementVars
            \/ Pays(i, id, Statement(s, e), e.recipient, caller)
  BY DEF Settles
<1>2. CASE UNCHANGED settlementVars
  BY <1>1, <1>2 DEF VaultTypeOK, BoundInv, settlementVars, Claims
<1>3. CASE Pays(i, id, Statement(s, e), e.recipient, caller)
  <2>1. Statement(s, e) \in Statements
    BY <1>1, LandedStatement
  <2> DEFINE statement == Statement(s, e)
  <2> HIDE DEF statement
  <2>2. PICK c \in ClaimRecord, tank \in Account, fee \in Leg, gas \in Leg :
           /\ claims' = Append(claims, c)
           /\ claimed' = claimed \cup {<<i, accounts[i].snapshot, id>>}
           /\ paidStatement' = paidStatement \cup {<<i, statement>>}
           /\ policies' = [policies EXCEPT ![i].lastPaidBlock = block]
           /\ tank.snapshot = accounts[i].snapshot
           /\ tank.program = accounts[i].program
           /\ accounts' = [accounts EXCEPT ![i] = tank]
           /\ credit' = Credited(Credited(credit, e.recipient, fee), caller, gas)
    BY <1>3 DEF Pays, Recorded, Moved, statement
  <2>3. e.recipient \in Accounts \cup {NoAccount}
    BY DEF Landed
  <2>4. credit' \in [Accounts -> Balance]
    <3>1. Credited(credit, e.recipient, fee) \in [Accounts -> Balance]
      BY <2>3, CreditTyped DEF VaultTypeOK
    <3> QED
      BY <2>2, <3>1, CreditTyped
  <2>5. claims' \in Seq(ClaimRecord)
    BY <2>2 DEF VaultTypeOK
  <2>6. policies' \in [Instances -> Policy]
    BY <2>2 DEF VaultTypeOK, Policy
  <2>7. accounts' \in [Instances -> Account]
    BY <2>2 DEF VaultTypeOK
  <2>8. paidStatement' \subseteq Instances \X Statements
    BY <2>1, <2>2 DEF VaultTypeOK, statement
  <2>9. claimed' \subseteq Instances \X Snapshots \X Nat
    BY <1>1, <2>2 DEF VaultTypeOK
  <2>10. BoundInv'
    BY <1>1, <2>2 DEF BoundInv, VaultTypeOK
  <2> QED
    BY <1>1, <2>4, <2>5, <2>6, <2>7, <2>8, <2>9, <2>10 DEF VaultTypeOK
<1> QED
  BY <1>1, <1>2, <1>3

\* The snapshots, the clock and the registry.
LEMMA EnvironmentTyped ==
    ASSUME VaultTypeOK, BoundInv, Tick \/ Environment
    PROVE  VaultTypeOK' /\ BoundInv' /\ SnapshotsGrow
<1>1. CASE Tick
  <2>1. block' \in Nat \ {0}
    BY <1>1 DEF Tick, VaultTypeOK
  <2>2. UNCHANGED <<snapshotVars, registry, settlementVars, pending,
                    feePerRootUsd, gasParams, held, requests>>
    BY <1>1 DEF Tick
  <2> QED
    BY <2>1, <2>2 DEF VaultTypeOK, BoundInv, SnapshotsGrow, snapshotVars,
                      settlementVars
<1>2. ASSUME NEW s \in Snapshots, NEW f \in Frozen, Freeze(s, f),
             UNCHANGED <<block, registry, settlementVars, pending,
                         feePerRootUsd, gasParams, held, requests>>
      PROVE  VaultTypeOK' /\ BoundInv' /\ SnapshotsGrow
  <2>1. /\ issued' = [issued EXCEPT ![s] = Append(issued[s], f)]
        /\ accepted' = accepted
    BY <1>2 DEF Freeze
  <2>2. issued \in [Snapshots -> Seq(Frozen)]
    BY DEF VaultTypeOK
  <2>3. /\ issued' \in [Snapshots -> Seq(Frozen)]
        /\ issued'[s] = Append(issued[s], f)
        /\ \A r \in Snapshots \ {s} : issued'[r] = issued[r]
    BY <2>1, <2>2
  <2>4. SnapshotsGrow
    BY <2>1, <2>3 DEF SnapshotsGrow
  <2> QED
    BY <1>2, <2>1, <2>3, <2>4 DEF VaultTypeOK, BoundInv, settlementVars
<1>3. ASSUME NEW s \in Snapshots, NEW id \in 0..(Len(issued[s]) - 1),
             NEW program \in Provable,
             NEW recipient \in Accounts \cup {NoAccount},
             Apply(s, id, program, recipient),
             UNCHANGED <<block, registry, settlementVars, pending,
                         feePerRootUsd, gasParams, held, requests>>
      PROVE  VaultTypeOK' /\ BoundInv' /\ SnapshotsGrow
  <2>1. id \in Nat
    BY DEF VaultTypeOK
  <2>2. PICK e \in Landed :
           /\ accepted' \in [Snapshots -> Seq(Landed)]
           /\ issued' = issued /\ SnapshotsGrow
    BY <1>3, <2>1, ApplyAppends
  <2> QED
    BY <1>3, <2>2 DEF VaultTypeOK, BoundInv, settlementVars
<1>4. ASSUME NEW i \in Instances, NEW s \in Snapshots, NEW p \in Programs,
             registry' = [registry EXCEPT ![i] = [snapshot |-> s, program |-> p]],
             UNCHANGED <<block, snapshotVars, settlementVars, pending,
                         feePerRootUsd, gasParams, held, requests>>
      PROVE  VaultTypeOK' /\ BoundInv' /\ SnapshotsGrow
  BY <1>4 DEF VaultTypeOK, BoundInv, SnapshotsGrow, snapshotVars, settlementVars
<1> QED
  BY <1>1, <1>2, <1>3, <1>4 DEF Environment, Register, Update

\* The account a deposit credits is bound to a snapshot and a program.
LEMMA BoundTyped ==
    ASSUME VaultTypeOK, BoundInv, NEW i \in Instances, CanBind(i)
    PROVE  /\ Bound(i) \in Account /\ Bound(i).snapshot # NoSnapshot
           /\ Bound(i).program \in Programs
           /\ Bound(i).eth = accounts[i].eth /\ Bound(i).usdc = accounts[i].usdc
<1>1. accounts[i] \in Account /\ registry[i] \in
         [snapshot : Snapshots \cup {NoSnapshot},
          program : Programs \cup {NoSnapshot}]
  BY DEF VaultTypeOK
<1>2. CASE accounts[i].snapshot # NoSnapshot
  BY <1>1, <1>2 DEF Bound, BoundInv
<1>3. CASE accounts[i].snapshot = NoSnapshot
  <2>1. registry[i].snapshot \in WithProvenance
    BY <1>3 DEF CanBind
  <2>2. registry[i].snapshot # NoSnapshot
    BY <2>1, VaultAssumption
  <2>3. registry[i] # NoRecord
    BY <2>2 DEF NoRecord
  <2>4. registry[i].program \in Programs
    BY <2>3 DEF BoundInv
  <2> QED
    BY <1>1, <1>3, <2>2, <2>4 DEF Bound, Account
<1> QED
  BY <1>2, <1>3

\* Putting a bound account in place of another.
LEMMA AccountReplaced ==
    ASSUME VaultTypeOK, BoundInv, NEW i \in Instances, NEW a \in Account,
           a.snapshot # NoSnapshot => a.program \in Programs,
           accounts' = [accounts EXCEPT ![i] = a], UNCHANGED registry
    PROVE  accounts' \in [Instances -> Account] /\ BoundInv'
<1>1. accounts' \in [Instances -> Account]
  BY DEF VaultTypeOK
<1>2. \A j \in Instances : accounts'[j] = IF j = i THEN a ELSE accounts[j]
  BY DEF VaultTypeOK
<1> QED
  BY <1>1, <1>2 DEF BoundInv

LEMMA DepositTyped ==
    ASSUME VaultTypeOK, BoundInv, NEW i \in Instances, NEW amount \in Nat,
           DepositETH(i, amount) \/ DepositUSDC(i, amount)
    PROVE  VaultTypeOK' /\ BoundInv'
<1>1. Bound(i) \in Account /\ Bound(i).program \in Programs
  BY BoundTyped DEF DepositETH, DepositUSDC
<1>2. \E a \in Account : /\ accounts' = [accounts EXCEPT ![i] = a]
                         /\ a.program \in Programs
  <2>1. CASE DepositETH(i, amount)
    <3> DEFINE a == [Bound(i) EXCEPT !.eth = @ + amount]
    <3>1. a \in Account /\ a.program \in Programs
      BY <1>1 DEF Account
    <3>2. accounts' = [accounts EXCEPT ![i] = a]
      BY <2>1 DEF DepositETH
    <3> QED
      BY <3>1, <3>2
  <2>2. CASE DepositUSDC(i, amount)
    <3> DEFINE a == [Bound(i) EXCEPT !.usdc = @ + amount]
    <3>1. a \in Account /\ a.program \in Programs
      BY <1>1 DEF Account
    <3>2. accounts' = [accounts EXCEPT ![i] = a]
      BY <2>2 DEF DepositUSDC
    <3> QED
      BY <3>1, <3>2
  <2> QED
    BY <2>1, <2>2
<1>3. UNCHANGED <<block, snapshotVars, registry, policies, claimed,
                  paidStatement, credit, claims, pending, feePerRootUsd,
                  gasParams, requests>>
  BY DEF DepositETH, DepositUSDC
<1>4. accounts' \in [Instances -> Account] /\ BoundInv'
  BY <1>2, <1>3, AccountReplaced
<1>5. held' \in [eth : Int, usdc : Int]
  BY DEF VaultTypeOK, DepositETH, DepositUSDC
<1> QED
  BY <1>3, <1>4, <1>5 DEF VaultTypeOK, snapshotVars

LEMMA CommunityTyped ==
    ASSUME VaultTypeOK, BoundInv, NEW i \in Instances, NEW caller \in Accounts
    PROVE  /\ Migrate(i, caller) => VaultTypeOK' /\ BoundInv'
           /\ \A interval \in Intervals, cap \in Caps :
                 SetPolicy(i, caller, interval, cap) => VaultTypeOK' /\ BoundInv'
           /\ \A w \in Withdrawals :
                 RequestWithdrawal(i, caller, w[1], w[2]) =>
                    VaultTypeOK' /\ BoundInv'
           /\ CancelWithdrawal(i, caller) => VaultTypeOK' /\ BoundInv'
           /\ ExecuteWithdrawal(i, caller) => VaultTypeOK' /\ BoundInv'
<1>0. /\ accounts[i] \in Account /\ policies[i] \in Policy
      /\ pending[i] \in [eth : Nat, usdc : Nat, readyAt : Nat]
      /\ registry[i] \in [snapshot : Snapshots \cup {NoSnapshot},
                          program : Programs \cup {NoSnapshot}]
      /\ requests[i] \in Seq(Request) /\ block \in Nat
      /\ accounts[i].eth \in Nat /\ accounts[i].usdc \in Nat
      /\ pending[i].eth \in Nat /\ pending[i].usdc \in Nat
      /\ held.eth \in Int /\ held.usdc \in Int
  BY DEF VaultTypeOK, Account
<1>1. ASSUME Migrate(i, caller) PROVE VaultTypeOK' /\ BoundInv'
  <2> DEFINE a == [accounts[i] EXCEPT !.snapshot = registry[i].snapshot,
                                      !.program = registry[i].program]
  <2>1. a \in Account
    BY <1>0 DEF Account
  <2>2. accounts' = [accounts EXCEPT ![i] = a]
    BY <1>0, <1>1 DEF Migrate, VaultTypeOK, Account
  <2>3. registry[i].snapshot # NoSnapshot
    BY <1>1, VaultAssumption DEF Migrate
  <2>4. a.program \in Programs
    BY <1>0, <2>3 DEF BoundInv, NoRecord, Account
  <2> HIDE DEF a
  <2>5. accounts' \in [Instances -> Account] /\ BoundInv'
    BY <1>1, <2>1, <2>2, <2>4, AccountReplaced DEF Migrate
  <2> QED
    BY <1>1, <2>5 DEF Migrate, VaultTypeOK, snapshotVars
<1>2. ASSUME NEW interval \in Intervals, NEW cap \in Caps,
             SetPolicy(i, caller, interval, cap)
      PROVE  VaultTypeOK' /\ BoundInv'
  <2>1. interval \in Nat /\ cap \in Nat
    BY VaultAssumption
  <2>2. [policies[i] EXCEPT !.interval = interval, !.cap = cap] \in Policy
    BY <1>0, <2>1 DEF Policy
  <2>3. policies' = [policies EXCEPT ![i] =
                        [policies[i] EXCEPT !.interval = interval, !.cap = cap]]
    BY <1>2 DEF SetPolicy, VaultTypeOK, Policy
  <2>4. policies' \in [Instances -> Policy]
    BY <2>2, <2>3 DEF VaultTypeOK
  <2> QED
    BY <1>2, <2>4 DEF SetPolicy, VaultTypeOK, BoundInv, snapshotVars
<1>3. ASSUME NEW w \in Withdrawals, RequestWithdrawal(i, caller, w[1], w[2])
      PROVE  VaultTypeOK' /\ BoundInv'
  <2>1. w[1] \in Nat /\ w[2] \in Nat /\ WithdrawalNotice \in Nat
    BY VaultAssumption
  <2>2. pending' \in [Instances -> [eth : Nat, usdc : Nat, readyAt : Nat]]
    <3>1. /\ pending[i].eth + w[1] \in Nat /\ pending[i].usdc + w[2] \in Nat
          /\ block + WithdrawalNotice \in Nat
      BY <1>0, <2>1
    <3> QED
      BY <1>3, <3>1 DEF RequestWithdrawal, VaultTypeOK
  <2>3. requests' \in [Instances -> Seq(Request)]
    <3>1. [eth |-> w[1], usdc |-> w[2], at |-> block] \in Request
      BY <1>0, <2>1 DEF Request
    <3>2. Append(requests[i], [eth |-> w[1], usdc |-> w[2], at |-> block])
             \in Seq(Request)
      BY <1>0, <3>1
    <3> QED
      BY <1>3, <3>2 DEF RequestWithdrawal, VaultTypeOK
  <2> QED
    BY <1>3, <2>2, <2>3 DEF RequestWithdrawal, VaultTypeOK, BoundInv,
                            snapshotVars, settlementVars
<1>4. ASSUME CancelWithdrawal(i, caller) PROVE VaultTypeOK' /\ BoundInv'
  <2>1. pending' \in [Instances -> [eth : Nat, usdc : Nat, readyAt : Nat]]
    BY <1>4 DEF CancelWithdrawal, NothingPending, VaultTypeOK
  <2>2. requests' \in [Instances -> Seq(Request)]
    BY <1>4 DEF CancelWithdrawal, VaultTypeOK
  <2> QED
    BY <1>4, <2>1, <2>2 DEF CancelWithdrawal, VaultTypeOK, BoundInv,
                            snapshotVars, settlementVars
<1>5. ASSUME ExecuteWithdrawal(i, caller) PROVE VaultTypeOK' /\ BoundInv'
  <2> DEFINE eth == Lesser(pending[i].eth, accounts[i].eth)
             usdc == Lesser(pending[i].usdc, accounts[i].usdc)
             a == [accounts[i] EXCEPT !.eth = @ - eth, !.usdc = @ - usdc]
  <2>1. eth \in 0..accounts[i].eth /\ usdc \in 0..accounts[i].usdc
    BY <1>0 DEF Lesser, Account
  <2>2. accounts' = [accounts EXCEPT ![i].eth = @ - eth, ![i].usdc = @ - usdc]
        /\ held' = [eth |-> held.eth - eth, usdc |-> held.usdc - usdc]
    BY <1>5 DEF ExecuteWithdrawal
  <2> HIDE DEF eth, usdc
  <2>3. accounts' = [accounts EXCEPT ![i] = a]
    BY <1>0, <2>2 DEF VaultTypeOK, Account
  <2>4. accounts[i].eth - eth \in Nat /\ accounts[i].usdc - usdc \in Nat
    BY <1>0, <2>1
  <2>5. a \in Account /\ (a.snapshot # NoSnapshot => a.program \in Programs)
    BY <1>0, <2>4 DEF Account, BoundInv
  <2>6. held' \in [eth : Int, usdc : Int]
    BY <1>0, <2>1, <2>2
  <2> HIDE DEF a
  <2>7. UNCHANGED <<block, snapshotVars, registry, policies, claimed,
                    paidStatement, credit, claims, feePerRootUsd, gasParams>>
    BY <1>5 DEF ExecuteWithdrawal
  <2>8. accounts' \in [Instances -> Account] /\ BoundInv'
    BY <2>3, <2>5, <2>7, AccountReplaced
  <2>9. pending' \in [Instances -> [eth : Nat, usdc : Nat, readyAt : Nat]]
        /\ requests' \in [Instances -> Seq(Request)]
    BY <1>5 DEF ExecuteWithdrawal, NothingPending, VaultTypeOK
  <2> QED
    BY <2>6, <2>7, <2>8, <2>9 DEF VaultTypeOK, snapshotVars
<1> QED
  BY <1>1, <1>2, <1>3, <1>4, <1>5

LEMMA WithdrawCreditTyped ==
    ASSUME VaultTypeOK, BoundInv, NEW a \in Accounts, NEW token \in Token,
           WithdrawCredit(a, token)
    PROVE  VaultTypeOK' /\ BoundInv'
<1>1. credit[a] \in Balance
  BY DEF VaultTypeOK
<1>2. credit' = [credit EXCEPT ![a] = [credit[a] EXCEPT ![token] = 0]]
  BY DEF WithdrawCredit, VaultTypeOK
<1>3. [credit[a] EXCEPT ![token] = 0] \in Balance
  BY <1>1 DEF Balance, Token
<1>4. credit' \in [Accounts -> Balance]
  BY <1>2, <1>3 DEF VaultTypeOK
<1>5. held' \in [eth : Int, usdc : Int]
  <2>1. credit[a][token] \in Int /\ held[token] \in Int
    BY <1>1 DEF Balance, Token, VaultTypeOK
  <2>2. held[token] - credit[a][token] \in Int
    BY <2>1
  <2> QED
    BY <2>2 DEF WithdrawCredit, VaultTypeOK, Token
<1> QED
  BY <1>4, <1>5 DEF WithdrawCredit, VaultTypeOK, BoundInv, snapshotVars

LEMMA SettingsTyped ==
    ASSUME VaultTypeOK, BoundInv
    PROVE  /\ \A p \in Programs, fee \in Fees :
                 SetFeePerRootUsd(p, fee[1], fee[2]) => VaultTypeOK' /\ BoundInv'
           /\ \A limits \in GasLimits :
                 SetGasParams(limits) => VaultTypeOK' /\ BoundInv'
<1>1. ASSUME NEW p \in Programs, NEW fee \in Fees,
             SetFeePerRootUsd(p, fee[1], fee[2])
      PROVE  VaultTypeOK' /\ BoundInv'
  <2>1. fee[1] \in 1..3 /\ fee[2] \in Nat
    BY <1>1, VaultAssumption DEF SetFeePerRootUsd
  <2>2. feePerRootUsd' \in [Programs -> [1..3 -> Nat]]
    BY <1>1, <2>1 DEF SetFeePerRootUsd, VaultTypeOK
  <2> QED
    BY <1>1, <2>2 DEF SetFeePerRootUsd, VaultTypeOK, BoundInv, snapshotVars,
                      settlementVars
<1>2. ASSUME NEW limits \in GasLimits, SetGasParams(limits)
      PROVE  VaultTypeOK' /\ BoundInv'
  <2>1. gasParams' \in Nat \X Nat
    BY <1>2, VaultAssumption DEF SetGasParams
  <2> QED
    BY <1>2, <2>1 DEF SetGasParams, VaultTypeOK, BoundInv, snapshotVars,
                      settlementVars
<1> QED
  BY <1>1, <1>2

\* A step that leaves the ledger of claims and every last paid block alone.
ClaimsStand ==
    /\ UNCHANGED <<claims, claimed, paidStatement>>
    /\ \A i \in Instances : policies'[i].lastPaidBlock = policies[i].lastPaidBlock
    /\ block' \in {block, block + 1}

LEMMA CommunityLetsClaimsBe ==
    ASSUME VaultTypeOK, Community
    PROVE  UNCHANGED snapshotVars /\ ClaimsStand
<1>1. PICK i \in Instances, caller \in Accounts :
         \/ Migrate(i, caller)
         \/ \E interval \in Intervals, cap \in Caps :
               SetPolicy(i, caller, interval, cap)
         \/ \E w \in Withdrawals : RequestWithdrawal(i, caller, w[1], w[2])
         \/ CancelWithdrawal(i, caller)
         \/ ExecuteWithdrawal(i, caller)
  BY DEF Community
<1>2. ASSUME NEW interval, NEW cap, SetPolicy(i, caller, interval, cap)
      PROVE  UNCHANGED snapshotVars /\ ClaimsStand
  <2>1. policies' = [policies EXCEPT ![i].interval = interval, ![i].cap = cap]
        /\ UNCHANGED <<block, snapshotVars, claims, claimed, paidStatement>>
    BY <1>2 DEF SetPolicy
  <2>2. \A j \in Instances :
           policies'[j].lastPaidBlock = policies[j].lastPaidBlock
    BY <2>1 DEF VaultTypeOK, Policy
  <2> QED
    BY <2>1, <2>2 DEF ClaimsStand
<1>3. CASE Migrate(i, caller)
  BY <1>3 DEF Migrate, ClaimsStand
<1>4. CASE \E w \in Withdrawals : RequestWithdrawal(i, caller, w[1], w[2])
  BY <1>4 DEF RequestWithdrawal, ClaimsStand, settlementVars
<1>5. CASE CancelWithdrawal(i, caller)
  BY <1>5 DEF CancelWithdrawal, ClaimsStand, settlementVars
<1>6. CASE ExecuteWithdrawal(i, caller)
  BY <1>6 DEF ExecuteWithdrawal, ClaimsStand
<1> QED
  BY <1>1, <1>2, <1>3, <1>4, <1>5, <1>6

\* The vocabulary a transaction draws its settlements from.
LEMMA ClaimingSettles ==
    ASSUME VaultTypeOK, BoundInv, AcceptedAscend, Claiming
    PROVE  /\ SnapshotsGrow
           /\ \E i \in Instances, id \in Nat : Settles(i, id)
<1>1. PICK i \in Instances, caller \in Accounts, feed \in Feeds,
           id \in UNION {0..(Len(issued[s]) - 1) : s \in Snapshots} :
         \/ Claim(i, id, caller, feed)
         \/ \E program \in Provable, recipient \in Accounts \cup {NoAccount},
               gasUsed \in GasUsed, basefee \in BaseFees, min \in MinPayouts :
               SubmitAndClaim(i, id, program, recipient, caller, gasUsed,
                              basefee, feed, min)
  BY DEF Claiming
<1>2. id \in Nat
  BY DEF VaultTypeOK
<1>3. CASE Claim(i, id, caller, feed)
  <2>1. Settles(i, id) /\ UNCHANGED snapshotVars
    BY <1>2, <1>3, ClaimSettles
  <2> QED
    BY <1>2, <2>1 DEF SnapshotsGrow, snapshotVars
<1>4. ASSUME NEW program \in Provable, NEW recipient \in Accounts \cup {NoAccount},
             NEW gasUsed \in GasUsed, NEW basefee \in BaseFees,
             NEW min \in MinPayouts,
             SubmitAndClaim(i, id, program, recipient, caller, gasUsed, basefee,
                            feed, min)
      PROVE  SnapshotsGrow /\ \E j \in Instances, n \in Nat : Settles(j, n)
  BY <1>2, <1>4, SubmitAndClaimSettles
<1> QED
  BY <1>1, <1>3, <1>4

\* Every step is typed, appends to snapshots, and settles or lets claims be.
LEMMA StepTyped ==
    ASSUME VaultTypeOK, BoundInv, AcceptedAscend, [Next]_vars
    PROVE  /\ VaultTypeOK' /\ BoundInv' /\ SnapshotsGrow
           /\ ClaimsStand \/ \E i \in Instances, id \in Nat : Settles(i, id)
<1> DEFINE Fine == /\ VaultTypeOK' /\ BoundInv' /\ SnapshotsGrow
                   /\ \/ ClaimsStand
                      \/ \E i \in Instances, id \in Nat : Settles(i, id)
<1>1. ASSUME VaultTypeOK' /\ BoundInv', UNCHANGED snapshotVars, ClaimsStand
      PROVE  Fine
  BY <1>1 DEF SnapshotsGrow, snapshotVars
<1>2. CASE Tick \/ Environment
  <2>1. ClaimsStand
    BY <1>2 DEF Tick, Environment, ClaimsStand, settlementVars
  <2> QED
    BY <1>2, <2>1, EnvironmentTyped
<1>3. ASSUME NEW i \in Instances, NEW amount \in Deposits,
             DepositETH(i, amount) \/ DepositUSDC(i, amount)
      PROVE  Fine
  <2>1. amount \in Nat
    BY VaultAssumption
  <2>2. UNCHANGED snapshotVars /\ ClaimsStand
    BY <1>3 DEF DepositETH, DepositUSDC, ClaimsStand
  <2> QED
    BY <1>1, <1>3, <2>1, <2>2, DepositTyped
<1>4. ASSUME NEW p \in Programs, NEW fee \in Fees,
             SetFeePerRootUsd(p, fee[1], fee[2])
      PROVE  Fine
  <2>1. UNCHANGED snapshotVars /\ ClaimsStand
    BY <1>4 DEF SetFeePerRootUsd, ClaimsStand, settlementVars
  <2> QED
    BY <1>1, <1>4, <2>1, SettingsTyped
<1>5. ASSUME NEW limits \in GasLimits, SetGasParams(limits) PROVE Fine
  <2>1. UNCHANGED snapshotVars /\ ClaimsStand
    BY <1>5 DEF SetGasParams, ClaimsStand, settlementVars
  <2> QED
    BY <1>1, <1>5, <2>1, SettingsTyped
<1>6. CASE Claiming
  <2>1. SnapshotsGrow /\ \E i \in Instances, id \in Nat : Settles(i, id)
    BY <1>6, ClaimingSettles
  <2> QED
    BY <2>1, SettlesTyped
<1>7. CASE Community
  <2>1. UNCHANGED snapshotVars /\ ClaimsStand
    BY <1>7, CommunityLetsClaimsBe
  <2>2. VaultTypeOK' /\ BoundInv'
    BY <1>7, CommunityTyped DEF Community
  <2> QED
    BY <1>1, <2>1, <2>2
<1>8. ASSUME NEW a \in Accounts, NEW token \in Token, WithdrawCredit(a, token)
      PROVE  Fine
  <2>1. UNCHANGED snapshotVars /\ ClaimsStand
    BY <1>8 DEF WithdrawCredit, ClaimsStand
  <2> QED
    BY <1>1, <1>8, <2>1, WithdrawCreditTyped
<1>9. CASE UNCHANGED vars
  BY <1>9 DEF vars, snapshotVars, settlementVars, VaultTypeOK, BoundInv,
              SnapshotsGrow, ClaimsStand
<1> QED
  BY <1>2, <1>3, <1>4, <1>5, <1>6, <1>7, <1>8, <1>9 DEF Next, Token

-----------------------------------------------------------------------------
(* The ledger of claims.                                                   *)

Ledger ==
    /\ SlotsAreClaims
    /\ StatementPaidOnce
    /\ FeeFollowsCommittedPayee
    /\ LastPaidCovers
    /\ CadenceRespected

\* Accepted checkpoints stay in order, and are of frozen ones.
LEMMA AscendStep ==
    ASSUME VaultTypeOK, AcceptedAscend, SnapshotsGrow
    PROVE  AcceptedAscend'
<1> SUFFICES ASSUME NEW s \in Snapshots, NEW k \in 1..Len(accepted'[s])
             PROVE  /\ accepted'[s][k].checkpointId < Len(issued'[s])
                    /\ \A l \in 1..(k - 1) : accepted'[s][l].checkpointId
                                               < accepted'[s][k].checkpointId
  BY DEF AcceptedAscend
<1>1. /\ issued[s] \in Seq(Frozen) /\ accepted[s] \in Seq(Landed)
      /\ Len(issued[s]) \in Nat
  BY DEF VaultTypeOK
<1>2. Len(issued'[s]) \in Nat /\ Len(issued'[s]) >= Len(issued[s])
  <2>1. CASE issued'[s] = issued[s]
    BY <1>1, <2>1
  <2>2. ASSUME NEW f \in Frozen, issued'[s] = Append(issued[s], f)
        PROVE  Len(issued'[s]) \in Nat /\ Len(issued'[s]) >= Len(issued[s])
    BY <1>1, <2>2
  <2> QED
    BY <2>1, <2>2 DEF SnapshotsGrow
<1>3. \A j \in 1..Len(accepted[s]) : accepted[s][j].checkpointId \in Nat
  <2>1. \A j \in 1..Len(accepted[s]) : accepted[s][j] \in Landed
    BY <1>1
  <2> QED
    BY <2>1 DEF Landed
<1>4. \A j \in 1..Len(accepted[s]) :
         /\ accepted[s][j].checkpointId < Len(issued[s])
         /\ \A l \in 1..(j - 1) :
               accepted[s][l].checkpointId < accepted[s][j].checkpointId
  BY DEF AcceptedAscend
<1>5. CASE accepted'[s] = accepted[s]
  BY <1>1, <1>2, <1>3, <1>4, <1>5
<1>6. ASSUME NEW e \in Landed, accepted'[s] = Append(accepted[s], e),
             e.checkpointId < Len(issued[s]),
             accepted[s] # <<>> =>
                e.checkpointId > accepted[s][Len(accepted[s])].checkpointId
      PROVE  /\ accepted'[s][k].checkpointId < Len(issued'[s])
             /\ \A l \in 1..(k - 1) : accepted'[s][l].checkpointId
                                        < accepted'[s][k].checkpointId
  <2> DEFINE n == Len(accepted[s])
  <2>1. /\ n \in Nat /\ k \in 1..(n + 1)
        /\ \A j \in 1..n : accepted'[s][j] = accepted[s][j]
        /\ accepted'[s][n + 1] = e /\ e.checkpointId \in Nat
    BY <1>1, <1>6 DEF Landed
  <2>2. \A j \in 1..n : accepted[s][j].checkpointId < e.checkpointId
    <3> SUFFICES ASSUME NEW j \in 1..n
                 PROVE  accepted[s][j].checkpointId < e.checkpointId
      OBVIOUS
    <3>1. accepted[s] # <<>> /\ n \in 1..n
      BY <1>1, <2>1
    <3>2. accepted[s][n].checkpointId < e.checkpointId
      BY <1>3, <1>6, <2>1, <3>1
    <3>3. j < n => accepted[s][j].checkpointId < accepted[s][n].checkpointId
      BY <1>4, <2>1, <3>1
    <3> QED
      BY <1>3, <2>1, <3>1, <3>2, <3>3
  <2>3. CASE k = n + 1
    <3>1. accepted'[s][k] = e /\ \A l \in 1..(k - 1) : l \in 1..n
      BY <2>1, <2>3
    <3>2. \A l \in 1..(k - 1) : accepted'[s][l].checkpointId < e.checkpointId
      BY <2>1, <2>2, <3>1
    <3>3. e.checkpointId < Len(issued'[s])
      BY <1>1, <1>2, <1>6, <2>1
    <3> QED
      BY <3>1, <3>2, <3>3
  <2>4. CASE k \in 1..n
    <3>1. /\ accepted'[s][k] = accepted[s][k]
          /\ \A l \in 1..(k - 1) : l \in 1..n
      BY <2>1, <2>4
    <3>2. \A l \in 1..(k - 1) : accepted'[s][l].checkpointId
                                   < accepted[s][k].checkpointId
      BY <1>4, <2>1, <2>4, <3>1
    <3>3. accepted[s][k].checkpointId < Len(issued'[s])
      <4>1. /\ accepted[s][k].checkpointId \in Nat
            /\ accepted[s][k].checkpointId < Len(issued[s])
        BY <1>3, <1>4, <2>4
      <4> QED
        BY <1>1, <1>2, <4>1
    <3> QED
      BY <3>1, <3>2, <3>3
  <2> QED
    BY <2>1, <2>3, <2>4
<1> QED
  BY <1>5, <1>6 DEF SnapshotsGrow

\* What was accepted stays, and proves what it proved.
LEMMA RecordStays ==
    ASSUME VaultTypeOK, AcceptedAscend, SnapshotsGrow, NEW s \in Snapshots,
           NEW id, NEW e \in AcceptedWithId(s, id)
    PROVE  /\ e \in AcceptedWithId(s, id)'
           /\ Statement(s, e)' = Statement(s, e)
<1>1. PICK k \in 1..Len(accepted[s]) : accepted[s][k] = e /\ e.checkpointId = id
  BY DEF AcceptedWithId
<1>2. /\ issued[s] \in Seq(Frozen) /\ accepted[s] \in Seq(Landed)
      /\ e \in Landed /\ e.checkpointId \in Nat
      /\ e.checkpointId < Len(issued[s])
  <2>1. issued[s] \in Seq(Frozen) /\ accepted[s] \in Seq(Landed)
    BY DEF VaultTypeOK
  <2>2. e \in Landed
    BY <1>1, <2>1
  <2>3. accepted[s][k].checkpointId < Len(issued[s])
    BY DEF AcceptedAscend
  <2> QED
    BY <1>1, <2>1, <2>2, <2>3 DEF Landed
<1>3. k \in 1..Len(accepted'[s]) /\ accepted'[s][k] = e
  <2>1. CASE accepted'[s] = accepted[s]
    BY <1>1, <2>1
  <2>2. ASSUME NEW x \in Landed, accepted'[s] = Append(accepted[s], x)
        PROVE  k \in 1..Len(accepted'[s]) /\ accepted'[s][k] = e
    BY <1>1, <1>2, <2>2
  <2> QED
    BY <2>1, <2>2 DEF SnapshotsGrow
<1>4. issued'[s][e.checkpointId + 1] = issued[s][e.checkpointId + 1]
  <2>1. CASE issued'[s] = issued[s]
    BY <2>1
  <2>2. ASSUME NEW x \in Frozen, issued'[s] = Append(issued[s], x)
        PROVE  issued'[s][e.checkpointId + 1] = issued[s][e.checkpointId + 1]
    BY <1>2, <2>2
  <2> QED
    BY <2>1, <2>2 DEF SnapshotsGrow
<1> QED
  BY <1>1, <1>3, <1>4 DEF AcceptedWithId, Statement

LEMMA ClaimTyped ==
    ASSUME VaultTypeOK, NEW c \in Claims
    PROVE  /\ c \in ClaimRecord /\ c.instance \in Instances
           /\ c.snapshot \in Snapshots /\ c.block \in Nat /\ c.interval \in Nat
           /\ policies[c.instance].lastPaidBlock \in Nat
<1>1. c \in ClaimRecord
  <2>1. claims \in Seq(ClaimRecord)
    BY DEF VaultTypeOK
  <2>2. PICK k \in 1..Len(claims) : c = claims[k]
    BY DEF Claims
  <2> QED
    BY <2>1, <2>2
<1>2. c.instance \in Instances
  BY <1>1 DEF ClaimRecord
<1>3. policies[c.instance] \in Policy
  BY <1>2 DEF VaultTypeOK
<1> QED
  BY <1>1, <1>2, <1>3 DEF ClaimRecord, Policy

\* A step that pays nobody leaves the ledger right.
LEMMA LedgerStands ==
    ASSUME VaultTypeOK, AcceptedAscend, Ledger, SnapshotsGrow, ClaimsStand
    PROVE  Ledger'
<1>1. Claims' = Claims
  BY DEF ClaimsStand, Claims
<1>2. SlotsAreClaims' /\ StatementPaidOnce' /\ CadenceRespected'
  BY <1>1 DEF Ledger, SlotsAreClaims, StatementPaidOnce, CadenceRespected,
              ClaimsStand
<1>3. FeeFollowsCommittedPayee'
  <2> SUFFICES ASSUME NEW c \in Claims
               PROVE  \E e \in AcceptedWithId(c.snapshot, c.id)' :
                         /\ c.recipient = e.recipient
                         /\ c.statement = Statement(c.snapshot, e)'
    BY <1>1 DEF FeeFollowsCommittedPayee, AcceptedWithId, Statement
  <2>1. PICK e \in AcceptedWithId(c.snapshot, c.id) :
           c.recipient = e.recipient /\ c.statement = Statement(c.snapshot, e)
    BY DEF Ledger, FeeFollowsCommittedPayee
  <2>2. c.snapshot \in Snapshots
    BY ClaimTyped
  <2> QED
    BY <2>1, <2>2, RecordStays
<1>4. LastPaidCovers'
  <2>1. \A c \in Claims : c.instance \in Instances
    BY ClaimTyped
  <2>2. /\ block \in Nat /\ block' \in Nat /\ block' >= block
        /\ \A i \in Instances : policies[i].lastPaidBlock \in Nat
    BY DEF ClaimsStand, VaultTypeOK, Policy
  <2>3. \A i \in Instances :
           policies'[i].lastPaidBlock = policies[i].lastPaidBlock
    BY DEF ClaimsStand
  <2> QED
    BY <1>1, <2>1, <2>2, <2>3 DEF Ledger, LastPaidCovers
<1> QED
  BY <1>2, <1>3, <1>4 DEF Ledger

\* A payment adds one claim, for a statement and a slot never paid, after the
\* interval, to the payee of a record that was accepted.
LEMMA LedgerGrows ==
    ASSUME VaultTypeOK, AcceptedAscend, Ledger, SnapshotsGrow,
           NEW i \in Instances, NEW id \in Nat, NEW s \in Snapshots,
           NEW e \in Landed, NEW caller \in Accounts,
           s = accounts[i].snapshot, <<i, s, id>> \notin claimed,
           e.checkpointId = id, id < Len(issued[s]),
           \E k \in 1..Len(accepted'[s]) : accepted'[s][k] = e,
           UNCHANGED <<block, issued>>,
           Pays(i, id, Statement(s, e), e.recipient, caller)
    PROVE  Ledger'
<1> DEFINE statement == Statement(s, e)
           n == Len(claims)
<1>1. PICK c \in ClaimRecord :
         /\ c.instance = i /\ c.snapshot = s /\ c.id = id
         /\ c.statement = statement /\ c.recipient = e.recipient
         /\ c.block = block /\ c.interval = policies[i].interval
         /\ <<i, statement>> \notin paidStatement
         /\ policies[i].lastPaidBlock # 0 =>
               block >= policies[i].lastPaidBlock + policies[i].interval
         /\ claims' = Append(claims, c)
         /\ claimed' = claimed \cup {<<i, s, id>>}
         /\ paidStatement' = paidStatement \cup {<<i, statement>>}
         /\ policies' = [policies EXCEPT ![i].lastPaidBlock = block]
  BY DEF Pays, Recorded
<1>2. Statement(s, e)' = statement
  BY DEF Statement
<1> HIDE DEF statement
<1>3. claims \in Seq(ClaimRecord)
  BY DEF VaultTypeOK
<1>4. /\ n \in Nat /\ Len(claims') = n + 1 /\ claims'[n + 1] = c
      /\ \A k \in 1..n : claims'[k] = claims[k]
  BY <1>1, <1>3
<1> HIDE DEF n
<1>5. \A k \in 1..n : claims[k] \in Claims
  BY DEF Claims, n
<1>6. Claims' = Claims \cup {c}
  <2>1. \A x \in Claims' : x \in Claims \cup {c}
    <3>1. \A k \in 1..(n + 1) : k = n + 1 \/ k \in 1..n
      BY <1>4
    <3>2. \A k \in 1..(n + 1) : claims'[k] \in Claims \cup {c}
      BY <1>4, <1>5, <3>1
    <3> QED
      BY <1>4, <3>2 DEF Claims
  <2>2. \A x \in Claims : x \in Claims'
    BY <1>4 DEF Claims, n
  <2>3. c \in Claims'
    BY <1>4 DEF Claims
  <2> QED
    BY <2>1, <2>2, <2>3
<1>7. /\ block \in Nat \ {0} /\ policies[i].lastPaidBlock \in Nat
      /\ policies[i].interval \in Nat
      /\ \A j \in Instances : policies'[j].lastPaidBlock =
            IF j = i THEN block ELSE policies[j].lastPaidBlock
  BY <1>1 DEF VaultTypeOK, Policy
<1>8. SlotsAreClaims'
  BY <1>1, <1>6 DEF Ledger, SlotsAreClaims
<1>9. \A x \in Claims : x.instance = i =>
         /\ x.statement # statement /\ <<x.snapshot, x.id>> # <<s, id>>
  BY <1>1 DEF Ledger, SlotsAreClaims
<1>10. StatementPaidOnce'
  <2> SUFFICES ASSUME NEW k \in 1..(n + 1), NEW l \in 1..(n + 1), k # l,
                      claims'[k].instance = claims'[l].instance
               PROVE  /\ claims'[k].statement # claims'[l].statement
                      /\ <<claims'[k].snapshot, claims'[k].id>>
                           # <<claims'[l].snapshot, claims'[l].id>>
    BY <1>4 DEF StatementPaidOnce
  <2>1. CASE k \in 1..n /\ l \in 1..n
    BY <1>4, <2>1 DEF Ledger, StatementPaidOnce, n
  <2>2. CASE k \in 1..n /\ l = n + 1
    BY <1>1, <1>4, <1>5, <1>9, <2>2
  <2>3. CASE k = n + 1 /\ l \in 1..n
    BY <1>1, <1>4, <1>5, <1>9, <2>3
  <2> QED
    BY <1>4, <2>1, <2>2, <2>3
<1>11. FeeFollowsCommittedPayee'
  <2> SUFFICES ASSUME NEW x \in Claims \cup {c}
               PROVE  \E r \in AcceptedWithId(x.snapshot, x.id)' :
                         /\ x.recipient = r.recipient
                         /\ x.statement = Statement(x.snapshot, r)'
    BY <1>6 DEF FeeFollowsCommittedPayee, AcceptedWithId, Statement
  <2>1. CASE x \in Claims
    <3>1. PICK r \in AcceptedWithId(x.snapshot, x.id) :
             x.recipient = r.recipient /\ x.statement = Statement(x.snapshot, r)
      BY <2>1 DEF Ledger, FeeFollowsCommittedPayee
    <3>2. x.snapshot \in Snapshots
      BY <2>1, ClaimTyped
    <3> QED
      BY <3>1, <3>2, RecordStays
  <2>2. CASE x = c
    <3>1. e \in AcceptedWithId(s, id)'
      BY DEF AcceptedWithId
    <3> QED
      BY <1>1, <1>2, <2>2, <3>1
  <2> QED
    BY <2>1, <2>2
<1>12. LastPaidCovers'
  <2>1. \A x \in Claims : x.instance \in Instances /\ x.block \in Nat
    BY ClaimTyped
  <2>2. \A j \in Instances : policies[j].lastPaidBlock <= block
    BY DEF Ledger, LastPaidCovers
  <2>3. \A x \in Claims : /\ x.block # 0
                          /\ x.block <= policies[x.instance].lastPaidBlock
    BY DEF Ledger, LastPaidCovers
  <2>4. \A x \in Claims' :
           x.block # 0 /\ x.block <= policies'[x.instance].lastPaidBlock
    BY <1>1, <1>6, <1>7, <2>1, <2>2, <2>3
  <2>5. \A j \in Instances : policies'[j].lastPaidBlock <= block'
    BY <1>7, <2>2
  <2> QED
    BY <2>4, <2>5 DEF LastPaidCovers
<1>13. CadenceRespected'
  <2> SUFFICES ASSUME NEW k \in 1..(n + 1), NEW l \in 1..(n + 1), k < l,
                      claims'[k].instance = claims'[l].instance
               PROVE  claims'[l].block >= claims'[k].block + claims'[l].interval
    BY <1>4 DEF CadenceRespected
  <2>1. k \in 1..n
    BY <1>4
  <2>2. CASE l \in 1..n
    BY <1>4, <2>1, <2>2 DEF Ledger, CadenceRespected, n
  <2>3. CASE l = n + 1
    <3>1. /\ claims[k] \in Claims /\ claims[k].block \in Nat
          /\ claims[k].instance = i
      BY <1>1, <1>4, <1>5, <2>1, <2>3, ClaimTyped
    <3>2. claims[k].block # 0
          /\ claims[k].block <= policies[i].lastPaidBlock
      BY <3>1 DEF Ledger, LastPaidCovers
    <3>3. block >= policies[i].lastPaidBlock + policies[i].interval
      BY <1>1, <1>7, <3>1, <3>2
    <3>4. block >= claims[k].block + policies[i].interval
      BY <1>7, <3>1, <3>2, <3>3
    <3> QED
      BY <1>1, <1>4, <2>1, <2>3, <3>4
  <2> QED
    BY <1>4, <2>2, <2>3
<1> QED
  BY <1>8, <1>10, <1>11, <1>12, <1>13 DEF Ledger

LEMMA LedgerStep ==
    ASSUME VaultTypeOK, BoundInv, AcceptedAscend, Ledger, [Next]_vars
    PROVE  Ledger'
<1>1. SnapshotsGrow
  BY StepTyped
<1>2. CASE ClaimsStand
  BY <1>1, <1>2, LedgerStands
<1>3. ASSUME NEW i \in Instances, NEW id \in Nat, Settles(i, id) PROVE Ledger'
  <2>1. PICK s \in Snapshots, e \in Landed, caller \in Accounts :
           /\ s = accounts[i].snapshot /\ <<i, s, id>> \notin claimed
           /\ e.checkpointId = id /\ id < Len(issued[s])
           /\ \E k \in 1..Len(accepted'[s]) : accepted'[s][k] = e
           /\ UNCHANGED <<block, issued>>
           /\ \/ UNCHANGED settlementVars
              \/ Pays(i, id, Statement(s, e), e.recipient, caller)
    BY <1>3 DEF Settles
  <2>2. CASE UNCHANGED settlementVars
    <3>1. ClaimsStand
      BY <2>1, <2>2 DEF settlementVars, ClaimsStand
    <3> QED
      BY <1>1, <3>1, LedgerStands
  <2>3. CASE Pays(i, id, Statement(s, e), e.recipient, caller)
    BY <1>1, <2>1, <2>3, LedgerGrows
  <2> QED
    BY <2>1, <2>2, <2>3
<1> QED
  BY <1>2, <1>3, StepTyped

-----------------------------------------------------------------------------
(* Withdrawals.                                                            *)

\* The clock never goes back.
LEMMA BlockStep ==
    ASSUME VaultTypeOK, BoundInv, AcceptedAscend, [Next]_vars
    PROVE  block \in Nat /\ block' \in Nat /\ block' >= block
<1>1. block \in Nat
  BY DEF VaultTypeOK
<1>2. block' \in {block, block + 1}
  BY StepTyped DEF ClaimsStand, Settles
<1> QED
  BY <1>1, <1>2

\* Only three community controls touch a pending withdrawal.
LEMMA PendingTouched ==
    ASSUME [Next]_vars
    PROVE  \/ UNCHANGED <<pending, requests>>
           \/ \E i \in Instances, caller \in Accounts :
                 \/ \E w \in Withdrawals :
                       RequestWithdrawal(i, caller, w[1], w[2])
                 \/ CancelWithdrawal(i, caller)
                 \/ ExecuteWithdrawal(i, caller)
<1>1. CASE Tick
  BY <1>1 DEF Tick
<1>2. CASE Environment
  BY <1>2 DEF Environment
<1>3. CASE \E i \in Instances, amount \in Deposits :
              DepositETH(i, amount) \/ DepositUSDC(i, amount)
  BY <1>3 DEF DepositETH, DepositUSDC
<1>4. CASE \/ \E p \in Programs, fee \in Fees :
                 SetFeePerRootUsd(p, fee[1], fee[2])
           \/ \E limits \in GasLimits : SetGasParams(limits)
  BY <1>4 DEF SetFeePerRootUsd, SetGasParams
<1>5. CASE Claiming
  <2>1. ASSUME NEW i, NEW id, NEW caller, NEW feed, Claim(i, id, caller, feed)
        PROVE  UNCHANGED <<pending, requests>>
    BY <2>1 DEF Claim
  <2>2. ASSUME NEW i, NEW id, NEW program, NEW recipient, NEW caller,
               NEW gasUsed, NEW basefee, NEW feed, NEW min,
               SubmitAndClaim(i, id, program, recipient, caller, gasUsed,
                              basefee, feed, min)
        PROVE  UNCHANGED <<pending, requests>>
    BY <2>2 DEF SubmitAndClaim
  <2> QED
    BY <1>5, <2>1, <2>2 DEF Claiming
<1>6. CASE Community
  BY <1>6 DEF Community, Migrate, SetPolicy
<1>7. CASE \E a \in Accounts, token \in {"eth", "usdc"} : WithdrawCredit(a, token)
  BY <1>7 DEF WithdrawCredit
<1>8. CASE UNCHANGED vars
  BY <1>8 DEF vars
<1> QED
  BY <1>1, <1>2, <1>3, <1>4, <1>5, <1>6, <1>7, <1>8 DEF Next

\* The requests of one instance add up, one by one.
LEMMA RequestsAddUp ==
    ASSUME NEW q \in Seq(Request), NEW r \in Request, NEW token \in Token
    PROVE  LET longer == Append(q, r) IN
           SumFunction([k \in 1..Len(longer) |-> longer[k][token]]) =
              SumFunction([k \in 1..Len(q) |-> q[k][token]]) + r[token]
<1> DEFINE n == Len(q)
           longer == Append(q, r)
           f == [k \in 1..n |-> q[k][token]]
           g == [k \in 1..(n + 1) |-> longer[k][token]]
<1>1. /\ n \in Nat /\ Len(longer) = n + 1 /\ longer[n + 1] = r
      /\ \A k \in 1..n : longer[k] = q[k]
  OBVIOUS
<1>2. \A x \in Request : x[token] \in Int
  BY DEF Request, Token
<1>3. \A k \in 1..n : q[k][token] \in Int
  BY <1>2
<1> HIDE DEF n, longer
<1>4. \A k \in 1..n : f[k] \in Int /\ g[k] = f[k]
  BY <1>1, <1>3
<1>5. g[n + 1] = r[token] /\ r[token] \in Int
  BY <1>1, <1>2
<1>6. DOMAIN f = 1..n /\ DOMAIN g = 1..(n + 1)
  OBVIOUS
<1> HIDE DEF f, g
<1>7. IsFiniteSet(1..n) /\ n + 1 \notin 1..n /\ 1..(n + 1) = (1..n) \cup {n + 1}
  <2>1. IsFiniteSet(1..n)
    BY <1>1, FS_Interval
  <2> QED
    BY <1>1, <2>1
<1>8. SumFunctionOnSet(g, (1..n) \cup {n + 1}) =
         g[n + 1] + SumFunctionOnSet(g, 1..n)
  BY <1>4, <1>5, <1>7, SumWith
<1>9. SumFunctionOnSet(f, 1..n) = SumFunctionOnSet(g, 1..n)
  BY <1>4, <1>7, SumSame
<1>10. SumFunctionOnSet(f, 1..n) \in Int
  BY <1>4, <1>7, SumIsInt
<1>11. SumFunction(g) = SumFunction(f) + r[token]
  <2>1. SumFunction(f) = SumFunctionOnSet(f, 1..n)
    BY <1>6 DEF SumFunction
  <2>2. SumFunction(g) = g[n + 1] + SumFunctionOnSet(f, 1..n)
    BY <1>6, <1>7, <1>8, <1>9 DEF SumFunction
  <2> QED
    BY <1>5, <1>10, <2>1, <2>2
<1> QED
  BY <1>1, <1>11 DEF f, g, n, longer

\* Nothing asked for is nothing.
LEMMA NoRequests ==
    ASSUME NEW token
    PROVE  SumFunction([k \in 1..Len(<<>>) |-> <<>>[k][token]]) = 0
<1>1. 1..Len(<<>>) = {}
  OBVIOUS
<1>2. DOMAIN [k \in 1..Len(<<>>) |-> <<>>[k][token]] = {}
  BY <1>1
<1> QED
  BY <1>2, SumOfNone DEF SumFunction

LEMMA PendingStep ==
    ASSUME VaultTypeOK, BoundInv, AcceptedAscend, PendingIsRequests, [Next]_vars
    PROVE  PendingIsRequests'
<1>1. block \in Nat \ {0} /\ block' \in Nat /\ block' >= block
  BY BlockStep DEF VaultTypeOK
<1>2. WithdrawalNotice \in Nat
  BY VaultAssumption
<1>3. \A i \in Instances : \A k \in 1..Len(requests[i]) :
         requests[i][k].at \in Nat /\ requests[i][k] \in Request
  <2> SUFFICES ASSUME NEW i \in Instances, NEW k \in 1..Len(requests[i])
               PROVE  requests[i][k].at \in Nat /\ requests[i][k] \in Request
    OBVIOUS
  <2>1. requests[i] \in Seq(Request)
    BY DEF VaultTypeOK
  <2>2. requests[i][k] \in Request
    BY <2>1
  <2> QED
    BY <2>2 DEF Request
<1>4. ASSUME NEW i \in Instances, pending'[i] = pending[i],
             requests'[i] = requests[i]
      PROVE  IsRequests(i)'
  <2>1. IsRequests(i)
    BY DEF PendingIsRequests
  <2>2. \A k \in 1..Len(requests[i]) : requests[i][k].at <= block'
    BY <1>1, <1>3, <2>1 DEF IsRequests
  <2> QED
    BY <1>4, <2>1, <2>2 DEF IsRequests
<1>5. CASE UNCHANGED <<pending, requests>>
  BY <1>4, <1>5 DEF PendingIsRequests
<1>6. ASSUME NEW i \in Instances, pending' = [pending EXCEPT ![i] = NothingPending],
             requests' = [requests EXCEPT ![i] = <<>>]
      PROVE  PendingIsRequests'
  <2>1. /\ pending'[i] = NothingPending /\ requests'[i] = <<>>
        /\ \A j \in Instances \ {i} :
              pending'[j] = pending[j] /\ requests'[j] = requests[j]
    BY <1>6 DEF VaultTypeOK
  <2>2. \A token \in Token : NothingPending[token] = 0
    BY DEF NothingPending, Token
  <2>3. \A token \in Token : pending'[i][token] =
           SumFunction([k \in 1..Len(requests'[i]) |-> requests'[i][k][token]])
    BY <2>1, <2>2, NoRequests
  <2>4. \A k \in 1..Len(requests'[i]) : FALSE
    BY <2>1
  <2>5. IsRequests(i)'
    BY <2>1, <2>3, <2>4 DEF IsRequests
  <2> QED
    BY <1>4, <2>1, <2>5 DEF PendingIsRequests
<1>7. ASSUME NEW i \in Instances, NEW caller \in Accounts, NEW w \in Withdrawals,
             RequestWithdrawal(i, caller, w[1], w[2])
      PROVE  PendingIsRequests'
  <2> DEFINE r == [eth |-> w[1], usdc |-> w[2], at |-> block]
             q == requests[i]
  <2>1. /\ r \in Request /\ r.eth = w[1] /\ r.usdc = w[2] /\ r.at = block
        /\ w[1] \in Nat /\ w[2] \in Nat
    BY <1>1, VaultAssumption DEF Request
  <2>2. /\ pending'[i] = [eth |-> pending[i].eth + w[1],
                          usdc |-> pending[i].usdc + w[2],
                          readyAt |-> block + WithdrawalNotice]
        /\ requests'[i] = Append(q, r)
        /\ \A j \in Instances \ {i} :
              pending'[j] = pending[j] /\ requests'[j] = requests[j]
    BY <1>7 DEF RequestWithdrawal, VaultTypeOK
  <2>3. q \in Seq(Request)
    BY DEF VaultTypeOK
  <2> HIDE DEF r
  <2>4. \A token \in Token :
           /\ pending'[i][token] = pending[i][token] + r[token]
           /\ pending[i][token] =
                 SumFunction([k \in 1..Len(q) |-> q[k][token]])
    <3>1. \A token \in Token : pending'[i][token] = pending[i][token] + r[token]
      BY <2>1, <2>2 DEF Token
    <3>2. \A token \in Token : pending[i][token] =
             SumFunction([k \in 1..Len(q) |-> q[k][token]])
      BY Zenon DEF PendingIsRequests, IsRequests
    <3> QED
      BY Zenon, <3>1, <3>2
  <2>5. \A token \in Token : pending'[i][token] =
           SumFunction([k \in 1..Len(requests'[i]) |-> requests'[i][k][token]])
    <3> SUFFICES ASSUME NEW token \in Token
                 PROVE  pending'[i][token] =
                           SumFunction([k \in 1..Len(requests'[i]) |->
                                           requests'[i][k][token]])
      OBVIOUS
    <3>1. SumFunction([k \in 1..Len(Append(q, r)) |-> Append(q, r)[k][token]]) =
             SumFunction([k \in 1..Len(q) |-> q[k][token]]) + r[token]
      BY Zenon, <2>1, <2>3, RequestsAddUp
    <3>2. pending'[i][token] =
             SumFunction([k \in 1..Len(q) |-> q[k][token]]) + r[token]
      BY Zenon, <2>4
    <3> QED
      BY Zenon, <2>2, <3>1, <3>2
  <2>6. \A k \in 1..Len(requests'[i]) :
           /\ requests'[i][k].at <= block'
           /\ requests'[i][k].at + WithdrawalNotice <= pending'[i].readyAt
    <3> SUFFICES ASSUME NEW k \in 1..Len(requests'[i])
                 PROVE  /\ requests'[i][k].at <= block'
                        /\ requests'[i][k].at + WithdrawalNotice
                             <= pending'[i].readyAt
      OBVIOUS
    <3>1. requests'[i][k].at \in Nat /\ requests'[i][k].at <= block
      <4>1. CASE k \in 1..Len(q)
        BY <1>3, <2>1, <2>2, <2>3, <4>1 DEF PendingIsRequests, IsRequests
      <4>2. CASE k = Len(q) + 1
        BY <1>1, <2>1, <2>2, <2>3, <4>2
      <4> QED
        BY <2>1, <2>2, <2>3, <4>1, <4>2
    <3> QED
      BY <1>1, <1>2, <2>2, <3>1
  <2>7. pending'[i].readyAt # 0
    BY <1>1, <1>2, <2>2
  <2> QED
    <3>1. IsRequests(i)'
      BY Zenon, <2>2, <2>5, <2>6, <2>7 DEF IsRequests
    <3> QED
      BY <1>4, <2>2, <3>1 DEF PendingIsRequests
<1>8. ASSUME NEW i \in Instances, NEW caller \in Accounts,
             CancelWithdrawal(i, caller) \/ ExecuteWithdrawal(i, caller)
      PROVE  PendingIsRequests'
  BY <1>6, <1>8 DEF CancelWithdrawal, ExecuteWithdrawal
<1> QED
  BY <1>5, <1>7, <1>8, PendingTouched

-----------------------------------------------------------------------------
(* Conservation.                                                           *)

\* What a set of holders has of a token.
Total(S, f, token) == SumFunction([x \in S |-> f[x][token]])

Balanced(token) ==
    held[token] = Total(Instances, accounts, token)
                  + Total(Accounts, credit, token)

\* Of the holders S, only y's balance differs from f to g.
OnlyMoves(S, f, g, y, token) ==
    /\ IsFiniteSet(S) /\ y \in S
    /\ \A x \in S : f[x][token] \in Int
    /\ \A x \in S : g[x][token] \in Int
    /\ \A x \in S \ {y} : g[x][token] = f[x][token]

\* One holder's balance moves the total by as much.
LEMMA TotalMoves ==
    ASSUME NEW S, NEW f, NEW g, NEW y, NEW token, OnlyMoves(S, f, g, y, token)
    PROVE  /\ Total(S, f, token) \in Int
           /\ Total(S, g, token) =
                 Total(S, f, token) + g[y][token] - f[y][token]
<1> DEFINE F == [x \in S |-> f[x][token]]
           G == [x \in S |-> g[x][token]]
<1>1. /\ \A x \in S : F[x] \in Int /\ G[x] \in Int
      /\ \A x \in S \ {y} : G[x] = F[x]
      /\ F[y] = f[y][token] /\ G[y] = g[y][token]
      /\ DOMAIN F = S /\ DOMAIN G = S /\ IsFiniteSet(S) /\ y \in S
  BY DEF OnlyMoves
<1>2. /\ Total(S, f, token) = SumFunction(F)
      /\ Total(S, g, token) = SumFunction(G)
  BY DEF Total
<1> HIDE DEF F, G
<1>3. SumFunctionOnSet(G, S) = SumFunctionOnSet(F, S) + G[y] - F[y]
  BY <1>1, SumChange
<1>4. SumFunctionOnSet(F, S) \in Int
  BY <1>1, SumIsInt
<1> QED
  BY <1>1, <1>2, <1>3, <1>4 DEF SumFunction

\* Nobody's balance moved.
LEMMA TotalStays ==
    ASSUME NEW S, IsFiniteSet(S), NEW f, NEW g, NEW token,
           \A x \in S : f[x][token] \in Int /\ g[x][token] = f[x][token]
    PROVE  /\ Total(S, f, token) \in Int
           /\ Total(S, g, token) = Total(S, f, token)
<1> DEFINE F == [x \in S |-> f[x][token]]
           G == [x \in S |-> g[x][token]]
<1>1. F = G /\ \A x \in S : F[x] \in Int
  OBVIOUS
<1>2. /\ Total(S, f, token) = SumFunction(F)
      /\ Total(S, g, token) = SumFunction(G) /\ DOMAIN F = S
  BY DEF Total
<1> HIDE DEF F, G
<1>3. SumFunctionOnSet(F, S) \in Int
  BY <1>1, SumIsInt
<1> QED
  BY <1>1, <1>2, <1>3 DEF SumFunction

\* Tanks, credits and what the vault holds are integers, tanks and credits
\* never negative.
LEMMA BalancesTyped ==
    ASSUME NEW token \in Token
    PROVE  /\ \A f \in [Instances -> Account], i \in Instances :
                 f[i][token] \in Nat /\ f[i][token] \in Int
           /\ \A f \in [Accounts -> Balance], a \in Accounts :
                 f[a][token] \in Nat /\ f[a][token] \in Int
           /\ \A h \in [eth : Int, usdc : Int] : h[token] \in Int
           /\ \A l \in Leg : l[token] \in Int
<1>1. \A a \in Account : a[token] \in Nat /\ a[token] \in Int
  BY DEF Account, Token
<1>2. \A a \in Balance : a[token] \in Nat /\ a[token] \in Int
  BY DEF Balance, Token
<1>3. \A l \in Leg : l[token] \in Int
  BY DEF Leg, Token
<1>4. \A h \in [eth : Int, usdc : Int] : h[token] \in Int
  BY DEF Token
<1> QED
  BY <1>1, <1>2, <1>3, <1>4

LEMMA SolventMeans ==
    ASSUME VaultTypeOK
    PROVE  Solvent <=> \A token \in Token : Balanced(token)
<1>1. \A token \in Token : /\ \A i \in Instances : accounts[i][token] >= 0
                           /\ \A a \in Accounts : credit[a][token] >= 0
  <2> SUFFICES ASSUME NEW token \in Token
               PROVE  /\ \A i \in Instances : accounts[i][token] \in Nat
                      /\ \A a \in Accounts : credit[a][token] \in Nat
    OBVIOUS
  <2> QED
    BY BalancesTyped DEF VaultTypeOK
<1> QED
  BY Zenon, <1>1 DEF Solvent, Balanced, Total, Token

\* Money that enters or leaves one tank enters or leaves the vault.
LEMMA TankMoves ==
    ASSUME VaultTypeOK, VaultTypeOK', NEW token \in Token, Balanced(token),
           NEW i \in Instances,
           \A j \in Instances \ {i} : accounts'[j][token] = accounts[j][token],
           UNCHANGED credit,
           held'[token] - held[token] =
              accounts'[i][token] - accounts[i][token]
    PROVE  Balanced(token)'
<1>1. /\ \A j \in Instances : accounts[j][token] \in Int
      /\ \A j \in Instances : accounts'[j][token] \in Int
      /\ \A a \in Accounts : credit[a][token] \in Int
      /\ held[token] \in Int /\ held'[token] \in Int
  BY BalancesTyped DEF VaultTypeOK
<1>2. IsFiniteSet(Instances) /\ IsFiniteSet(Accounts)
  BY VaultAssumption
<1>3. /\ Total(Instances, accounts, token) \in Int
      /\ Total(Instances, accounts', token) =
            Total(Instances, accounts, token)
              + accounts'[i][token] - accounts[i][token]
  <2>1. OnlyMoves(Instances, accounts, accounts', i, token)
    BY <1>1, <1>2 DEF OnlyMoves
  <2> QED
    BY <2>1, TotalMoves
<1>4. /\ Total(Accounts, credit, token) \in Int
      /\ Total(Accounts, credit', token) = Total(Accounts, credit, token)
  BY <1>1, <1>2, TotalStays
<1>5. held[token] = Total(Instances, accounts, token)
                    + Total(Accounts, credit, token)
  BY DEF Balanced
<1>6. held'[token] = Total(Instances, accounts', token)
                     + Total(Accounts, credit', token)
  BY <1>1, <1>3, <1>4, <1>5
<1> QED
  BY <1>6 DEF Balanced, Total

\* Crediting a leg raises the credits by the leg; a leg for nobody is empty.
LEMMA CreditMoves ==
    ASSUME NEW c \in [Accounts -> Balance], NEW to \in Accounts \cup {NoAccount},
           NEW leg \in Leg, to = NoAccount => leg.eth = 0 /\ leg.usdc = 0,
           NEW token \in Token
    PROVE  /\ Total(Accounts, c, token) \in Int
           /\ Total(Accounts, Credited(c, to, leg), token) =
                 Total(Accounts, c, token) + leg[token]
<1> DEFINE d == Credited(c, to, leg)
<1>1. /\ IsFiniteSet(Accounts) /\ d \in [Accounts -> Balance]
      /\ leg[token] \in Int
  BY VaultAssumption, CreditTyped DEF Leg, Token
<1>2. /\ \A x \in Accounts : c[x][token] \in Int
      /\ \A x \in Accounts : d[x][token] \in Int
  BY <1>1, BalancesTyped
<1>3. CASE to = NoAccount
  <2>1. d = c /\ leg[token] = 0
    BY <1>3 DEF Credited, Token
  <2>2. \A x \in Accounts : c[x][token] \in Int /\ d[x][token] = c[x][token]
    BY <1>2, <2>1
  <2>3. /\ Total(Accounts, c, token) \in Int
        /\ Total(Accounts, d, token) = Total(Accounts, c, token)
    BY <1>1, <2>2, TotalStays
  <2> QED
    BY <2>1, <2>3
<1>4. CASE to # NoAccount
  <2>1. to \in Accounts
    BY <1>4
  <2>2. /\ d[to][token] = c[to][token] + leg[token]
        /\ \A x \in Accounts \ {to} : d[x][token] = c[x][token]
    BY <1>4, <2>1 DEF Credited, Balance, Token
  <2> HIDE DEF d
  <2>3. /\ Total(Accounts, c, token) \in Int
        /\ Total(Accounts, d, token) =
              Total(Accounts, c, token) + d[to][token] - c[to][token]
    <3>1. OnlyMoves(Accounts, c, d, to, token)
      BY <1>1, <1>2, <2>1, <2>2 DEF OnlyMoves
    <3> QED
      BY <3>1, TotalMoves
  <2>4. Total(Accounts, d, token) = Total(Accounts, c, token) + leg[token]
    BY <1>1, <1>2, <2>1, <2>2, <2>3
  <2> QED
    BY <2>3, <2>4 DEF d
<1> QED
  BY <1>3, <1>4

\* A bounty moves from a tank to credits, and the vault holds what it held.
LEMMA PaymentBalances ==
    ASSUME VaultTypeOK, VaultTypeOK', NEW token \in Token, Balanced(token),
           NEW i \in Instances, NEW recipient \in Accounts \cup {NoAccount},
           NEW caller \in Accounts, NEW id, NEW statement,
           Pays(i, id, statement, recipient, caller), UNCHANGED held
    PROVE  Balanced(token)'
<1>1. PICK tank \in Account, fee \in Leg, gas \in Leg :
         Moved(i, recipient, caller, tank, fee, gas)
  BY DEF Pays
<1> DEFINE middle == Credited(credit, recipient, fee)
<1>2. /\ \A j \in Instances : accounts[j][token] \in Int
      /\ \A j \in Instances : accounts'[j][token] \in Int
      /\ held[token] \in Int /\ credit \in [Accounts -> Balance]
      /\ fee[token] \in Int /\ gas[token] \in Int
  BY BalancesTyped DEF VaultTypeOK
<1>3. /\ accounts'[i][token] = accounts[i][token] - (fee[token] + gas[token])
      /\ \A j \in Instances \ {i} : accounts'[j][token] = accounts[j][token]
  BY <1>1 DEF Moved, VaultTypeOK, Token
<1>4. IsFiniteSet(Instances) /\ caller # NoAccount
  BY VaultAssumption
<1>5. /\ Total(Instances, accounts, token) \in Int
      /\ Total(Instances, accounts', token) =
            Total(Instances, accounts, token)
              + accounts'[i][token] - accounts[i][token]
  <2>1. OnlyMoves(Instances, accounts, accounts', i, token)
    BY <1>2, <1>3, <1>4 DEF OnlyMoves
  <2> QED
    BY <2>1, TotalMoves
<1>6. /\ Total(Accounts, credit, token) \in Int
      /\ Total(Accounts, middle, token) =
            Total(Accounts, credit, token) + fee[token]
  BY <1>1, <1>2, CreditMoves DEF Moved
<1>7. middle \in [Accounts -> Balance]
  BY <1>2, CreditTyped
<1> HIDE DEF middle
<1>8. Total(Accounts, credit', token) =
         Total(Accounts, middle, token) + gas[token]
  <2>1. Total(Accounts, Credited(middle, caller, gas), token) =
           Total(Accounts, middle, token) + gas[token]
    BY <1>4, <1>7, CreditMoves
  <2> QED
    BY <1>1, <2>1 DEF Moved, middle
<1>9. held[token] = Total(Instances, accounts, token)
                    + Total(Accounts, credit, token)
  BY DEF Balanced
<1>10. held'[token] = Total(Instances, accounts', token)
                      + Total(Accounts, credit', token)
  BY <1>2, <1>3, <1>5, <1>6, <1>8, <1>9
<1> QED
  BY <1>10 DEF Balanced, Total

\* Collecting a credit takes it out of the vault.
LEMMA CollectionBalances ==
    ASSUME VaultTypeOK, VaultTypeOK', NEW token \in Token, Balanced(token),
           NEW a \in Accounts, NEW paid \in Token, WithdrawCredit(a, paid)
    PROVE  Balanced(token)'
<1>1. /\ credit' = [credit EXCEPT ![a][paid] = 0]
      /\ held' = [held EXCEPT ![paid] = @ - credit[a][paid]]
      /\ accounts' = accounts
  BY DEF WithdrawCredit
<1>2. /\ \A j \in Instances : accounts[j][token] \in Int
      /\ \A x \in Accounts : credit[x][token] \in Int
      /\ \A x \in Accounts : credit'[x][token] \in Int
      /\ held[token] \in Int /\ held'[token] \in Int
  BY BalancesTyped DEF VaultTypeOK
<1>3. /\ \A x \in Accounts \ {a} : credit'[x][token] = credit[x][token]
      /\ credit'[a][token] =
            IF paid = token THEN 0 ELSE credit[a][token]
      /\ held'[token] = IF paid = token THEN held[token] - credit[a][token]
                        ELSE held[token]
  BY <1>1 DEF VaultTypeOK, Balance, Token
<1>4. IsFiniteSet(Instances) /\ IsFiniteSet(Accounts)
  BY VaultAssumption
<1>5. /\ Total(Accounts, credit, token) \in Int
      /\ Total(Accounts, credit', token) =
            Total(Accounts, credit, token)
              + credit'[a][token] - credit[a][token]
  <2>1. OnlyMoves(Accounts, credit, credit', a, token)
    BY <1>2, <1>3, <1>4 DEF OnlyMoves
  <2> QED
    BY <2>1, TotalMoves
<1>6. /\ Total(Instances, accounts, token) \in Int
      /\ Total(Instances, accounts', token) = Total(Instances, accounts, token)
  BY <1>1, <1>2, <1>4, TotalStays
<1>7. held[token] = Total(Instances, accounts, token)
                    + Total(Accounts, credit, token)
  BY DEF Balanced
<1>8. held'[token] = Total(Instances, accounts', token)
                     + Total(Accounts, credit', token)
  BY <1>2, <1>3, <1>5, <1>6, <1>7
<1> QED
  BY <1>8 DEF Balanced, Total

\* A deposit raises one tank and the vault alike.
LEMMA DepositRaises ==
    ASSUME VaultTypeOK, BoundInv, NEW token \in Token, NEW i \in Instances,
           NEW amount \in Nat, DepositETH(i, amount) \/ DepositUSDC(i, amount)
    PROVE  /\ held'[token] - held[token] =
                 accounts'[i][token] - accounts[i][token]
           /\ accounts'[i][token] >= accounts[i][token]
           /\ \A j \in Instances \ {i} : accounts'[j][token] = accounts[j][token]
           /\ UNCHANGED credit
<1>1. /\ Bound(i) \in Account
      /\ Bound(i).eth = accounts[i].eth /\ Bound(i).usdc = accounts[i].usdc
  BY BoundTyped DEF DepositETH, DepositUSDC
<1>2. /\ accounts \in [Instances -> Account] /\ held \in [eth : Int, usdc : Int]
      /\ UNCHANGED credit
      /\ accounts[i].eth \in Nat /\ accounts[i].usdc \in Nat
      /\ held.eth \in Int /\ held.usdc \in Int
  BY DEF VaultTypeOK, Account, DepositETH, DepositUSDC
<1>3. \A j \in Instances \ {i} : accounts'[j][token] = accounts[j][token]
  BY <1>2 DEF DepositETH, DepositUSDC
<1>4. CASE DepositETH(i, amount)
  <2>1. /\ accounts'[i] = [Bound(i) EXCEPT !.eth = @ + amount]
        /\ held' = [held EXCEPT !.eth = @ + amount]
    BY <1>2, <1>4 DEF DepositETH
  <2>2. /\ accounts'[i].eth = accounts[i].eth + amount
        /\ accounts'[i].usdc = accounts[i].usdc
        /\ held'.eth = held.eth + amount /\ held'.usdc = held.usdc
    BY <1>1, <1>2, <2>1 DEF Account
  <2>3. /\ held'[token] - held[token] = accounts'[i][token] - accounts[i][token]
        /\ accounts'[i][token] >= accounts[i][token]
    BY <1>2, <2>2 DEF Token
  <2> QED
    BY <1>2, <1>3, <2>3
<1>5. CASE DepositUSDC(i, amount)
  <2>1. /\ accounts'[i] = [Bound(i) EXCEPT !.usdc = @ + amount]
        /\ held' = [held EXCEPT !.usdc = @ + amount]
    BY <1>2, <1>5 DEF DepositUSDC
  <2>2. /\ accounts'[i].usdc = accounts[i].usdc + amount
        /\ accounts'[i].eth = accounts[i].eth
        /\ held'.usdc = held.usdc + amount /\ held'.eth = held.eth
    BY <1>1, <1>2, <2>1 DEF Account
  <2>3. /\ held'[token] - held[token] = accounts'[i][token] - accounts[i][token]
        /\ accounts'[i][token] >= accounts[i][token]
    BY <1>2, <2>2 DEF Token
  <2> QED
    BY <1>2, <1>3, <2>3
<1> QED
  BY <1>4, <1>5

\* What an executed withdrawal takes: no more than asked for, from one tank.
LEMMA WithdrawalTakes ==
    ASSUME VaultTypeOK, NEW i \in Instances, NEW caller \in Accounts,
           ExecuteWithdrawal(i, caller), NEW token \in Token
    PROVE  LET taken == Lesser(pending[i][token], accounts[i][token]) IN
           /\ taken \in Nat /\ taken <= pending[i][token]
           /\ accounts[i][token] \in Nat /\ pending[i][token] \in Nat
           /\ held[token] \in Int
           /\ accounts'[i][token] = accounts[i][token] - taken
           /\ held'[token] = held[token] - taken
           /\ \A j \in Instances \ {i} : accounts'[j][token] = accounts[j][token]
<1>1. /\ accounts \in [Instances -> Account]
      /\ pending[i] \in [eth : Nat, usdc : Nat, readyAt : Nat]
      /\ held \in [eth : Int, usdc : Int]
  BY DEF VaultTypeOK
<1>2. /\ accounts[i][token] \in Nat /\ pending[i][token] \in Nat
      /\ held[token] \in Int
  BY <1>1 DEF Account, Token
<1>3. /\ Lesser(pending[i][token], accounts[i][token]) \in Nat
      /\ Lesser(pending[i][token], accounts[i][token]) <= pending[i][token]
  BY <1>2 DEF Lesser
<1>4. /\ accounts' =
            [accounts EXCEPT
               ![i].eth = @ - Lesser(pending[i].eth, accounts[i].eth),
               ![i].usdc = @ - Lesser(pending[i].usdc, accounts[i].usdc)]
      /\ held' = [eth |-> held.eth - Lesser(pending[i].eth, accounts[i].eth),
                  usdc |-> held.usdc
                             - Lesser(pending[i].usdc, accounts[i].usdc)]
  BY DEF ExecuteWithdrawal
<1>5. /\ accounts'[i][token] =
            accounts[i][token] - Lesser(pending[i][token], accounts[i][token])
      /\ held'[token] =
            held[token] - Lesser(pending[i][token], accounts[i][token])
      /\ \A j \in Instances \ {i} : accounts'[j][token] = accounts[j][token]
  <2> DEFINE eth == Lesser(pending[i].eth, accounts[i].eth)
             usdc == Lesser(pending[i].usdc, accounts[i].usdc)
             a == [accounts[i] EXCEPT !.eth = @ - eth, !.usdc = @ - usdc]
  <2> HIDE DEF eth, usdc
  <2>1. accounts' = [accounts EXCEPT ![i].eth = @ - eth, ![i].usdc = @ - usdc]
        /\ held' = [eth |-> held.eth - eth, usdc |-> held.usdc - usdc]
    BY <1>4 DEF eth, usdc
  <2>2. accounts' = [accounts EXCEPT ![i] = a]
    BY <1>1, <2>1 DEF Account
  <2>3. /\ accounts'[i].eth = accounts[i].eth - eth
        /\ accounts'[i].usdc = accounts[i].usdc - usdc
        /\ \A j \in Instances \ {i} : accounts'[j] = accounts[j]
    BY <1>1, <2>2 DEF Account
  <2>4. held'.eth = held.eth - eth /\ held'.usdc = held.usdc - usdc
    BY <2>1
  <2>5. CASE token = "eth"
    BY <2>3, <2>4, <2>5 DEF eth
  <2>6. CASE token = "usdc"
    BY <2>3, <2>4, <2>6 DEF usdc
  <2> QED
    BY <2>5, <2>6 DEF Token
<1> QED
  BY <1>2, <1>3, <1>5

\* A migration moves no money.
LEMMA MigrateMovesNothing ==
    ASSUME VaultTypeOK, NEW i \in Instances, NEW caller, Migrate(i, caller),
           NEW token \in Token
    PROVE  \A j \in Instances : accounts'[j][token] = accounts[j][token]
<1>1. accounts \in [Instances -> Account] /\ accounts[i] \in Account
  BY DEF VaultTypeOK
<1>2. accounts' = [accounts EXCEPT ![i] =
                     [accounts[i] EXCEPT !.snapshot = registry[i].snapshot,
                                         !.program = registry[i].program]]
  BY <1>1 DEF Migrate, Account
<1>3. /\ accounts'[i] = [accounts[i] EXCEPT !.snapshot = registry[i].snapshot,
                                            !.program = registry[i].program]
      /\ \A j \in Instances \ {i} : accounts'[j] = accounts[j]
  BY <1>1, <1>2
<1>4. accounts'[i][token] = accounts[i][token]
  BY <1>1, <1>3 DEF Account, Token
<1> QED
  BY <1>3, <1>4

LEMMA CommunityBalances ==
    ASSUME VaultTypeOK, VaultTypeOK', NEW token \in Token, Balanced(token),
           Community
    PROVE  Balanced(token)'
<1>1. PICK i \in Instances, caller \in Accounts :
         \/ Migrate(i, caller)
         \/ \E interval \in Intervals, cap \in Caps :
               SetPolicy(i, caller, interval, cap)
         \/ \E w \in Withdrawals : RequestWithdrawal(i, caller, w[1], w[2])
         \/ CancelWithdrawal(i, caller)
         \/ ExecuteWithdrawal(i, caller)
  BY DEF Community
<1>2. CASE UNCHANGED <<accounts, credit, held>>
  BY <1>2 DEF Balanced, Total
<1>3. CASE Migrate(i, caller)
  <2>1. UNCHANGED <<credit, held>>
    BY <1>3 DEF Migrate
  <2>2. \A j \in Instances : accounts'[j][token] = accounts[j][token]
    BY <1>3, MigrateMovesNothing
  <2>3. accounts[i][token] \in Int /\ held[token] \in Int
    BY BalancesTyped DEF VaultTypeOK
  <2>4. held'[token] - held[token] = accounts'[i][token] - accounts[i][token]
    <3>1. held' = held /\ accounts'[i][token] = accounts[i][token]
      BY <2>1, <2>2
    <3> QED
      BY <2>3, <3>1
  <2> QED
    BY <2>1, <2>2, <2>4, TankMoves
<1>4. CASE ExecuteWithdrawal(i, caller)
  <2> DEFINE taken == Lesser(pending[i][token], accounts[i][token])
  <2>1. /\ taken \in Nat /\ accounts[i][token] \in Nat /\ held[token] \in Int
        /\ accounts'[i][token] = accounts[i][token] - taken
        /\ held'[token] = held[token] - taken
        /\ \A j \in Instances \ {i} : accounts'[j][token] = accounts[j][token]
    BY <1>4, WithdrawalTakes
  <2> HIDE DEF taken
  <2>2. held'[token] - held[token] = accounts'[i][token] - accounts[i][token]
    BY <2>1
  <2>3. UNCHANGED credit
    BY <1>4 DEF ExecuteWithdrawal
  <2> QED
    BY <2>1, <2>2, <2>3, TankMoves
<1> QED
  BY <1>1, <1>2, <1>3, <1>4 DEF SetPolicy, RequestWithdrawal, CancelWithdrawal,
                                settlementVars

LEMMA SolventStep ==
    ASSUME VaultTypeOK, VaultTypeOK', BoundInv, AcceptedAscend, Solvent,
           [Next]_vars
    PROVE  Solvent'
<1> SUFFICES ASSUME NEW token \in Token PROVE Balanced(token)'
  <2>1. \A token \in Token :
           /\ \A i \in Instances : accounts'[i][token] \in Nat
           /\ \A a \in Accounts : credit'[a][token] \in Nat
    BY BalancesTyped DEF VaultTypeOK
  <2>2. \A token \in Token : /\ \A i \in Instances : accounts'[i][token] >= 0
                             /\ \A a \in Accounts : credit'[a][token] >= 0
    BY <2>1
  <2> QED
    BY Zenon, <2>2 DEF Solvent, Balanced, Total, Token
<1>1. Balanced(token)
  BY SolventMeans
<1>2. CASE UNCHANGED <<accounts, credit, held>>
  BY <1>1, <1>2 DEF Balanced, Total
<1>3. CASE Tick \/ Environment
  BY <1>2, <1>3 DEF Tick, Environment, settlementVars
<1>4. ASSUME NEW i \in Instances, NEW amount \in Deposits,
             DepositETH(i, amount) \/ DepositUSDC(i, amount)
      PROVE  Balanced(token)'
  <2>1. amount \in Nat
    BY VaultAssumption
  <2> QED
    BY <1>1, <1>4, <2>1, DepositRaises, TankMoves
<1>5. ASSUME NEW p, NEW b, NEW usd, SetFeePerRootUsd(p, b, usd)
      PROVE  Balanced(token)'
  BY <1>2, <1>5 DEF SetFeePerRootUsd, settlementVars
<1>6. ASSUME NEW limits, SetGasParams(limits) PROVE Balanced(token)'
  BY <1>2, <1>6 DEF SetGasParams, settlementVars
<1>7. CASE Claiming
  <2>1. PICK i \in Instances, id \in Nat : Settles(i, id)
    BY <1>7, ClaimingSettles
  <2>2. PICK s \in Snapshots, e \in Landed, caller \in Accounts :
           /\ UNCHANGED held
           /\ \/ UNCHANGED settlementVars
              \/ Pays(i, id, Statement(s, e), e.recipient, caller)
    BY <2>1 DEF Settles
  <2>3. CASE UNCHANGED settlementVars
    BY <1>2, <2>2, <2>3 DEF settlementVars
  <2>4. CASE Pays(i, id, Statement(s, e), e.recipient, caller)
    <3>1. e.recipient \in Accounts \cup {NoAccount}
      BY DEF Landed
    <3> QED
      BY <1>1, <2>2, <2>4, <3>1, PaymentBalances
  <2> QED
    BY <2>2, <2>3, <2>4
<1>8. CASE Community
  BY <1>1, <1>8, CommunityBalances
<1>9. ASSUME NEW a \in Accounts, NEW paid \in Token, WithdrawCredit(a, paid)
      PROVE  Balanced(token)'
  BY <1>1, <1>9, CollectionBalances
<1>10. CASE UNCHANGED vars
  BY <1>2, <1>10 DEF vars, settlementVars
<1> QED
  BY <1>3, <1>4, <1>5, <1>6, <1>7, <1>8, <1>9, <1>10 DEF Next, Token

-----------------------------------------------------------------------------
(* The invariant, and what follows from it.                                *)

LEMMA InitVaultInv ==
    ASSUME Init
    PROVE  VaultInv
<1>1. 0 \in Nat /\ 1 \in Nat \ {0}
  OBVIOUS
<1>2. VaultTypeOK
  <2>1. /\ NoRecord \in [snapshot : Snapshots \cup {NoSnapshot},
                         program : Programs \cup {NoSnapshot}]
        /\ NothingPending \in [eth : Nat, usdc : Nat, readyAt : Nat]
    BY DEF NoRecord, NothingPending
  <2>2. /\ issued \in [Snapshots -> Seq(Frozen)]
        /\ accepted \in [Snapshots -> Seq(Landed)]
        /\ requests \in [Instances -> Seq(Request)]
        /\ claims \in Seq(ClaimRecord)
    BY DEF Init
  <2>3. /\ accounts \in [Instances -> Account]
        /\ policies \in [Instances -> Policy]
        /\ credit \in [Accounts -> Balance]
        /\ held \in [eth : Int, usdc : Int]
    BY DEF Init, Account, Policy, Balance
  <2>4. /\ feePerRootUsd \in [Programs -> [1..3 -> Nat]]
        /\ gasParams \in Nat \X Nat
    BY VaultAssumption DEF Init
  <2> QED
    BY <2>1, <2>2, <2>3, <2>4 DEF VaultTypeOK, Init
<1>3. BoundInv /\ AcceptedAscend
  BY DEF Init, BoundInv, AcceptedAscend
<1>4. Claims = {} /\ claims = <<>> /\ Len(claims) = 0
  BY DEF Init, Claims
<1>5. /\ SlotsAreClaims /\ StatementPaidOnce /\ FeeFollowsCommittedPayee
      /\ CadenceRespected
  BY <1>4 DEF Init, SlotsAreClaims, StatementPaidOnce,
              FeeFollowsCommittedPayee, CadenceRespected
<1>6. LastPaidCovers
  BY <1>4 DEF Init, LastPaidCovers
<1>7. PendingIsRequests
  <2> SUFFICES ASSUME NEW i \in Instances PROVE IsRequests(i)
    BY DEF PendingIsRequests
  <2>1. requests[i] = <<>> /\ pending[i] = NothingPending
    BY DEF Init
  <2>2. \A token \in Token : pending[i][token] = 0
    BY <2>1 DEF NothingPending, Token
  <2>3. \A token \in Token : pending[i][token] =
           SumFunction([k \in 1..Len(requests[i]) |-> requests[i][k][token]])
    BY <2>1, <2>2, NoRequests
  <2>4. \A k \in 1..Len(requests[i]) : FALSE
    BY <2>1
  <2> QED
    BY <2>1, <2>3, <2>4 DEF IsRequests
<1>8. Solvent
  <2> SUFFICES ASSUME NEW token \in Token PROVE Balanced(token)
    BY <1>2, SolventMeans
  <2> DEFINE tanks == [i \in Instances |-> accounts[i][token]]
             credits == [a \in Accounts |-> credit[a][token]]
  <2>1. /\ \A i \in Instances : tanks[i] = 0
        /\ \A a \in Accounts : credits[a] = 0
        /\ DOMAIN tanks = Instances /\ DOMAIN credits = Accounts
        /\ held[token] = 0
    BY DEF Init, Token
  <2>2. /\ Total(Instances, accounts, token) = SumFunction(tanks)
        /\ Total(Accounts, credit, token) = SumFunction(credits)
    BY DEF Total
  <2> HIDE DEF tanks, credits
  <2>3. /\ SumFunctionOnSet(tanks, Instances) = 0
        /\ SumFunctionOnSet(credits, Accounts) = 0
    BY <2>1, VaultAssumption, SumOfZeros
  <2> QED
    BY <2>1, <2>2, <2>3 DEF Balanced, SumFunction
<1> QED
  BY <1>2, <1>3, <1>5, <1>6, <1>7, <1>8 DEF VaultInv

LEMMA VaultInvStep ==
    ASSUME VaultInv, [Next]_vars
    PROVE  VaultInv'
<1>1. /\ VaultTypeOK /\ BoundInv /\ AcceptedAscend /\ Ledger
      /\ PendingIsRequests /\ Solvent
  BY DEF VaultInv, Ledger
<1>2. VaultTypeOK' /\ BoundInv' /\ SnapshotsGrow
  BY <1>1, StepTyped
<1>3. AcceptedAscend'
  BY <1>1, <1>2, AscendStep
<1>4. Ledger'
  BY <1>1, LedgerStep
<1>5. PendingIsRequests'
  BY <1>1, PendingStep
<1>6. Solvent'
  BY <1>1, <1>2, SolventStep
<1> QED
  BY <1>2, <1>3, <1>4, <1>5, <1>6 DEF VaultInv, Ledger

\* The vault's state is well typed and its ledger, its clock, its pending
\* withdrawals and its money agree, whatever transactions come in what order.
THEOREM VaultInvariant == Spec => []VaultInv
<1>1. Init => VaultInv
  BY InitVaultInv
<1>2. VaultInv /\ [Next]_vars => VaultInv'
  BY VaultInvStep
<1> QED
  BY <1>1, <1>2, PTL DEF Spec

\* The vault holds exactly what it owes (deposits, _settle, the withdrawals).
THEOREM VaultIsSolvent == Spec => []Solvent
<1>1. VaultInv => Solvent
  BY DEF VaultInv
<1> QED
  BY <1>1, VaultInvariant, PTL

\* A statement, like a checkpoint slot, is paid at most once per instance
\* (_consumeSlot, _paidStatement).
THEOREM StatementsPaidOnce == Spec => []StatementPaidOnce
<1>1. VaultInv => StatementPaidOnce
  BY DEF VaultInv
<1> QED
  BY <1>1, VaultInvariant, PTL

\* The fee goes to the payee the accepted proof committed, whoever calls
\* (claim, submitAndClaim).
THEOREM FeesFollowThePayee == Spec => []FeeFollowsCommittedPayee
<1>1. VaultInv => FeeFollowsCommittedPayee
  BY DEF VaultInv
<1> QED
  BY <1>1, VaultInvariant, PTL

\* Two paid roots of an instance are the interval apart (_settle).
THEOREM CadenceIsRespected == Spec => []CadenceRespected
<1>1. VaultInv => CadenceRespected
  BY DEF VaultInv
<1> QED
  BY <1>1, VaultInvariant, PTL

-----------------------------------------------------------------------------
(* A copied proof leaves the bounty payable.                               *)

\* The slot of an accepted checkpoint is consumed only with its statement.
LEMMA SlotMeansStatement ==
    ASSUME VaultInv, NEW i \in Instances, NEW s \in Snapshots,
           NEW k \in 1..Len(accepted[s]),
           <<i, s, accepted[s][k].checkpointId>> \in claimed
    PROVE  <<i, Statement(s, accepted[s][k])>> \in paidStatement
<1> DEFINE id == accepted[s][k].checkpointId
<1>1. PICK c \in Claims : <<i, s, id>> = <<c.instance, c.snapshot, c.id>>
  BY DEF VaultInv, SlotsAreClaims
<1>2. c.instance = i /\ c.snapshot = s /\ c.id = id
  BY <1>1
<1>3. PICK e \in AcceptedWithId(s, id) : c.statement = Statement(s, e)
  BY <1>2 DEF VaultInv, FeeFollowsCommittedPayee
<1>4. PICK l \in 1..Len(accepted[s]) :
         accepted[s][l] = e /\ accepted[s][l].checkpointId = id
  BY DEF AcceptedWithId
<1>5. l = k
  <2>1. accepted[s][l].checkpointId \in Nat /\ id \in Nat
    <3>1. accepted[s] \in Seq(Landed)
      BY DEF VaultInv, VaultTypeOK
    <3>2. accepted[s][l] \in Landed /\ accepted[s][k] \in Landed
      BY <3>1
    <3> QED
      BY <3>2 DEF Landed
  <2>2. /\ \A m \in 1..(k - 1) : accepted[s][m].checkpointId < id
        /\ \A m \in 1..(l - 1) :
              accepted[s][m].checkpointId < accepted[s][l].checkpointId
    BY DEF VaultInv, AcceptedAscend
  <2>3. ~(l < k)
    BY <1>4, <2>1, <2>2
  <2>4. ~(k < l)
    BY <1>4, <2>1, <2>2
  <2> QED
    BY <2>3, <2>4
<1>6. <<c.instance, c.statement>> \in paidStatement
  BY DEF VaultInv, SlotsAreClaims
<1> QED
  BY <1>2, <1>3, <1>4, <1>5, <1>6

\* What a settlement that is not refused pays.
LEMMA SettlementPays ==
    ASSUME VaultTypeOK, BoundInv, NEW i \in Instances, NEW id \in Nat,
           accounts[i].snapshot # NoSnapshot, NEW statement,
           NEW recipient, NEW caller, NEW gasUsed \in Nat, NEW basefee \in Nat,
           NEW feed \in Feeds,
           Ineligible(i, Terms(i, id), statement, EthUsd(feed)) = "None"
    PROVE  LET t == Terms(i, id)
               price == EthUsd(feed)
               p == Settlement(i, t, statement, recipient, caller, gasUsed,
                               basefee, feed)
               fee == FeeDue(t)
               gas == GasDue(t, gasUsed, basefee, price)
           IN  /\ price \in Nat \ {0} /\ price <= MaxEthUsd
               /\ fee \in Nat /\ gas \in Nat /\ accounts[i] \in Account
               /\ p.reason \in {"None", "InsufficientBalance"}
               /\ p.price = price
               /\ p.legs = Legs(accounts[i], recipient, caller, fee, gas, price)
<1> DEFINE t == Terms(i, id)
           price == EthUsd(feed)
           fee == FeeDue(t)
           gas == GasDue(t, gasUsed, basefee, price)
           p == Settlement(i, t, statement, recipient, caller, gasUsed, basefee,
                           feed)
           legs == Legs(accounts[i], recipient, caller, fee, gas, price)
<1>1. /\ accounts[i] \in Account /\ t.program \in Programs
      /\ t.cap \in Nat /\ t.band \in 0..3
  BY TermsTyped
<1> HIDE DEF t
<1>2. t.band # 0 /\ price # 0
  BY DEF Ineligible, t
<1>3. price \in Nat \ {0} /\ price <= MaxEthUsd
  BY <1>2, PriceUsable
<1> HIDE DEF price
<1>4. fee \in 0..t.cap /\ gas \in 0..(t.cap - fee)
  <2>1. t.band \in 1..3 /\ price \in Nat
    BY <1>1, <1>2, <1>3
  <2> QED
    BY <1>1, <2>1, DueTyped
<1> HIDE DEF fee, gas
<1>5. fee \in Nat /\ gas \in Nat
  BY <1>1, <1>4
<1>6. p = [reason |-> IF legs.fee.eth + legs.fee.usdc + legs.gas.eth
                         + legs.gas.usdc = 0
                      THEN "InsufficientBalance" ELSE "None",
           offered |-> Lesser(fee + gas, PayableUsd(accounts[i], price)),
           feeDue |-> fee, legs |-> legs, price |-> price]
  BY DEF Settlement, fee, gas, price, t
<1> HIDE DEF p, legs
<1>7. /\ p.reason \in {"None", "InsufficientBalance"}
      /\ p.price = price /\ p.legs = legs
  BY <1>6
<1> QED
  BY <1>1, <1>3, <1>5, <1>7 DEF p, legs, fee, gas, price, t

LEMMA CopiedProofs ==
    ASSUME VaultInv
    PROVE  CopiedProofStillPays
<1> SUFFICES ASSUME NEW i \in Instances, accounts[i].snapshot # NoSnapshot,
                    NEW k \in 1..Len(accepted[accounts[i].snapshot]),
                    NEW feed \in Feeds,
                    accepted[accounts[i].snapshot][k].recipient # NoAccount,
                    <<i, Statement(accounts[i].snapshot,
                                   accepted[accounts[i].snapshot][k])>>
                        \notin paidStatement
             PROVE  LET s == accounts[i].snapshot
                        e == accepted[s][k]
                        t == Terms(i, e.checkpointId)
                        p == Settlement(i, t, Statement(s, e), e.recipient,
                                        NoAccount, 0, 0, feed)
                    IN  /\ <<i, s, e.checkpointId>> \notin claimed
                        /\ p.reason = "None" =>
                              p.legs.fee.paidUsd + UsdPerUsdc
                                > Lesser(FeeDue(t),
                                         PayableUsd(accounts[i], p.price))
  BY DEF CopiedProofStillPays
<1> DEFINE s == accounts[i].snapshot
           e == accepted[s][k]
           id == e.checkpointId
           t == Terms(i, id)
           statement == Statement(s, e)
           p == Settlement(i, t, statement, e.recipient, NoAccount, 0, 0, feed)
           price == EthUsd(feed)
           fee == FeeDue(t)
           gas == GasDue(t, 0, 0, price)
<1>1. s \in Snapshots /\ VaultTypeOK /\ BoundInv
  BY DEF VaultInv, VaultTypeOK, Account
<1>2. e \in Landed
  <2>1. accepted[s] \in Seq(Landed)
    BY <1>1 DEF VaultTypeOK
  <2> QED
    BY <2>1
<1>3. <<i, s, id>> \notin claimed
  BY <1>1, SlotMeansStatement
<1>4. ASSUME p.reason = "None"
      PROVE  p.legs.fee.paidUsd + UsdPerUsdc
               > Lesser(fee, PayableUsd(accounts[i], p.price))
  <2>1. Ineligible(i, t, statement, price) = "None"
    BY <1>4 DEF Settlement
  <2>2. id \in Nat /\ 0 \in Nat
    BY <1>2 DEF Landed
  <2> DEFINE payee == e.recipient
  <2> HIDE DEF statement, id, payee
  <2>3. /\ price \in Nat \ {0} /\ price <= MaxEthUsd
        /\ fee \in Nat /\ accounts[i] \in Account /\ p.price = price
        /\ p.legs = Legs(accounts[i], e.recipient, NoAccount, fee, gas, price)
    <3>1. p = Settlement(i, t, statement, payee, NoAccount, 0, 0, feed)
      BY DEF payee
    <3>2. e.recipient = payee
      BY DEF payee
    <3> HIDE DEF p, e
    <3> QED
      BY <1>1, <2>1, <2>2, <3>1, <3>2, SettlementPays
  <2> HIDE DEF p, price, fee, gas, e
  <2>4. p.legs.fee = Pay(accounts[i], e.recipient, fee, price)
    BY <2>3 DEF Legs
  <2>5. e.recipient # NoAccount
    BY DEF e
  <2> QED
    BY <2>3, <2>4, <2>5, PayRounds
<1> QED
  BY <1>3, <1>4

\* A proof lifted out of the mempool and landed directly leaves its bounty open
\* and payable to its payee (claim, _settle, _pay).
THEOREM CopiedProofsStillPay == Spec => []CopiedProofStillPays
BY VaultInvariant, CopiedProofs, PTL

-----------------------------------------------------------------------------
(* A quote is what a settlement pays.                                      *)

\* Two payments out of a tank that covers both are short of them by less than
\* two USDC units.
LEMMA LegsRound ==
    ASSUME NEW a \in Account, NEW x, x # NoAccount, NEW fee \in Nat,
           NEW gas \in Nat, NEW price \in Nat \ {0}, price <= MaxEthUsd,
           PayableUsd(a, price) >= fee + gas
    PROVE  LET l == Legs(a, x, x, fee, gas, price)
           IN  l.fee.paidUsd + l.gas.paidUsd + 2 * UsdPerUsdc > fee + gas
<1> DEFINE f == Pay(a, x, fee, price)
           g == Pay(f.account, x, gas, price)
           before == PayableUsd(a, price)
           after == PayableUsd(f.account, price)
<1>1. f.account \in Account /\ f \in Leg
  BY PayTakesFromTank
<1>2. g \in Leg
  BY <1>1, PayTakesFromTank
<1>3. /\ f.paidUsd <= fee
      /\ f.paidUsd + UsdPerUsdc > Lesser(fee, before)
      /\ after + f.paidUsd + 1 >= before
  BY PayRounds
<1>4. g.paidUsd + UsdPerUsdc > Lesser(gas, after)
  BY <1>1, PayRounds
<1>5. /\ Legs(a, x, x, fee, gas, price).fee = f
      /\ Legs(a, x, x, fee, gas, price).gas = g
  BY DEF Legs
<1>6. \A b \in Account : PayableUsd(b, price) \in Nat
  <2> SUFFICES ASSUME NEW b \in Account PROVE PayableUsd(b, price) \in Nat
    OBVIOUS
  <2>1. b.eth * price \in Nat /\ b.usdc \in Nat
    BY DEF Account
  <2>2. (b.eth * price) \div EthScale \in Nat /\ b.usdc * UsdPerUsdc \in Nat
    BY <2>1, VaultAssumption, Quotient
  <2> QED
    BY <2>2 DEF PayableUsd
<1>7. /\ before \in Nat /\ after \in Nat /\ UsdPerUsdc \in Nat \ {0}
      /\ f.paidUsd \in Nat /\ g.paidUsd \in Nat /\ before >= fee + gas
  BY <1>1, <1>2, <1>6, VaultAssumption DEF Leg
<1> HIDE DEF f, g, before, after
<1>8. f.paidUsd + UsdPerUsdc > fee
  BY <1>3, <1>7 DEF Lesser
<1>9. after + 1 >= gas
  BY <1>3, <1>7
<1>10. g.paidUsd + UsdPerUsdc >= gas
  BY <1>4, <1>7, <1>9 DEF Lesser
<1>11. f.paidUsd + g.paidUsd + 2 * UsdPerUsdc > fee + gas
  BY <1>7, <1>8, <1>10
<1> QED
  BY <1>5, <1>11

LEMMA Quotes ==
    ASSUME VaultInv
    PROVE  QuotesAreHonoured
<1>1. \A s \in Snapshots : NotYetLanded(s) \subseteq Nat
  BY DEF VaultInv, VaultTypeOK, NotYetLanded
<1>2. SUFFICES ASSUME NEW i \in Instances, accounts[i].snapshot # NoSnapshot,
                      NEW id \in Nat, NEW program \in Provable,
                      NEW basefee \in BaseFees, NEW feed \in Feeds,
                      <<i, Statement(accounts[i].snapshot,
                             [checkpointId |-> id,
                              root |-> Output(program,
                                   issued[accounts[i].snapshot][id + 1])])>>
                          \notin paidStatement
               PROVE  QuotedIsPaid(i, accounts[i].snapshot, id, program, basefee,
                                   feed)
  <2>1. \A i \in Instances : accounts[i].snapshot # NoSnapshot =>
                                accounts[i].snapshot \in Snapshots
    BY DEF VaultInv, VaultTypeOK, Account
  <2> QED
    BY Zenon, <1>1, <1>2, <2>1 DEF QuotesAreHonoured
<1> DEFINE s == accounts[i].snapshot
           t == Terms(i, id)
           price == EthUsd(feed)
           fee == FeeDue(t)
           gas == GasDue(t, gasParams[2], basefee, price)
           q == Quote(i, id, basefee, feed)
           statement == Statement(s, [checkpointId |-> id,
                           root |-> Output(program, issued[s][id + 1])])
           a == CHOOSE x \in Accounts : TRUE
           p == Settlement(i, t, statement, a, a, gasParams[2], basefee, feed)
<1>3. SUFFICES ASSUME q.eligible
               PROVE  /\ p.reason \in {"None", "InsufficientBalance"}
                      /\ p.legs.fee.paidUsd + p.legs.gas.paidUsd + 2 * UsdPerUsdc
                           > q.feeUsd + q.gasUsd
  BY Zenon DEF QuotedIsPaid
<1>4. /\ t.cap # 0 /\ CadenceElapsed(t) /\ t.band # 0 /\ price # 0
      /\ q.feeUsd = fee /\ q.gasUsd = gas
      /\ PayableUsd(accounts[i], price) >= fee + gas
  BY <1>3 DEF Quote
<1>5. Ineligible(i, t, statement, price) = "None"
  BY <1>2, <1>4 DEF Ineligible
<1>6. a # NoAccount
  BY VaultAssumption
<1>7. gasParams[2] \in Nat /\ basefee \in Nat /\ VaultTypeOK /\ BoundInv
  BY VaultAssumption DEF VaultInv, VaultTypeOK
<1> HIDE DEF statement, a
<1>8. /\ price \in Nat \ {0} /\ price <= MaxEthUsd
      /\ fee \in Nat /\ gas \in Nat /\ accounts[i] \in Account
      /\ p.reason \in {"None", "InsufficientBalance"}
      /\ p.legs = Legs(accounts[i], a, a, fee, gas, price)
  BY <1>2, <1>5, <1>7, SettlementPays
<1> HIDE DEF p, q, fee, gas, price
<1>9. p.legs.fee.paidUsd + p.legs.gas.paidUsd + 2 * UsdPerUsdc > fee + gas
  BY <1>4, <1>6, <1>8, LegsRound
<1> QED
  BY <1>4, <1>8, <1>9

\* An eligible quote is what submitAndClaim() pays at the same block and price,
\* up to the rounding of the two payments (quote, _settle, _pay).
THEOREM QuotesHonoured == Spec => []QuotesAreHonoured
BY VaultInvariant, Quotes, PTL

-----------------------------------------------------------------------------
(* Withdrawals gave notice.                                                *)

\* Without a claim, only an executed withdrawal lowers a tank.
LEMMA TankFalls ==
    ASSUME VaultInv, [Next]_vars, NEW i \in Instances, NEW token \in Token,
           claims' = claims, accounts'[i][token] < accounts[i][token]
    PROVE  \E caller \in Accounts : ExecuteWithdrawal(i, caller)
<1>0. /\ VaultTypeOK /\ BoundInv /\ AcceptedAscend
      /\ accounts[i][token] \in Nat
  BY BalancesTyped DEF VaultInv, VaultTypeOK
<1>1. accounts'[i][token] # accounts[i][token]
  BY <1>0
<1>2. accounts' # accounts
  BY <1>1
<1>3. ~(Tick \/ Environment)
  BY <1>2 DEF Tick, Environment, settlementVars
<1>4. ~\E j \in Instances, amount \in Deposits :
         DepositETH(j, amount) \/ DepositUSDC(j, amount)
  <2> SUFFICES ASSUME NEW j \in Instances, NEW amount \in Deposits,
                      DepositETH(j, amount) \/ DepositUSDC(j, amount)
               PROVE  FALSE
    OBVIOUS
  <2>1. amount \in Nat
    BY VaultAssumption
  <2>2. /\ accounts'[j][token] >= accounts[j][token]
        /\ \A l \in Instances \ {j} : accounts'[l][token] = accounts[l][token]
    BY <1>0, <2>1, DepositRaises
  <2>3. CASE i = j
    <3>1. accounts'[i][token] \in Int
      BY <1>0, <2>1, <2>3, BalancesTyped, DepositTyped DEF VaultTypeOK
    <3> QED
      BY <1>0, <2>2, <2>3, <3>1
  <2>4. CASE i # j
    BY <1>1, <2>2, <2>4
  <2> QED
    BY <2>3, <2>4
<1>5. ~(\/ \E p \in Programs, fee \in Fees : SetFeePerRootUsd(p, fee[1], fee[2])
        \/ \E limits \in GasLimits : SetGasParams(limits)
        \/ \E a \in Accounts, paid \in {"eth", "usdc"} : WithdrawCredit(a, paid))
  BY <1>2 DEF SetFeePerRootUsd, SetGasParams, WithdrawCredit, settlementVars
<1>6. ~Claiming
  <2> SUFFICES ASSUME Claiming PROVE FALSE
    OBVIOUS
  <2>1. PICK j \in Instances, id \in Nat : Settles(j, id)
    BY <1>0, ClaimingSettles
  <2>2. PICK s \in Snapshots, e \in Landed, caller \in Accounts :
           \/ UNCHANGED settlementVars
           \/ Pays(j, id, Statement(s, e), e.recipient, caller)
    BY <2>1 DEF Settles
  <2>3. PICK c \in ClaimRecord : claims' = Append(claims, c)
    BY <1>2, <2>2 DEF Pays, Recorded, settlementVars
  <2>4. claims \in Seq(ClaimRecord)
    BY <1>0 DEF VaultTypeOK
  <2>5. Len(claims') = Len(claims) + 1 /\ Len(claims) \in Nat
    BY <2>3, <2>4
  <2> QED
    BY <2>5
<1>7. Community
  BY <1>2, <1>3, <1>4, <1>5, <1>6 DEF Next, vars, settlementVars
<1>8. PICK j \in Instances, caller \in Accounts :
         \/ Migrate(j, caller)
         \/ \E interval \in Intervals, cap \in Caps :
               SetPolicy(j, caller, interval, cap)
         \/ \E w \in Withdrawals : RequestWithdrawal(j, caller, w[1], w[2])
         \/ CancelWithdrawal(j, caller)
         \/ ExecuteWithdrawal(j, caller)
  BY <1>7 DEF Community
<1>9. ~Migrate(j, caller)
  BY <1>0, <1>1, MigrateMovesNothing
<1>10. ExecuteWithdrawal(j, caller)
  BY <1>2, <1>8, <1>9 DEF SetPolicy, RequestWithdrawal, CancelWithdrawal,
                          settlementVars
<1>11. i = j
  BY <1>0, <1>1, <1>10, WithdrawalTakes
<1> QED
  BY <1>10, <1>11

LEMMA NoticeGiven ==
    ASSUME VaultInv, [Next]_vars, NEW i \in Instances, NEW token \in Token,
           claims' = claims, accounts'[i][token] < accounts[i][token]
    PROVE  /\ \A k \in 1..Len(requests[i]) :
                 block >= requests[i][k].at + WithdrawalNotice
           /\ accounts[i][token] - accounts'[i][token] <=
                 SumFunction([k \in 1..Len(requests[i]) |->
                                 requests[i][k][token]])
<1>1. PICK caller \in Accounts : ExecuteWithdrawal(i, caller)
  BY TankFalls
<1>2. /\ VaultTypeOK /\ IsRequests(i)
  BY DEF VaultInv, PendingIsRequests
<1> DEFINE taken == Lesser(pending[i][token], accounts[i][token])
<1>3. /\ taken \in Nat /\ taken <= pending[i][token]
      /\ accounts[i][token] \in Nat
      /\ accounts'[i][token] = accounts[i][token] - taken
  BY <1>1, <1>2, WithdrawalTakes
<1> HIDE DEF taken
<1>4. accounts[i][token] - accounts'[i][token] <= pending[i][token]
  BY <1>3
<1>5. pending[i][token] =
         SumFunction([k \in 1..Len(requests[i]) |-> requests[i][k][token]])
  BY Zenon, <1>2 DEF IsRequests
<1>6. ASSUME NEW k \in 1..Len(requests[i])
      PROVE  block >= requests[i][k].at + WithdrawalNotice
  <2>1. block >= pending[i].readyAt /\ block \in Nat
        /\ pending[i].readyAt \in Nat
    BY <1>1, <1>2 DEF ExecuteWithdrawal, VaultTypeOK
  <2>2. requests[i][k] \in Request
    <3>1. requests[i] \in Seq(Request)
      BY <1>2 DEF VaultTypeOK
    <3> QED
      BY <3>1
  <2>3. requests[i][k].at + WithdrawalNotice <= pending[i].readyAt
    BY <1>2 DEF IsRequests
  <2> QED
    BY <2>1, <2>2, <2>3, VaultAssumption DEF Request
<1> QED
  BY <1>4, <1>5, <1>6

\* No money leaves a tank, other than to a prover, before every request behind
\* it is a full notice old (requestWithdrawal, executeWithdrawal).
THEOREM NoticeIsGiven == Spec => WithdrawalsGaveNotice
<1>1. VaultInv /\ [Next]_vars =>
         [\A i \in Instances, token \in {"eth", "usdc"} :
            (claims' = claims /\ accounts'[i][token] < accounts[i][token]) =>
                /\ \A k \in 1..Len(requests[i]) :
                      block >= requests[i][k].at + WithdrawalNotice
                /\ accounts[i][token] - accounts'[i][token] <=
                      SumFunction([k \in 1..Len(requests[i]) |->
                                      requests[i][k][token]])]_vars
  BY Zenon, NoticeGiven DEF Token
<1> QED
  BY <1>1, VaultInvariant, PTL DEF Spec, WithdrawalsGaveNotice
=============================================================================
