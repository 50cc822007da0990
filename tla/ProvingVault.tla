---------------------------- MODULE ProvingVault ----------------------------
(***************************************************************************)
(* contracts/src/vault/ProvingVault.sol: a tank per instance that pays     *)
(* whoever lands a root, over the snapshots it is bound to and the         *)
(* InstanceRegistry that names them.                                       *)
(*                                                                         *)
(* A snapshot is what ProvenHistory says of it, with provenance on or off: *)
(* lists of frozen checkpoints and of accepted proofs.  Anyone freezes,    *)
(* lands a proof directly, lands it through submitAndClaim(), or calls     *)
(* claim() for a root somebody else landed.  Every action is one           *)
(* transaction; the guards of ReentrancyGuard make it atomic.              *)
(*                                                                         *)
(* Money is in small integers with the contract's rounding: EthScale wei   *)
(* make one ether, UsdPerUsdc USD units one USDC unit.  The price feed,    *)
(* the gas used and the base fee are whatever the caller meets.            *)
(***************************************************************************)
EXTENDS Integers, Sequences, FiniteSets, Functions

CONSTANTS
    Instances, Snapshots, NoSnapshot,
    WithProvenance,     \* the snapshots with provenance enabled
    Frozen,             \* what a checkpoint may freeze
    Inputs,             \* Inputs[f]: the two logs and the parameters of f; what
                        \* f froze besides is the verifier in force
    Size,               \* Size[f]: leaves plus lane-2 work of f
    Provable,           \* the guests a proof may be of
    SizedPrograms,      \* labels priced by size
    FlatPrograms,       \* labels always in the top band
    UnknownPrograms,    \* labels the vault does not price
    BandLimits,         \* the largest size of bands 1, 2 and 3
    Accounts, NoAccount,
    Constitutional,     \* Constitutional[s]: holders of the role on s
    Deposits,           \* amounts a deposit may name
    Withdrawals,        \* <<ether, USDC>> a request may name
    Fees,               \* <<band, USD per root>> the fee setter may choose
    Caps, Intervals, MinPayouts,
    GasLimits,          \* <<maxGasUnitsPerClaim, nominalGasUnits>> settings
    GasUsed, BaseFees,  \* what a forwarded submitProof() costs
    Feeds,              \* readings: [answer, age]; a negative age is a future
                        \* or missing updatedAt
    MinEthUsd, MaxEthUsd, FeedMaxStaleness,
    EthScale, UsdPerUsdc,
    WithdrawalNotice,
    MaxBlock,           \* bound: last block
    MaxHeld,            \* bound: each token the vault may hold
    MaxCheckpoints,     \* bound: checkpoints of each snapshot
    MaxRequests         \* bound: requests behind one pending withdrawal

Programs == SizedPrograms \cup FlatPrograms \cup UnknownPrograms

ASSUME VaultAssumption ==
    /\ IsFiniteSet(Instances) /\ IsFiniteSet(Accounts) /\ Accounts # {}
    /\ WithProvenance \subseteq Snapshots /\ NoSnapshot \notin Snapshots
    /\ NoAccount \notin Accounts
    /\ Size \in [Frozen -> Nat]
    /\ DOMAIN Inputs = Frozen
    /\ Constitutional \in [Snapshots -> SUBSET Accounts]
    /\ Deposits \subseteq Nat \ {0} /\ Withdrawals \subseteq Nat \X Nat
    /\ Fees \subseteq (0..3) \X Nat
    /\ Caps \subseteq Nat /\ Intervals \subseteq Nat
    /\ MinPayouts \subseteq Nat
    /\ GasLimits \subseteq Nat \X Nat /\ GasUsed \subseteq Nat
    /\ BaseFees \subseteq Nat
    /\ Feeds \subseteq [answer : Int, age : Int]
    /\ MinEthUsd \in Nat /\ MaxEthUsd \in Nat
    /\ 0 < MinEthUsd /\ MinEthUsd < MaxEthUsd
    /\ EthScale \in Nat \ {0} /\ UsdPerUsdc \in Nat \ {0}
    /\ WithdrawalNotice \in Nat

\* One wei is worth less than one USDC unit at every price the vault takes: a
\* deployment's MAX_ETH_USD is 100,000e8 (script/DeployProvingVault.s.sol:88),
\* a wei is 10^-18 ether and a USDC unit 100 USD units.  The constructor does
\* not require it, so what rounds is stated with it.
ASSUME PriceAssumption == MaxEthUsd <= EthScale * (UsdPerUsdc - 1)

VARIABLES
    block,              \* block.number, also block.timestamp; never 0
    issued, accepted,   \* per snapshot, as in ProvenHistory
    registry,           \* InstanceRegistry: the record of each instance
    accounts,           \* _accounts
    policies,           \* _policies
    pending,            \* _pending
    claimed,            \* _claimed, as a set of <<instance, snapshot, id>>
    paidStatement,      \* _paidStatement, as a set of <<instance, statement>>
    credit,             \* _credit
    feePerRootUsd,
    gasParams,          \* <<maxGasUnitsPerClaim, nominalGasUnits>>
    held,               \* what the vault itself holds of each token
    claims,             \* the Claimed events
    requests            \* the requests behind each pending withdrawal

snapshotVars == <<issued, accepted>>
settlementVars == <<accounts, policies, claimed, paidStatement, credit, claims>>
vars == <<block, snapshotVars, registry, settlementVars, pending,
          feePerRootUsd, gasParams, held, requests>>

NoRecord == [snapshot |-> NoSnapshot, program |-> NoSnapshot]
NothingPending == [eth |-> 0, usdc |-> 0, readyAt |-> 0]

Init ==
    /\ block = 1
    /\ issued = [s \in Snapshots |-> <<>>]
    /\ accepted = [s \in Snapshots |-> <<>>]
    /\ registry = [i \in Instances |-> NoRecord]
    /\ accounts = [i \in Instances |-> [snapshot |-> NoSnapshot,
                      program |-> NoSnapshot, eth |-> 0, usdc |-> 0]]
    /\ policies = [i \in Instances |->
                      [interval |-> 0, cap |-> 0, lastPaidBlock |-> 0]]
    /\ pending = [i \in Instances |-> NothingPending]
    /\ claimed = {} /\ paidStatement = {}
    /\ credit = [a \in Accounts |-> [eth |-> 0, usdc |-> 0]]
    /\ feePerRootUsd = [p \in Programs |-> [b \in 1..3 |-> 0]]
    /\ gasParams \in GasLimits
    /\ held = [eth |-> 0, usdc |-> 0]
    /\ claims = <<>>
    /\ requests = [i \in Instances |-> <<>>]

-----------------------------------------------------------------------------
(* The chain, the snapshots and the registry.                              *)

Tick ==
    /\ block < MaxBlock
    /\ block' = block + 1
    /\ UNCHANGED <<snapshotVars, registry, settlementVars, pending,
                   feePerRootUsd, gasParams, held, requests>>

\* What a program returns on a frozen checkpoint.
Output(program, f) == <<program, Inputs[f]>>

\* trigger() on a snapshot: never the same twice in a row, and logs only grow.
Freeze(s, f) ==
    /\ Len(issued[s]) < MaxCheckpoints[s]
    /\ issued[s] # <<>> => LET last == issued[s][Len(issued[s])]
                           IN  last # f /\ Size[last] <= Size[f]
    /\ issued' = [issued EXCEPT ![s] = Append(@, f)]
    /\ UNCHANGED accepted

\* submitProof() on a snapshot.
Apply(s, id, program, recipient) ==
    /\ id < Len(issued[s])
    /\ accepted[s] # <<>> => id > accepted[s][Len(accepted[s])].checkpointId
    /\ accepted' = [accepted EXCEPT ![s] = Append(@,
          [checkpointId |-> id, root |-> Output(program, issued[s][id + 1]),
           recipient |-> recipient])]
    /\ UNCHANGED issued

\* The accepted checkpoints of s with this id: one, or none.
AcceptedWithId(s, id) ==
    {accepted[s][k] : k \in {l \in 1..Len(accepted[s]) :
                                accepted[s][l].checkpointId = id}}

Register(i, record) ==
    /\ registry[i] = NoRecord
    /\ registry' = [registry EXCEPT ![i] = record]

Update(i, record) ==
    /\ registry[i] # NoRecord
    /\ registry' = [registry EXCEPT ![i] = record]

Environment ==
    \/ \E s \in Snapshots :
          /\ \/ \E f \in Frozen : Freeze(s, f)
             \/ \E id \in 0..(Len(issued[s]) - 1), program \in Provable,
                   recipient \in Accounts \cup {NoAccount} :
                   Apply(s, id, program, recipient)
          /\ UNCHANGED <<block, registry, settlementVars, pending,
                         feePerRootUsd, gasParams, held, requests>>
    \/ \E i \in Instances, s \in Snapshots, p \in Programs :
          /\ \/ Register(i, [snapshot |-> s, program |-> p])
             \/ Update(i, [snapshot |-> s, program |-> p])
          /\ UNCHANGED <<block, snapshotVars, settlementVars, pending,
                         feePerRootUsd, gasParams, held, requests>>

-----------------------------------------------------------------------------
(* Funding.                                                                *)

\* The account after _bind: the registry is resolved once, at the first
\* deposit, and only to a snapshot that keeps provenance.
Bound(i) ==
    IF accounts[i].snapshot # NoSnapshot THEN accounts[i]
    ELSE [accounts[i] EXCEPT !.snapshot = registry[i].snapshot,
                             !.program = registry[i].program]

CanBind(i) == \/ accounts[i].snapshot # NoSnapshot
              \/ registry[i].snapshot \in WithProvenance

DepositETH(i, amount) ==
    /\ CanBind(i)
    /\ held.eth + amount <= MaxHeld
    /\ accounts' = [accounts EXCEPT ![i] = [Bound(i) EXCEPT !.eth = @ + amount]]
    /\ held' = [held EXCEPT !.eth = @ + amount]
    /\ UNCHANGED <<block, snapshotVars, registry, policies, claimed,
                   paidStatement, credit, claims, pending, feePerRootUsd,
                   gasParams, requests>>

\* A token that charges a fee delivers less than was asked; what arrived is
\* what is credited.
DepositUSDC(i, received) ==
    /\ CanBind(i)
    /\ held.usdc + received <= MaxHeld
    /\ accounts' =
          [accounts EXCEPT ![i] = [Bound(i) EXCEPT !.usdc = @ + received]]
    /\ held' = [held EXCEPT !.usdc = @ + received]
    /\ UNCHANGED <<block, snapshotVars, registry, policies, claimed,
                   paidStatement, credit, claims, pending, feePerRootUsd,
                   gasParams, requests>>

\* The modifier of every community control.
OnlyConstitutional(i, caller) ==
    /\ accounts[i].snapshot # NoSnapshot
    /\ caller \in Constitutional[accounts[i].snapshot]

Migrate(i, caller) ==
    /\ OnlyConstitutional(i, caller)
    /\ registry[i].snapshot \in WithProvenance
    /\ \/ registry[i].snapshot # accounts[i].snapshot
       \/ registry[i].program # accounts[i].program
    /\ accounts' = [accounts EXCEPT ![i].snapshot = registry[i].snapshot,
                                    ![i].program = registry[i].program]
    /\ UNCHANGED <<block, snapshotVars, registry, policies, claimed,
                   paidStatement, credit, claims, pending, feePerRootUsd,
                   gasParams, held, requests>>

-----------------------------------------------------------------------------
(* Pricing.                                                                *)

\* _min
Lesser(x, y) == IF x < y THEN x ELSE y

\* The band of a program at a size; 0 is "not priced".
BandOf(program, n) ==
    CASE program \in SizedPrograms ->
            IF n <= BandLimits[1] THEN 1
            ELSE IF n <= BandLimits[2] THEN 2
            ELSE IF n <= BandLimits[3] THEN 3 ELSE 0
      [] program \in FlatPrograms -> 3
      [] OTHER -> 0

\* The usable price, or 0: positive, within the band, not from the future and
\* not stale.
EthUsd(feed) ==
    IF /\ feed.answer >= MinEthUsd /\ feed.answer <= MaxEthUsd
       /\ feed.age >= 0 /\ feed.age <= FeedMaxStaleness
    THEN feed.answer ELSE 0

\* The part of the gas an EIP-3529 refund cannot return.
RefundSafeGasUnits(grossUnits) == (grossUnits * 4) \div 5

GasUsd(units, basefee, price) == (units * basefee * price) \div EthScale

\* USD value of a tank; without a price only its USDC counts.
PayableUsd(a, price) ==
    a.usdc * UsdPerUsdc + (a.eth * price) \div EthScale

\* Faulty variant: what is wanted is credited, whatever the tank holds.
PayUncapped(a, to, usd, price) ==
    LET payWei == IF to = NoAccount \/ a.eth = 0 THEN 0
                  ELSE (usd * EthScale) \div price
    IN  [account |-> [a EXCEPT !.eth = IF payWei > @ THEN 0 ELSE @ - payWei],
         paidUsd |-> (payWei * price) \div EthScale, eth |-> payWei,
         usdc |-> 0]

\* _pay: ether first, then USDC, each rounded down and capped by the tank.
Pay(a, to, usd, price) ==
    LET payWei == IF to = NoAccount THEN 0
                  ELSE Lesser((usd * EthScale) \div price, a.eth)
        covered == (payWei * price) \div EthScale
        left == IF usd > covered THEN usd - covered ELSE 0
        payUsdc == IF to = NoAccount THEN 0
                   ELSE Lesser(left \div UsdPerUsdc, a.usdc)
    IN  [account |-> [a EXCEPT !.eth = @ - payWei, !.usdc = @ - payUsdc],
         paidUsd |-> covered + payUsdc * UsdPerUsdc,
         eth |-> payWei, usdc |-> payUsdc]

SetFeePerRootUsd(p, b, usd) ==
    /\ b # 0
    /\ feePerRootUsd' = [feePerRootUsd EXCEPT ![p][b] = usd]
    /\ UNCHANGED <<block, snapshotVars, registry, settlementVars, pending,
                   gasParams, held, requests>>

SetGasParams(limits) ==
    /\ gasParams' = limits
    /\ UNCHANGED <<block, snapshotVars, registry, settlementVars, pending,
                   feePerRootUsd, held, requests>>

-----------------------------------------------------------------------------
(* Settlement.                                                             *)

\* The terms of a claim, read before the proof is forwarded.  band is 0 when
\* the checkpoint's size cannot be read.
Terms(i, id) ==
    LET a == accounts[i] IN
    [snapshot |-> a.snapshot, program |-> a.program,
     cap |-> policies[i].cap, interval |-> policies[i].interval,
     lastPaidBlock |-> policies[i].lastPaidBlock,
     band |-> IF id < Len(issued[a.snapshot])
              THEN BandOf(a.program, Size[issued[a.snapshot][id + 1]])
              ELSE 0]

\* What was proven: the snapshot, the frozen logs and parameters, the program
\* that accepted it and its output.  Neither the checkpoint id, nor the payee,
\* nor the verifier in force when the checkpoint froze is part of it.
Statement(s, e) == <<s, Inputs[issued[s][e.checkpointId + 1]], e.root>>

CadenceElapsed(t) ==
    t.lastPaidBlock # 0 => block >= t.lastPaidBlock + t.interval

\* Why a settlement pays nothing, before any money is looked at.
Ineligible(i, t, statement, price) ==
    IF t.cap = 0 THEN "PolicyDisabled"
    ELSE IF ~CadenceElapsed(t) THEN "CadenceNotElapsed"
    ELSE IF t.band = 0 THEN "UnknownProgram"
    ELSE IF <<i, statement>> \in paidStatement THEN "AlreadyClaimed"
    ELSE IF price = 0 THEN "PriceFeedUnavailable"
    ELSE "None"

FeeDue(t) == Lesser(feePerRootUsd[t.program][t.band], t.cap)

\* The gas leg, within what the fee leaves of the cap.
GasDue(t, gasUsed, basefee, price) ==
    Lesser(GasUsd(RefundSafeGasUnits(Lesser(gasUsed, gasParams[1])),
                  basefee, price), t.cap - FeeDue(t))

\* The two payments out of a tank, the fee first.
Legs(a, recipient, caller, fee, gas, price) ==
    LET f == Pay(a, recipient, fee, price)
        g == Pay(f.account, caller, gas, price)
    IN  [fee |-> f, gas |-> g, account |-> g.account]

\* What a settlement does: its reason, what it offers and what it pays.
Settlement(i, t, statement, recipient, caller, gasUsed, basefee, feed) ==
    LET price == EthUsd(feed)
        why == Ineligible(i, t, statement, price)
    IN  IF why # "None" THEN [reason |-> why, offered |-> 0]
        ELSE LET fee == FeeDue(t)
                 gas == GasDue(t, gasUsed, basefee, price)
                 legs == Legs(accounts[i], recipient, caller, fee, gas, price)
                 spent == legs.fee.eth + legs.fee.usdc
                          + legs.gas.eth + legs.gas.usdc
             IN  [reason |-> IF spent = 0 THEN "InsufficientBalance"
                             ELSE "None",
                  offered |-> Lesser(fee + gas, PayableUsd(accounts[i], price)),
                  feeDue |-> fee, legs |-> legs, price |-> price]

Credited(c, to, leg) ==
    IF to = NoAccount THEN c
    ELSE [c EXCEPT ![to].eth = @ + leg.eth, ![to].usdc = @ + leg.usdc]

\* Faulty variant: the bounty slot is consumed whether or not it paid.
ConsumeSlotAlways(i, t, id, statement, paid) ==
    /\ claimed' = claimed \cup {<<i, t.snapshot, id>>}
    /\ paidStatement' = IF paid THEN paidStatement \cup {<<i, statement>>}
                        ELSE paidStatement
    /\ policies' = IF paid THEN [policies EXCEPT ![i].lastPaidBlock = block]
                   ELSE policies

\* Faulty variant: the paid block is not recorded.
ConsumeSlotUndated(i, t, id, statement, paid) ==
    /\ IF paid
       THEN /\ claimed' = claimed \cup {<<i, t.snapshot, id>>}
            /\ paidStatement' = paidStatement \cup {<<i, statement>>}
       ELSE UNCHANGED <<claimed, paidStatement>>
    /\ UNCHANGED policies

\* Faulty variant: only the checkpoint id is remembered as paid.
ConsumeSlotById(i, t, id, statement, paid) ==
    IF paid
    THEN /\ claimed' = claimed \cup {<<i, t.snapshot, id>>}
         /\ policies' = [policies EXCEPT ![i].lastPaidBlock = block]
         /\ UNCHANGED paidStatement
    ELSE UNCHANGED <<claimed, paidStatement, policies>>

\* The one-shot slot, the statement and the cadence, only when money moved.
ConsumeSlot(i, t, id, statement, paid) ==
    IF paid
    THEN /\ claimed' = claimed \cup {<<i, t.snapshot, id>>}
         /\ paidStatement' = paidStatement \cup {<<i, statement>>}
         /\ policies' = [policies EXCEPT ![i].lastPaidBlock = block]
    ELSE UNCHANGED <<claimed, paidStatement, policies>>

\* _settle: a caller that asked for a minimum gets a revert, never a skip.
Settle(i, t, id, statement, recipient, caller, gasUsed, basefee, feed, min) ==
    LET s == Settlement(i, t, statement, recipient, caller, gasUsed, basefee,
                        feed)
        paid == s.reason = "None"
    IN  /\ s.offered >= min
        /\ ~paid => min = 0
        /\ ConsumeSlot(i, t, id, statement, paid)
        /\ IF paid
           THEN /\ accounts' = [accounts EXCEPT ![i] = s.legs.account]
                /\ credit' = Credited(Credited(credit, recipient, s.legs.fee),
                                      caller, s.legs.gas)
                /\ claims' = Append(claims,
                      [instance |-> i, snapshot |-> t.snapshot, id |-> id,
                       statement |-> statement, recipient |-> recipient,
                       feeDue |-> s.feeDue, feeUsd |-> s.legs.fee.paidUsd,
                       gasUsd |-> s.legs.gas.paidUsd, price |-> s.price,
                       eth |-> s.legs.fee.eth + s.legs.gas.eth,
                       usdc |-> s.legs.fee.usdc + s.legs.gas.usdc,
                       cap |-> t.cap, interval |-> t.interval, min |-> min,
                       block |-> block])
           ELSE UNCHANGED <<accounts, credit, claims>>

\* Land a root through the vault.  The statement is of the record the forwarded
\* submitProof() just accepted.
SubmitAndClaim(i, id, program, recipient, caller, gasUsed, basefee, feed, min) ==
    LET s == accounts[i].snapshot IN
    /\ s # NoSnapshot
    /\ <<i, s, id>> \notin claimed
    /\ Apply(s, id, program, recipient)
    /\ Settle(i, Terms(i, id), id,
              Statement(s, [checkpointId |-> id,
                            root |-> Output(program, issued[s][id + 1])]),
              recipient, caller, gasUsed, basefee, feed, min)
    /\ UNCHANGED <<block, registry, pending, feePerRootUsd, gasParams, held,
                   requests>>

\* Faulty variant: claim() pays whoever calls it.
ClaimForCaller(i, id, caller, feed) ==
    LET s == accounts[i].snapshot IN
    /\ s # NoSnapshot
    /\ <<i, s, id>> \notin claimed
    /\ \E e \in AcceptedWithId(s, id) :
          Settle(i, Terms(i, id), id, Statement(s, e), caller, caller,
                 0, 0, feed, 0)
    /\ UNCHANGED <<block, snapshotVars, registry, pending, feePerRootUsd,
                   gasParams, held, requests>>

\* Pay for a root that already landed, to the payee its proof committed.
Claim(i, id, caller, feed) ==
    LET s == accounts[i].snapshot IN
    /\ s # NoSnapshot
    /\ <<i, s, id>> \notin claimed
    /\ \E e \in AcceptedWithId(s, id) :
          /\ e.recipient # NoAccount
          /\ Settle(i, Terms(i, id), id, Statement(s, e), e.recipient, caller,
                    0, 0, feed, 0)
    /\ UNCHANGED <<block, snapshotVars, registry, pending, feePerRootUsd,
                   gasParams, held, requests>>

-----------------------------------------------------------------------------
(* Community controls and pull payments.                                   *)

SetPolicy(i, caller, interval, cap) ==
    /\ OnlyConstitutional(i, caller)
    /\ policies' = [policies EXCEPT ![i].interval = interval, ![i].cap = cap]
    /\ UNCHANGED <<block, snapshotVars, registry, accounts, claimed,
                   paidStatement, credit, claims, pending, feePerRootUsd,
                   gasParams, held, requests>>

\* Faulty variant: only the first request starts the clock.
RequestKeepingClock(i, caller, eth, usdc) ==
    /\ OnlyConstitutional(i, caller)
    /\ Len(requests[i]) < MaxRequests
    /\ eth + usdc > 0
    /\ eth <= accounts[i].eth /\ usdc <= accounts[i].usdc
    /\ pending' = [pending EXCEPT ![i] =
          [eth |-> @.eth + eth, usdc |-> @.usdc + usdc,
           readyAt |-> IF @.readyAt = 0 THEN block + WithdrawalNotice
                       ELSE @.readyAt]]
    /\ requests' = [requests EXCEPT ![i] =
                      Append(@, [eth |-> eth, usdc |-> usdc, at |-> block])]
    /\ UNCHANGED <<block, snapshotVars, registry, settlementVars,
                   feePerRootUsd, gasParams, held>>

\* The balance stays spendable; every request restarts the notice.
RequestWithdrawal(i, caller, eth, usdc) ==
    /\ OnlyConstitutional(i, caller)
    /\ Len(requests[i]) < MaxRequests
    /\ eth + usdc > 0
    /\ eth <= accounts[i].eth /\ usdc <= accounts[i].usdc
    /\ pending' = [pending EXCEPT ![i] =
          [eth |-> @.eth + eth, usdc |-> @.usdc + usdc,
           readyAt |-> block + WithdrawalNotice]]
    /\ requests' = [requests EXCEPT ![i] =
                      Append(@, [eth |-> eth, usdc |-> usdc, at |-> block])]
    /\ UNCHANGED <<block, snapshotVars, registry, settlementVars,
                   feePerRootUsd, gasParams, held>>

CancelWithdrawal(i, caller) ==
    /\ OnlyConstitutional(i, caller)
    /\ pending[i].readyAt # 0
    /\ pending' = [pending EXCEPT ![i] = NothingPending]
    /\ requests' = [requests EXCEPT ![i] = <<>>]
    /\ UNCHANGED <<block, snapshotVars, registry, settlementVars,
                   feePerRootUsd, gasParams, held>>

\* Takes what is left of the amounts asked for.
ExecuteWithdrawal(i, caller) ==
    LET eth == Lesser(pending[i].eth, accounts[i].eth)
        usdc == Lesser(pending[i].usdc, accounts[i].usdc)
    IN  /\ OnlyConstitutional(i, caller)
        /\ pending[i].readyAt # 0
        /\ block >= pending[i].readyAt
        /\ accounts' = [accounts EXCEPT ![i].eth = @ - eth, ![i].usdc = @ - usdc]
        /\ held' = [eth |-> held.eth - eth, usdc |-> held.usdc - usdc]
        /\ pending' = [pending EXCEPT ![i] = NothingPending]
        /\ requests' = [requests EXCEPT ![i] = <<>>]
        /\ UNCHANGED <<block, snapshotVars, registry, policies, claimed,
                       paidStatement, credit, claims, feePerRootUsd, gasParams>>

WithdrawCredit(a, token) ==
    /\ credit[a][token] # 0
    /\ credit' = [credit EXCEPT ![a][token] = 0]
    /\ held' = [held EXCEPT ![token] = @ - credit[a][token]]
    /\ UNCHANGED <<block, snapshotVars, registry, accounts, policies, claimed,
                   paidStatement, claims, pending, feePerRootUsd, gasParams,
                   requests>>

\* Faulty variant: the quote trusts the feed's last answer, however old.
QuoteAtLastAnswer(i, id, basefee, feed) ==
    LET t == Terms(i, id)
        fee == FeeDue(t)
    IN  IF \/ accounts[i].snapshot = NoSnapshot
           \/ <<i, accounts[i].snapshot, id>> \in claimed
           \/ t.cap = 0 \/ ~CadenceElapsed(t) \/ t.band = 0
        THEN [feeUsd |-> 0, gasUsd |-> 0, eligible |-> FALSE]
        ELSE [feeUsd |-> fee, gasUsd |-> 0,
              eligible |-> fee # 0 /\ PayableUsd(accounts[i], feed.answer) >= fee]

\* quote(): what a nominal submission of the checkpoint would pay now.
Quote(i, id, basefee, feed) ==
    LET a == accounts[i]
        t == Terms(i, id)
        price == EthUsd(feed)
    IN  IF \/ a.snapshot = NoSnapshot
           \/ <<i, a.snapshot, id>> \in claimed
           \/ t.cap = 0 \/ ~CadenceElapsed(t) \/ t.band = 0 \/ price = 0
        THEN [feeUsd |-> 0, gasUsd |-> 0, eligible |-> FALSE]
        ELSE LET fee == FeeDue(t)
                 gas == GasDue(t, gasParams[2], basefee, price)
             IN  [feeUsd |-> fee, gasUsd |-> gas,
                  eligible |-> /\ fee + gas # 0
                               /\ PayableUsd(a, price) >= fee + gas]

-----------------------------------------------------------------------------
Claiming ==
    \E i \in Instances, caller \in Accounts, feed \in Feeds,
       id \in UNION {0..(Len(issued[s]) - 1) : s \in Snapshots} :
        \/ Claim(i, id, caller, feed)
        \/ \E program \in Provable, recipient \in Accounts \cup {NoAccount},
              gasUsed \in GasUsed, basefee \in BaseFees, min \in MinPayouts :
              SubmitAndClaim(i, id, program, recipient, caller, gasUsed,
                             basefee, feed, min)

Community ==
    \E i \in Instances, caller \in Accounts :
        \/ Migrate(i, caller)
        \/ \E interval \in Intervals, cap \in Caps :
              SetPolicy(i, caller, interval, cap)
        \/ \E w \in Withdrawals : RequestWithdrawal(i, caller, w[1], w[2])
        \/ CancelWithdrawal(i, caller)
        \/ ExecuteWithdrawal(i, caller)

Next ==
    \/ Tick
    \/ Environment
    \/ \E i \in Instances, amount \in Deposits :
          DepositETH(i, amount) \/ DepositUSDC(i, amount)
    \/ \E p \in Programs, fee \in Fees : SetFeePerRootUsd(p, fee[1], fee[2])
    \/ \E limits \in GasLimits : SetGasParams(limits)
    \/ Claiming
    \/ Community
    \/ \E a \in Accounts, token \in {"eth", "usdc"} : WithdrawCredit(a, token)

Spec == Init /\ [][Next]_vars

-----------------------------------------------------------------------------
(* Properties.                                                             *)

Claims == {claims[k] : k \in 1..Len(claims)}

\* The vault holds exactly what it owes: every tank and every uncollected
\* credit, in both tokens, after any mix of deposits, bounties, withdrawals
\* and collections, and owes nobody less than nothing.
Solvent ==
    \A token \in {"eth", "usdc"} :
        /\ held[token] =
               SumFunction([i \in Instances |-> accounts[i][token]])
               + SumFunction([a \in Accounts |-> credit[a][token]])
        /\ \A i \in Instances : accounts[i][token] >= 0
        /\ \A a \in Accounts : credit[a][token] >= 0

\* One proven statement is paid at most once per instance, through any
\* sequence of repeated checkpoints, direct landings, fallback claims and
\* migrations there and back.
StatementPaidOnce ==
    \A k, l \in 1..Len(claims) :
        (k # l /\ claims[k].instance = claims[l].instance) =>
            /\ claims[k].statement # claims[l].statement
            /\ <<claims[k].snapshot, claims[k].id>>
                 # <<claims[l].snapshot, claims[l].id>>

\* The fee of every claim went to the payee that the accepted proof committed,
\* whoever submitted the transaction or called claim().
FeeFollowsCommittedPayee ==
    \A c \in Claims :
        \E e \in AcceptedWithId(c.snapshot, c.id) :
            c.recipient = e.recipient /\ c.statement = Statement(c.snapshot, e)

\* Two paid roots of an instance are at least the interval in force at the
\* later one apart, whatever was landed directly, skipped or claimed between.
CadenceRespected ==
    \A k, l \in 1..Len(claims) :
        (k < l /\ claims[k].instance = claims[l].instance) =>
            claims[l].block >= claims[k].block + claims[l].interval

\* A bounty is neither destroyed nor stolen: the slot of an accepted checkpoint
\* whose statement was never paid is open, and as soon as the policy, the
\* cadence, the schedule and a usable price allow it, claim() pays its payee
\* the fee, up to the tank and to rounding, even when the proof was lifted out
\* of the mempool and landed directly.
CopiedProofStillPays ==
    \A i \in Instances : accounts[i].snapshot # NoSnapshot =>
        LET s == accounts[i].snapshot IN
        \A k \in 1..Len(accepted[s]), feed \in Feeds :
            LET e == accepted[s][k]
                t == Terms(i, e.checkpointId)
                p == Settlement(i, t, Statement(s, e), e.recipient, NoAccount,
                                0, 0, feed)
            IN  (/\ e.recipient # NoAccount
                 /\ <<i, Statement(s, e)>> \notin paidStatement)
                => /\ <<i, s, e.checkpointId>> \notin claimed
                   /\ p.reason = "None" =>
                         p.legs.fee.paidUsd + UsdPerUsdc
                           > Lesser(FeeDue(t), PayableUsd(accounts[i], p.price))

\* No money leaves a tank, other than to a prover, without notice: every
\* request behind an executed withdrawal is at least WithdrawalNotice old, and
\* together they asked for what was taken.
WithdrawalsGaveNotice ==
    [][\A i \in Instances, token \in {"eth", "usdc"} :
          (claims' = claims /\ accounts'[i][token] < accounts[i][token]) =>
              /\ \A k \in 1..Len(requests[i]) :
                    block >= requests[i][k].at + WithdrawalNotice
              /\ accounts[i][token] - accounts'[i][token] <=
                    SumFunction([k \in 1..Len(requests[i]) |->
                                    requests[i][k][token]])]_vars

\* A quote is the settlement: for a checkpoint not yet landed whose statement
\* was not paid before, an eligible quote is what submitAndClaim() pays at the
\* same block and price, up to the rounding of two payments.
QuotedIsPaid(i, s, id, program, basefee, feed) ==
    LET q == Quote(i, id, basefee, feed)
        statement == Statement(s, [checkpointId |-> id,
                                   root |-> Output(program, issued[s][id + 1])])
        a == CHOOSE x \in Accounts : TRUE
        p == Settlement(i, Terms(i, id), statement, a, a, gasParams[2],
                        basefee, feed)
    IN  q.eligible =>
            /\ p.reason \in {"None", "InsufficientBalance"}
            /\ p.legs.fee.paidUsd + p.legs.gas.paidUsd + 2 * UsdPerUsdc
                 > q.feeUsd + q.gasUsd

NotYetLanded(s) ==
    {id \in 0..(Len(issued[s]) - 1) :
        accepted[s] # <<>> => id > accepted[s][Len(accepted[s])].checkpointId}

QuotesAreHonoured ==
    \A i \in Instances : accounts[i].snapshot # NoSnapshot =>
        LET s == accounts[i].snapshot IN
        \A id \in NotYetLanded(s), program \in Provable, basefee \in BaseFees,
           feed \in Feeds :
            <<i, Statement(s, [checkpointId |-> id,
                               root |-> Output(program, issued[s][id + 1])])>>
                \notin paidStatement
            => QuotedIsPaid(i, s, id, program, basefee, feed)
=============================================================================
