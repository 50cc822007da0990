------------------------------ MODULE Operator ------------------------------
(***************************************************************************)
(* zk/operator and crates/operator-core: the daemon that proves and lands  *)
(* checkpoints of an instance.  It is one thread that ticks: judge the     *)
(* submissions that await finality, read the chain and the journal, plan   *)
(* one action, do it.  The chain moves and the process may die between any *)
(* two of its steps, each of which is a call to the chain, the prover, the *)
(* score host or the disk.                                                 *)
(*                                                                         *)
(* A tick whose plan is to wait changes nothing and is a stutter.  Backoff,*)
(* base fee and pauses decide when a plan is carried out, not what it is;  *)
(* fairness says that they end.                                            *)
(***************************************************************************)
EXTENDS RequestJournal, OperatorChain

CONSTANTS
    BudgetCents,    \* [budget] per-instance cap in the rolling window
    Threshold,      \* [ops] submit_failure_threshold
    MaxFaults,      \* bound: crashes, failed calls and failed writes
    MaxUpsets       \* bound: reorganisations and other upsets of the chain

ASSUME OperatorAssumption ==
    /\ Keys = 1..MaxInputs
    /\ ProofCost \in Nat /\ GasCost \in Nat /\ BudgetCents \in Nat
    /\ Threshold \in Nat \ {0}
    /\ MaxFaults \in Nat /\ MaxUpsets \in Nat

VARIABLES
    pc, work,       \* what the process is doing, and for which checkpoint
    writing,        \* the line it is appending
    pending,        \* pending_settles: its watched submissions
    resolved,       \* those judged in this pass
    held,           \* held.json of each checkpoint: the proof, torn or missing
    bought,         \* history: proofs the prover was asked for
    faults,         \* faults of the process so far
    upsets          \* upsets of the chain so far

processVars == <<pc, work, writing, pending, resolved>>
faultVars == <<faults, upsets>>
vars == <<journalVars, chainVars, processVars, held, bought, faultVars>>

NoLine == [type |-> "none", key |-> 0, tx |-> 0, block |-> 0]
NoWatch == [tx |-> 0, block |-> 0]
NoProof == 0
TornProof == -1
Held(k) == held[k] \notin {NoProof, TornProof}
Watched == {k \in Keys : pending[k] # NoWatch}

Phases == {"down", "idle", "settling", "planning", "requesting", "awaiting",
           "saving", "publishing", "sending", "watching", "append"}

Init ==
    /\ JournalInit /\ ChainInit
    /\ pc = "down" /\ work = 0 /\ writing = NoLine
    /\ pending = [k \in Keys |-> NoWatch] /\ resolved = {}
    /\ held = [k \in Keys |-> NoProof] /\ bought = [k \in Keys |-> 0]
    /\ faults = 0 /\ upsets = 0

Goto(phase) == pc' = phase
Idle ==
    /\ pc' = "idle" /\ work' = 0 /\ writing' = NoLine /\ resolved' = {}

\* The process is about to append line r.
WriteLine(r) == pc' = "append" /\ writing' = r

(***************************************************************************)
(* The settle pass at the start of a tick.                                 *)
(***************************************************************************)
\* The watched submissions are judged in the order of their keys; when all
\* are, those resolved are no longer watched.
After(k) == {j \in Watched : j > k}
IsFirst(j, S) == j \in S /\ \A i \in S : j <= i
Judged(k, done) ==
    IF After(k) # {}
    THEN /\ \E j \in Keys : IsFirst(j, After(k)) /\ work' = j
         /\ pc' = "settling" /\ resolved' = done
         /\ UNCHANGED pending
    ELSE /\ pc' = "planning" /\ work' = 0 /\ resolved' = {}
         /\ pending' = [j \in Keys |-> IF j \in done THEN NoWatch
                                       ELSE pending[j]]

StartTick ==
    /\ pc = "idle" /\ Watched # {}
    /\ pc' = "settling" /\ \E j \in Keys : IsFirst(j, Watched) /\ work' = j
    /\ UNCHANGED <<writing, pending, resolved, journalVars, chainVars, held,
                   bought, faultVars>>

\* Anchor.finality() of the block the receipt named.
Replaced(w) == txs[w.tx].state # "landed" \/ txs[w.tx].block # w.block
\* Faulty variant: a receipt is taken for finality.
FinalAtReceipt(w) == ~Replaced(w)
Final(w) == ~Replaced(w) /\ txs[w.tx].age >= Confirmations

Judge ==
    /\ pc = "settling"
    /\ LET w == pending[work]
       IN  \/ /\ Final(w)
              /\ WriteLine(Line("Landed", work))
              /\ UNCHANGED <<work, pending, resolved>>
           \/ /\ Replaced(w)
              /\ WriteLine(TxLine("SubmitReorged", work, w.tx, w.block))
              /\ UNCHANGED <<work, pending, resolved>>
           \/ /\ ~Final(w) /\ ~Replaced(w)
              /\ Judged(work, resolved)
              /\ UNCHANGED writing
    /\ UNCHANGED <<journalVars, chainVars, held, bought, faultVars>>

(***************************************************************************)
(* build_state() and plan(): what the chain and the journal say now.       *)
(***************************************************************************)
Planning == pc = "planning" \/ (pc = "idle" /\ Watched = {})

\* Only the newest checkpoint is ever worked on, and only if it is newer than
\* the applied one.
Newest == IF Len(frozen) > Applied THEN Len(frozen) ELSE 0

WithinBudget == Spend(Known) < BudgetCents

\* A paid proof comes first: publish it, then submit it.
PlanFinish(k) ==
    /\ k = Newest /\ WithinBudget /\ InFlight(k, Known) /\ Held(k)

PlanPublish(k) ==
    /\ Planning /\ PlanFinish(k) /\ ~PublicationSatisfied(k, Known)
    /\ pc' = "publishing" /\ work' = k
    /\ UNCHANGED <<writing, pending, resolved, journalVars, chainVars, held,
                   bought, faultVars>>

\* Faulty variant: does not publish first.
PlanSubmitUnpublished(k) ==
    /\ Planning /\ PlanFinish(k)
    /\ pc' = "sending" /\ work' = k
    /\ UNCHANGED <<writing, pending, resolved, journalVars, chainVars, held,
                   bought, faultVars>>

\* Strikes left by a crash before the abandonment was written are counted
\* before the proof is sent again.
PlanSubmit(k) ==
    /\ Planning /\ PlanFinish(k) /\ PublicationSatisfied(k, Known)
    /\ work' = k
    /\ IF SubmitFailures(k, Known) >= Threshold
       THEN WriteLine(Line("Abandoned", k))
       ELSE pc' = "sending" /\ UNCHANGED writing
    /\ UNCHANGED <<pending, resolved, journalVars, chainVars, held, bought,
                   faultVars>>

\* Faulty variant: does not wait for the checkpoint to be final.
PlanProveAtOnce(k) ==
    /\ Planning /\ k = Newest /\ WithinBudget /\ MayRequest(k, Known)
    /\ work' = k /\ WriteLine(TxLine("Intent", k, 0, frozen[k].block))
    /\ UNCHANGED <<pending, resolved, journalVars, chainVars, held, bought,
                   faultVars>>

\* Nothing is in flight for the newest checkpoint: buy a proof, if the
\* checkpoint is final and the journal allows it.
PlanProve(k) ==
    /\ Planning /\ k = Newest /\ WithinBudget
    /\ MayRequest(k, Known)
    /\ frozen[k].age >= Confirmations
    /\ work' = k /\ WriteLine(TxLine("Intent", k, 0, frozen[k].block))
    /\ UNCHANGED <<pending, resolved, journalVars, chainVars, held, bought,
                   faultVars>>

\* Faulty variant: an abandoned checkpoint is never replaced.
PlanTriggerWhenAllProved ==
    /\ Planning /\ WithinBudget /\ Newest = 0
    /\ Applied = 0 \/ live # InputsOf(Applied)
    /\ Freeze
    /\ Idle
    /\ UNCHANGED <<pending, journalVars, held, bought, faultVars>>

\* Nothing is left to prove: freeze what moved since the applied root, and
\* since the abandoned checkpoint if there is one.
PlanTrigger ==
    /\ Planning /\ WithinBudget
    /\ \/ Newest = 0
       \/ Abandoned(Newest, Known) /\ live # InputsOf(Newest)
    /\ Applied = 0 \/ live # InputsOf(Applied)
    /\ Freeze
    /\ Idle
    /\ UNCHANGED <<pending, journalVars, held, bought, faultVars>>

\* Everything else is a decision to wait.
Wait ==
    /\ pc = "planning"
    /\ Idle
    /\ UNCHANGED <<pending, journalVars, chainVars, held, bought, faultVars>>

(***************************************************************************)
(* Proving.  The prover has no idempotency key: a request that reached it  *)
(* is paid for whether or not the operator ever learns of it.  The lines   *)
(* of a request name the block whose contents it proves.                   *)
(***************************************************************************)
Request ==
    /\ pc = "requesting"
    /\ bought' = [bought EXCEPT ![work] = @ + 1]
    /\ Goto("awaiting")
    /\ UNCHANGED <<work, writing, pending, resolved, journalVars, chainVars,
                   held, faultVars>>

ProofArrives ==
    /\ pc = "awaiting"
    /\ WriteLine(TxLine("Requested", work, 0, writing.block))
    /\ UNCHANGED <<work, pending, resolved, journalVars, chainVars, held,
                   bought, faultVars>>

\* save_held(), then on to the first publication attempt.
SaveHeld ==
    /\ pc = "saving"
    /\ held' = [held EXCEPT ![work] = writing.block]
    /\ Goto("publishing")
    /\ UNCHANGED <<work, writing, pending, resolved, journalVars, chainVars,
                   bought, faultVars>>

(***************************************************************************)
(* Publication.  A failed attempt leaves a line that only paces the next.  *)
(***************************************************************************)
PublishSucceeds ==
    /\ pc = "publishing"
    /\ WriteLine(Line("Published", work))
    /\ UNCHANGED <<work, pending, resolved, journalVars, chainVars, held,
                   bought, faultVars>>

PublishFails ==
    /\ pc = "publishing"
    /\ Idle
    /\ UNCHANGED <<pending, journalVars, chainVars, held, bought, faultVars>>

(***************************************************************************)
(* Submission: estimate and simulate, broadcast, watch for the receipt.    *)
(***************************************************************************)
Send ==
    /\ pc = "sending"
    /\ Accepts(work, held[work])
    /\ Broadcast(work, held[work])
    /\ Goto("watching")
    /\ UNCHANGED <<work, writing, pending, resolved, journalVars, held, bought,
                   faultVars>>

\* The estimate or the simulation reverts.  A stale checkpoint is no exception:
\* is_stale_checkpoint() looks for the contract's error in the outermost message
\* of the failure, "... not broadcasting", which does not name it.
SendReverts ==
    /\ pc = "sending"
    /\ ~Accepts(work, held[work])
    /\ WriteLine(Line("SubmitFailure", work))
    /\ UNCHANGED <<work, pending, resolved, journalVars, chainVars, held,
                   bought, faultVars>>

Sent == Len(txs)

Receipt ==
    /\ pc = "watching"
    /\ \/ /\ txs[Sent].state = "landed"
          /\ WriteLine(TxLine("SubmitPending", work, Sent, txs[Sent].block))
       \/ /\ txs[Sent].state = "reverted"
          /\ WriteLine(Line("SubmitGas", work))
    /\ UNCHANGED <<work, pending, resolved, journalVars, chainVars, held,
                   bought, faultVars>>

\* A dropped transaction has no receipt.  The outcome is unknown, and nothing
\* is written.
NoReceipt ==
    /\ pc = "watching" /\ txs[Sent].state = "dropped"
    /\ Idle
    /\ UNCHANGED <<pending, journalVars, chainVars, held, bought, faultVars>>

(***************************************************************************)
(* An append that succeeds, and what the code does after it.               *)
(***************************************************************************)
AppendDone ==
    /\ pc = "append"
    /\ AppendRecord(writing)
    /\ CASE writing.type = "Intent" ->
              /\ Goto("requesting")
              /\ UNCHANGED <<work, writing, pending, resolved>>
         [] writing.type = "Requested" ->
              /\ Goto("saving")
              /\ UNCHANGED <<work, writing, pending, resolved>>
         [] writing.type = "SubmitPending" ->
              /\ pending' = [pending EXCEPT ![work] = [tx |-> writing.tx,
                                                       block |-> writing.block]]
              /\ Idle
         [] writing.type \in {"Landed", "SubmitReorged"} ->
              Judged(work, resolved \cup {work}) /\ writing' = NoLine
         [] writing.type \in {"SubmitGas", "SubmitFailure"} ->
              IF SubmitFailures(work, Known) + 1 >= Threshold
              THEN /\ WriteLine(Line("Abandoned", work))
                   /\ UNCHANGED <<work, pending, resolved>>
              ELSE Idle /\ UNCHANGED pending
         [] OTHER -> Idle /\ UNCHANGED pending
    /\ UNCHANGED <<chainVars, held, bought, faultVars>>

(***************************************************************************)
(* Faults of the process.  Each is one of at most MaxFaults.               *)
(***************************************************************************)
Fault == faults < MaxFaults /\ faults' = faults + 1 /\ UNCHANGED upsets

\* Any failed call ends the action, in the settle pass the whole tick, and
\* the next tick starts over from the chain and the journal.
CallFails ==
    /\ pc \in {"settling", "requesting", "awaiting", "sending", "watching"}
    /\ Fault
    /\ Idle
    /\ UNCHANGED <<pending, journalVars, chainVars, held, bought>>

WriteFails ==
    /\ pc = "append"
    /\ Fault
    /\ AppendFails(writing)
    /\ Idle
    /\ UNCHANGED <<pending, chainVars, held, bought>>

\* held.json is written in place, so a failed or interrupted write may leave
\* part of it.
SaveFails ==
    /\ pc = "saving"
    /\ Fault
    /\ held' \in {held, [held EXCEPT ![work] = TornProof]}
    /\ Idle
    /\ UNCHANGED <<pending, journalVars, chainVars, bought>>

Lost ==
    /\ pc' = "down" /\ work' = 0 /\ writing' = NoLine
    /\ pending' = [k \in Keys |-> NoWatch] /\ resolved' = {}

Crash ==
    /\ pc # "down"
    /\ Fault
    /\ Lost
    /\ IF pc = "append" THEN AppendCrashes(writing) ELSE UNCHANGED journalVars
    /\ IF pc = "saving"
       THEN held' \in {held, [held EXCEPT ![work] = TornProof]}
       ELSE UNCHANGED held
    /\ UNCHANGED <<chainVars, bought>>

(***************************************************************************)
(* Starting, and what is left to a human.                                  *)
(***************************************************************************)
\* Faulty variant: a restart forgets the watches.
RestoredNever(k) == NoWatch

\* The watches are restored from the journal.
Restored(k) ==
    LET w == PendingSubmission(k, OnDisk)
    IN  IF w = {} THEN NoWatch
        ELSE LET i == CHOOSE i \in w : TRUE
             IN  [tx |-> file[i].tx, block |-> file[i].block]

Start ==
    /\ pc = "down"
    /\ Open
    /\ pending' = [k \in Keys |-> Restored(k)]
    /\ Idle
    /\ UNCHANGED <<chainVars, held, bought, faultVars>>

\* An unknown outcome is alerted at every tick until somebody stops the
\* daemon, finds out whether the request exists and appends what they found.
StopToResolve ==
    /\ pc = "idle"
    /\ \E k \in Keys : OutcomeUnknown(k, Known)
    /\ Lost
    /\ UNCHANGED <<journalVars, chainVars, held, bought, faultVars>>

Resolve(k) ==
    /\ pc = "down" /\ ~torn
    /\ OutcomeUnknown(k, OnDisk)
    /\ AppendRecord(Line(IF bought[k] > 0 THEN "ResolvedSome"
                         ELSE "ResolvedNone", k))
    /\ UNCHANGED <<chainVars, processVars, held, bought, faultVars>>

Repair ==
    /\ pc = "down"
    /\ RemoveTornLine
    /\ UNCHANGED <<chainVars, processVars, held, bought, faultVars>>

(***************************************************************************)
(* The chain and the clock.                                                *)
(***************************************************************************)
Off == UNCHANGED <<journalVars, processVars, held, bought>>

BlockBuilt == Off /\ UNCHANGED faultVars /\ EmptyBlock
TxMined == Off /\ UNCHANGED faultVars /\ \E i \in DOMAIN txs : Include(i)

Others ==
    /\ Off /\ UNCHANGED faultVars
    /\ \/ Attest \/ Freeze \/ Accept
       \/ \E id \in Keys : OtherLands(id)

ChainUpset ==
    /\ Off
    /\ upsets < MaxUpsets /\ upsets' = upsets + 1 /\ UNCHANGED faults
    /\ \/ \E d \in 1..ReorgDepth : Reorg(d)
       \/ DropPool
       \/ Refuse

\* A move of the window matters only to an operator that waits for it, so any
\* earlier one may as well happen then.
TimePasses ==
    /\ pc = "idle" /\ ~WithinBudget
    /\ WindowMoves
    /\ UNCHANGED <<chainVars, processVars, held, bought, faultVars>>

(***************************************************************************)
(* Specification.                                                          *)
(***************************************************************************)
Plan == \E k \in Keys : PlanPublish(k) \/ PlanSubmit(k) \/ PlanProve(k)

Working ==
    \/ StartTick \/ Judge \/ Wait \/ Request \/ ProofArrives \/ SaveHeld
    \/ PublishFails \/ Send \/ SendReverts \/ Receipt \/ NoReceipt
    \/ AppendDone

Next ==
    \/ Working \/ Plan \/ PlanTrigger \/ PublishSucceeds
    \/ CallFails \/ WriteFails \/ SaveFails \/ Crash
    \/ Start \/ StopToResolve \/ Repair
    \/ \E k \in Keys : Resolve(k)
    \/ BlockBuilt \/ TxMined \/ Others \/ ChainUpset \/ TimePasses

Spec == Init /\ [][Next]_vars

\* Each of these disjunctions is fair as a whole: within the bounds of the
\* model every one of its actions can be taken only finitely often.
Runs == Working \/ Start
CarriedOut == Plan \/ PlanTrigger
Answered == Repair \/ \E k \in Keys : Resolve(k)
WorldMoves == BlockBuilt \/ TxMined \/ TimePasses

\* Nothing is asked of other provers, of attesters, or of whoever could put
\* the contracts' terms right.
Fairness ==
    \* the daemon keeps ticking, a call that can return does, and the
    \* supervisor restarts what died
    /\ WF_vars(Runs)
    \* a tick again and again free to carry out a plan is not held for ever by
    \* fees, backoff or cadence, and score hosts are not down for ever
    /\ SF_vars(CarriedOut) /\ SF_vars(PublishSucceeds)
    \* humans answer the alert raised at every tick, and remove a torn line
    /\ SF_vars(StopToResolve) /\ SF_vars(Answered)
    \* blocks are built, the mempool's transactions are mined, time passes
    /\ WF_vars(WorldMoves)

FairSpec == Spec /\ Fairness

(***************************************************************************)
(* Properties.                                                             *)
(***************************************************************************)
\* The state is what its comments say it is.
OperatorTypeOK ==
    /\ JournalTypeOK /\ ChainTypeOK
    /\ pc \in Phases /\ work \in Keys \cup {0}
    /\ writing \in Record \cup {NoLine}
    /\ pc = "append" => work \in Keys /\ writing \in Record
    /\ pending \in [Keys -> [tx : Nat, block : Nat]] /\ resolved \subseteq Keys
    /\ held \in [Keys -> Int] /\ bought \in [Keys -> Nat]
    /\ faults \in 0..MaxFaults /\ upsets \in 0..MaxUpsets

\* journal.rs, its first line: "don't pay twice after a crash".  Whatever
\* crashes, fails, is reorganised away or is resolved by hand, no checkpoint
\* is proved twice at our cost.
BuysOnce == \A k \in Keys : bought[k] <= 1

\* decide.rs prove_or_wait(), "Do not spend on a checkpoint a reorg could
\* erase": a proof the operator holds is of the checkpoint the chain has.
ProofsAreOfTheChain ==
    \A k \in Keys :
        Held(k) => k \in DOMAIN frozen /\ frozen[k].block = held[k]

\* run.rs run() and settle pass: a submission the process knows to await
\* finality is in its watch list, across restarts, reorganisations and
\* judgements of other submissions in the same pass.
PendingIsWatched ==
    pc # "down" =>
        \A k \in Keys : \A i \in PendingSubmission(k, Known) :
            pending[k] = [tx |-> file[i].tx, block |-> file[i].block]

\* finality.rs: a submission journaled as landed is never reorganised away.
LandedIsFinal ==
    \A i \in OnDisk : file[i].type = "Landed" => file[i].key <= Applied

\* run.rs Publish before Submit: no root of ours reaches the mempool, let
\* alone the chain, before its scores are where readers look for them.
PublishedBeforeSent ==
    \A i \in DOMAIN txs : PublicationSatisfied(txs[i].id, OnDisk)

\* journal.rs status(): to the process, what was settled stays settled and what
\* was abandoned is at most settled, whatever is appended or found at a restart.
TerminalStays ==
    \A k \in Keys :
        /\ Settled(k, Known) => Settled(k, Known)'
        /\ Abandoned(k, Known) => (Settled(k, Known) \/ Abandoned(k, Known))'
TerminalIsTerminal == [][TerminalStays]_vars

\* The two ends the code does not get out of by itself: a paid proof that was
\* not saved, and a checkpoint abandoned after its strikes, those among them
\* that it got for losing to a root that was then reorganised away, until
\* inputs change.
Stuck(k) ==
    \/ InFlight(k, Known) /\ ~Held(k)
    \/ Abandoned(k, Known) /\ live = InputsOf(k)

\* decide.rs plan(), "why did it sit still for a week?": in the end the newest
\* inputs are in the applied root, or the newest checkpoint is stuck.
Scored == live = InputsOf(Applied)
Converges ==
    <>[](Scored \/ (pc \notin {"down"} /\ Newest # 0 /\ Stuck(Newest)))

\* journal.rs, what a restart does: "intent + id: the request is ours and we
\* hold its handle: re-attach and poll".
PaidFor(k) == pc = "idle" /\ k = Newest /\ InFlight(k, Known)
Reattaches == \A k \in Keys : PaidFor(k) ~> (Held(k) \/ k # Newest)
=============================================================================
