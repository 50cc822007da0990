---------------------------- MODULE GovernedSafe ----------------------------
(***************************************************************************)
(* A network's Safe after its factory sealed it: owner signatures can no   *)
(* longer make it act, and everything it does comes from a module.  Member *)
(* governance calls through MerkleGovModule, a recovery proposer through   *)
(* DelayedRecoveryModule, a parent network through ParentAuthorityModule,  *)
(* and SignerSyncZkModule rotates its owners.  The Safe in turn governs    *)
(* these modules: it appoints their authorities, withdraws their queued    *)
(* actions, sets their knobs and may disable them, so that an action of    *)
(* one module can undo what another has queued.                            *)
(*                                                                         *)
(* A queued action is stored under its id, which hashes the generation of  *)
(* the authority that announced it with everything the action is; here the *)
(* entry itself is the id, and it is found again only under its own        *)
(* generation.  A call is abstracted to what it does to the Safe and to    *)
(* the modules.  Blocks and seconds are one clock, the accumulators' and   *)
(* the activity source's checkpoints a fixed schedule on it, and the       *)
(* verifier accepts any selection proved of the present state.             *)
(***************************************************************************)
EXTENDS SafeOwners, FiniteSets

CONSTANTS
    Principals,         \* who can be a recovery proposer or a parent: no zero address
    Nobody,             \* the authority of a renounced module
    Owners,             \* addresses that can own the Safe, above the sentinel;
                        \* its own (SafeAddress) is not one of them
    Creators,           \* those that can have created the network
    MaxSigners,         \* SignerSelectionPolicy.MAX_SIGNERS
    RecoveryDelays,     \* delays a recovery module may be deployed with
    ParentDelays,       \* delays of a parent module; zero: it acts at once
    EXECUTION_WINDOW,
    MAX_ACTIVITY_CHECKPOINT_AGE,
    Checkpoints,        \* per accumulator: the times of its checkpoints
    FirstAccumulator, FirstSource,      \* what the factory wires up
    Pinned,             \* checkpoint ids the score snapshot has pinned
    ActivityTimes,      \* per activity source: the times of its checkpoints
    Policies,           \* maxInactiveBlocks of the selection policies in use
    MemberCalls,        \* what member governance may decide on
    QueueCalls,         \* per queue: what its authority may announce
    MaxTime, MaxNonce, MaxMemberCalls   \* bounds; MaxNonce is per queue

ASSUME SafeAssumption ==
    /\ Nobody \notin Principals
    /\ Owners \subseteq Nat \ {Sentinel} /\ Creators \subseteq Owners
    /\ SafeAddress \in Nat \ (Owners \cup {Sentinel})
    /\ RecoveryDelays \subseteq Nat \ {0} /\ ParentDelays \subseteq Nat
    /\ Checkpoints \in [DOMAIN Checkpoints -> Seq(Nat)]
    /\ FirstAccumulator \in DOMAIN Checkpoints
    /\ FirstSource \in DOMAIN ActivityTimes
    /\ Pinned \subseteq Nat /\ Policies \subseteq Nat \ {0}

Queues == {"recovery", "parent"}
Modules == Queues \cup {"governance", "signers"}

VARIABLES
    now,
    safe,               \* owners in list order, and the threshold
    modules,            \* modules enabled on the Safe
    queue,              \* the state of the two delayed routes
    executed,           \* per queue: RecoveryExecuted, ParentActionExecuted
    signers,            \* the state of the signer module
    decided             \* how often member governance acted, for the bound

vars == <<now, safe, modules, queue, executed, signers, decided>>

(***************************************************************************)
(* Delayed routes.                                                         *)
(***************************************************************************)
Entry(nonce, call, by, generation, at) ==
    [nonce |-> nonce, call |-> call, by |-> by, generation |-> generation, at |-> at]

NewQueue(authority, delay) ==
    [authority |-> authority, generation |-> 0, nextNonce |-> 0,
     renounced |-> FALSE, delay |-> delay, pending |-> {}]

\* readyAt
ReadyAt(q, e) == e.at + q.delay

\* hashAction() is asked for the id under the present generation.
Found(q, e) == e \in q.pending /\ e.generation = q.generation

\* Faulty variant: the new authority inherits its predecessor's generation.
SetAuthorityOnly(q, to) == [q EXCEPT !.authority = to]
SetAuthority(q, to) ==
    [q EXCEPT !.authority = to, !.generation = @ + 1]

Unqueue(q, e) == [q EXCEPT !.pending = @ \ {e}]

(***************************************************************************)
(* Knobs of the signer module.                                             *)
(***************************************************************************)
Taken(times) == {i \in DOMAIN times : times[i] <= now}
CheckpointCount(accumulator) == Cardinality(Taken(Checkpoints[accumulator]))

SetAccumulator(sg, to) ==
    IF to = sg.accumulator THEN sg
    ELSE [sg EXCEPT !.accumulator = to, !.initialised = FALSE,
                    !.lastCheckpoint = 0, !.lastActivity = 0]

SetActivitySource(sg, to) ==
    [sg EXCEPT !.source = to,
               !.lastActivity = IF to = sg.source THEN @ ELSE 0]

RotationUnlocked(sg, to) ==
    \/ to = sg.accumulator
    \/ CheckpointCount(sg.accumulator) = 0 /\ CheckpointCount(to) = 0

(***************************************************************************)
(* What a call made by the Safe does to the Safe and to each module.       *)
(***************************************************************************)
SafeAfter(s, call) ==
    CASE call.op = "addOwner" -> AddOwnerWithThreshold(s, call.owner, call.threshold)
      [] call.op = "removeOwner" ->
             RemoveOwner(s, PrevOwner(s.owners, call.owner), call.owner, call.threshold)
      [] call.op = "changeThreshold" -> ChangeThreshold(s, call.threshold)
      [] OTHER -> s

ModulesAfter(m, call) ==
    CASE call.op = "enable" -> m \cup {call.module}
      [] call.op = "disable" -> m \ {call.module}
      [] OTHER -> m

QueuesAfter(qs, call) ==
    CASE call.op = "appoint" -> [qs EXCEPT ![call.queue] = SetAuthority(@, call.to)]
      [] call.op = "cancel" ->
             [qs EXCEPT ![call.queue].pending = {e \in @ : e.nonce # call.nonce}]
      [] OTHER -> qs

SignersAfter(sg, call) ==
    CASE call.op = "setPaused" -> [sg EXCEPT !.paused = call.to]
      [] call.op = "setPolicy" -> [sg EXCEPT !.maxInactive = call.to]
      [] call.op = "setSource" -> SetActivitySource(sg, call.to)
      [] call.op = "setAccumulator" -> SetAccumulator(sg, call.to)
      [] OTHER -> sg

\* Arguments a module or the Safe takes: no zero address, something that answers as an
\* accumulator, a policy within SignerSelectionPolicy's bounds.
Accepted(call) ==
    CASE call.op = "appoint" -> call.to \in Principals
      [] call.op = "addOwner" -> call.owner \in Owners
      [] call.op = "setAccumulator" -> call.to \in DOMAIN Checkpoints
      [] call.op = "setSource" -> call.to \in DOMAIN ActivityTimes
      [] call.op = "setPolicy" -> call.to \in Nat \ {0}
      [] call.op = "setPaused" -> call.to \in BOOLEAN
      [] OTHER -> TRUE

\* A call that reverts takes the whole transaction with it.
Succeeds(call, s, m, qs, sg) ==
    /\ Accepted(call)
    /\ SafeAfter(s, call) # Reverted
    /\ call.op = "enable" => call.module \notin m
    /\ call.op = "disable" => call.module \in m
    /\ call.op = "appoint" => ~qs[call.queue].renounced
    /\ call.op = "cancel" =>
         \E e \in qs[call.queue].pending : e.nonce = call.nonce
    /\ call.op = "setAccumulator" => RotationUnlocked(sg, call.to)

\* execTransactionFromModule, after the calling module changed the queues
\* to `qs'.
ExecFromModule(module, call, qs) ==
    /\ module \in modules
    /\ Succeeds(call, safe, modules, qs, signers)
    /\ safe' = SafeAfter(safe, call)
    /\ modules' = ModulesAfter(modules, call)
    /\ queue' = QueuesAfter(qs, call)
    /\ signers' = SignersAfter(signers, call)

-----------------------------------------------------------------------------
\* What the factories leave behind: one owner, the creator; the creator or
\* the parent as recovery proposer; every module enabled and the guard sealed.
Init ==
    /\ now = 0
    /\ \E o \in Creators : safe = [owners |-> <<o>>, threshold |-> 1]
    /\ modules = Modules
    /\ \E p \in Principals, r \in RecoveryDelays, d \in ParentDelays :
         queue = [q \in Queues |-> NewQueue(p, IF q = "parent" THEN d ELSE r)]
    /\ executed = [q \in Queues |-> {}]
    /\ \E m \in Policies :
         signers = [accumulator |-> FirstAccumulator, source |-> FirstSource,
                    maxInactive |-> m, paused |-> FALSE, initialised |-> FALSE,
                    lastCheckpoint |-> 0, lastActivity |-> 0]
    /\ decided = 0

Tick ==
    /\ now < MaxTime
    /\ now' = now + 1
    /\ UNCHANGED <<safe, modules, queue, executed, signers, decided>>

\* schedule(), of either module
Schedule(q, caller, call) ==
    LET e == Entry(queue[q].nextNonce, call, caller, queue[q].generation, now)
    IN  /\ caller = queue[q].authority
        /\ ~queue[q].renounced
        /\ q = "parent" => queue[q].delay # 0
        /\ queue[q].nextNonce < MaxNonce[q]
        /\ queue' = [queue EXCEPT ![q].pending = @ \cup {e}, ![q].nextNonce = @ + 1]
        /\ UNCHANGED <<now, safe, modules, executed, signers, decided>>

\* DelayedRecoveryModule.execute and ParentAuthorityModule.executeScheduled,
\* by anybody
ExecuteScheduled(q, e) ==
    /\ ~queue[q].renounced
    /\ Found(queue[q], e)
    /\ now >= ReadyAt(queue[q], e)
    /\ now <= ReadyAt(queue[q], e) + EXECUTION_WINDOW
    /\ ExecFromModule(q, e.call, [queue EXCEPT ![q] = Unqueue(@, e)])
    /\ executed' = [executed EXCEPT ![q] = @ \cup {e}]
    /\ UNCHANGED <<now, decided>>

\* ParentAuthorityModule.execute
ExecuteNow(caller, call) ==
    LET q == queue["parent"]
        e == Entry(q.nextNonce, call, caller, q.generation, now)
    IN  /\ caller = q.authority
        /\ ~q.renounced
        /\ q.delay = 0
        /\ q.nextNonce < MaxNonce["parent"]
        /\ ExecFromModule("parent", call, [queue EXCEPT !["parent"].nextNonce = @ + 1])
        /\ executed' = [executed EXCEPT !["parent"] = @ \cup {e}]
        /\ UNCHANGED <<now, decided>>

\* cancel(), by the authority; the Safe's veto is a call.  The id of an
\* earlier generation can still be cancelled.
Cancel(q, caller, e) ==
    /\ caller = queue[q].authority
    /\ e \in queue[q].pending
    /\ queue' = [queue EXCEPT ![q] = Unqueue(@, e)]
    /\ UNCHANGED <<now, safe, modules, executed, signers, decided>>

\* ParentAuthorityModule.renounce
Renounce(caller) ==
    /\ caller = queue["parent"].authority
    /\ ~queue["parent"].renounced
    /\ queue' = [queue EXCEPT !["parent"].renounced = TRUE]
    /\ UNCHANGED <<now, safe, modules, executed, signers, decided>>

\* A passed proposal.
MembersDecide(call) ==
    /\ decided < MaxMemberCalls
    /\ decided' = decided + 1
    /\ ExecFromModule("governance", call, queue)
    /\ UNCHANGED <<now, executed>>

\* Signer lists _validateAndRoot accepts: it refuses zero and the sentinel, but
\* not the Safe itself.
Addresses == Owners \cup {SafeAddress}
Canonical ==
    {l \in UNION {[1..n -> Addresses] : n \in 2..MaxSigners} :
        \A i, j \in DOMAIN l : i < j => l[i] < l[j]}

MaximumAge ==
    IF signers.maxInactive < MAX_ACTIVITY_CHECKPOINT_AGE
    THEN signers.maxInactive ELSE MAX_ACTIVITY_CHECKPOINT_AGE

\* Ids count from zero.
SubmitSignerProof(c, a, desired, target) ==
    LET after == SyncOwners(safe, desired, target)
    IN  /\ ~signers.paused
        /\ signers.initialised => c > signers.lastCheckpoint
        /\ c + 1 \in Taken(Checkpoints[signers.accumulator])
        /\ c \in Pinned
        /\ a + 1 \in Taken(ActivityTimes[signers.source])
        /\ a >= signers.lastActivity
        /\ now <= ActivityTimes[signers.source][a + 1] + MaximumAge
        /\ target \in 2..Len(desired)
        /\ after # Reverted
        /\ after # safe => "signers" \in modules
        /\ safe' = after
        /\ signers' = [signers EXCEPT !.lastCheckpoint = c, !.lastActivity = a,
                                      !.initialised = TRUE]
        /\ UNCHANGED <<now, modules, queue, executed, decided>>

Next ==
    \/ Tick
    \/ \E q \in Queues, p \in Principals :
         \/ \E call \in QueueCalls[q] : Schedule(q, p, call)
         \/ \E e \in queue[q].pending : Cancel(q, p, e)
    \/ \E q \in Queues : \E e \in queue[q].pending : ExecuteScheduled(q, e)
    \/ \E p \in Principals :
         \/ \E call \in QueueCalls["parent"] : ExecuteNow(p, call)
         \/ Renounce(p)
    \/ \E call \in MemberCalls : MembersDecide(call)
    \/ \E c \in Pinned, desired \in Canonical :
         \E a \in 0..MaxTime, target \in 2..Len(desired) :
            SubmitSignerProof(c, a, desired, target)

Spec == Init /\ [][Next]_vars

-----------------------------------------------------------------------------
\* What may still happen: the entries an id can be asked for.
Standing(q) == IF q.renounced THEN {} ELSE {e \in q.pending : Found(q, e)}
AuthorityIn(q) == IF q.renounced THEN Nobody ELSE q.authority

Recovery == INSTANCE Timelock WITH
    Window <- EXECUTION_WINDOW, delay <- queue["recovery"].delay,
    authority <- AuthorityIn(queue["recovery"]), standing <- Standing(queue["recovery"]),
    done <- executed["recovery"]

Parent == INSTANCE Timelock WITH
    Window <- EXECUTION_WINDOW, delay <- queue["parent"].delay,
    authority <- AuthorityIn(queue["parent"]), standing <- Standing(queue["parent"]),
    done <- executed["parent"]

(***************************************************************************)
(* Both routes keep the promise of a timelock, whatever the other route,   *)
(* the members and the signer module do in between: nothing happens before *)
(* its delay, after its window, twice, or once withdrawn, and nothing that *)
(* was announced before the present appointment, although the storage of   *)
(* such entries is never cleared and the same authority may be appointed   *)
(* again.                                                                  *)
(***************************************************************************)
ImplementsTimelock == Recovery!Spec /\ Parent!Spec

(***************************************************************************)
(* Whatever list of owners governance and earlier rotations have left, and *)
(* in whatever order, every canonical selection of others than the Safe    *)
(* can be applied: no call of the diff names a wrong predecessor or steps  *)
(* over a threshold, and the Safe ends with exactly the selected owners    *)
(* and threshold.  One that names the Safe itself is never half applied:   *)
(* the whole rotation reverts.                                             *)
(***************************************************************************)
RotationsLand ==
    \A desired \in Canonical : \A target \in 2..Len(desired) :
        LET after == SyncOwners(safe, desired, target)
        IN  IF SafeAddress \in ToSet(desired)
            THEN after = Reverted
            ELSE /\ ToSet(after.owners) = ToSet(desired)
                 /\ Len(after.owners) = Len(desired)
                 /\ after.threshold = target

(***************************************************************************)
(* A rotation already applied is never undone by an older proof: whatever  *)
(* governance re-points, the module never forgets that it is initialised,  *)
(* nor which checkpoint and, within one source, which activity it has      *)
(* reached.                                                                *)
(***************************************************************************)
HighWaterHolds ==
    [][signers.initialised =>
         /\ signers'.initialised
         /\ signers'.lastCheckpoint >= signers.lastCheckpoint
         /\ signers'.source = signers.source =>
              signers'.lastActivity >= signers.lastActivity]_vars

=============================================================================
