------------------------- MODULE SnapshotGovernance -------------------------
(***************************************************************************)
(* The two-tier authority of contracts/src/merkle/MerkleSnapshot.sol over  *)
(* OpenZeppelin's AccessControl, its two-step constitutional handoff, and  *)
(* what that authority administers besides the lifecycle knobs: the dense  *)
(* hook set and the metadata document.  CONSTITUTIONAL_ROLE administers    *)
(* both roles; nobody ever holds DEFAULT_ADMIN_ROLE.                       *)
(***************************************************************************)
EXTENDS Integers, Sequences, FiniteSets

CONSTANTS
    Accounts,       \* callers and role holders
    NoAccount,      \* the zero address
    Hooks,          \* contracts that may be installed as hooks
    NoHook,         \* the zero address
    Documents,      \* well-formed metadata URIs
    MaxRevision     \* bound: changes of the metadata document

ASSUME GovernanceAssumption ==
    /\ IsFiniteSet(Accounts) /\ IsFiniteSet(Hooks)
    /\ NoAccount \notin Accounts /\ NoHook \notin Hooks
    /\ MaxRevision \in Nat

VARIABLES
    constitutional,             \* holders of CONSTITUTIONAL_ROLE
    operational,                \* holders of OPERATIONAL_ROLE
    constitutionalHolderCount,
    transferor, successor,      \* the pending handoff
    hooks, hookIndex, nextHookIndex,
    metadata, metadataRevision

roleVars == <<constitutional, operational, constitutionalHolderCount,
              transferor, successor>>
hookVars == <<hooks, hookIndex, nextHookIndex>>
metadataVars == <<metadata, metadataRevision>>
governanceVars == <<roleVars, hookVars, metadataVars>>

HookSlots == 1..Cardinality(Hooks)

GovernanceInit ==
    /\ \E admin \in Accounts : constitutional = {admin}
    /\ \E admin \in Accounts : operational = {admin}
    /\ constitutionalHolderCount = 1
    /\ transferor = NoAccount
    /\ successor = NoAccount
    /\ hooks = [i \in HookSlots |-> NoHook]
    /\ hookIndex = [h \in Hooks |-> 0]
    /\ nextHookIndex = 1
    /\ metadata \in Documents
    /\ metadataRevision = 0

-----------------------------------------------------------------------------
(* Roles.  _grantRole and _revokeRole are the seams every path goes        *)
(* through; they take the handoff as it stands when they are called.       *)

\* Faulty variant: a repeated grant is counted again.
GrantRepeatedly(x) ==
    /\ constitutional' = constitutional \cup {x}
    /\ constitutionalHolderCount' = constitutionalHolderCount + 1

\* _grantRole(CONSTITUTIONAL_ROLE, x): a repeated grant is not counted.
GrantConstitutional(x) ==
    /\ constitutional' = constitutional \cup {x}
    /\ constitutionalHolderCount' =
          constitutionalHolderCount + IF x \in constitutional THEN 0 ELSE 1

\* Faulty variant: a revoked holder's pending handoff stays open.
RevokeKeepingHandoff(x) ==
    /\ x \in constitutional => constitutionalHolderCount # 1
    /\ constitutional' = constitutional \ {x}
    /\ constitutionalHolderCount' =
          constitutionalHolderCount - IF x \in constitutional THEN 1 ELSE 0
    /\ UNCHANGED <<transferor, successor>>

\* _revokeRole(CONSTITUTIONAL_ROLE, x): never the last holder; the revoked
\* holder's own handoff is cancelled.
RevokeConstitutional(x) ==
    /\ x \in constitutional => constitutionalHolderCount # 1
    /\ constitutional' = constitutional \ {x}
    /\ constitutionalHolderCount' =
          constitutionalHolderCount - IF x \in constitutional THEN 1 ELSE 0
    /\ IF x \in constitutional /\ x = transferor
       THEN transferor' = NoAccount /\ successor' = NoAccount
       ELSE UNCHANGED <<transferor, successor>>

\* grantRole of either role, by a constitutional holder.
GrantRole(caller, x) ==
    /\ caller \in constitutional
    /\ \/ GrantConstitutional(x) /\ UNCHANGED operational
       \/ /\ operational' = operational \cup {x}
          /\ UNCHANGED <<constitutional, constitutionalHolderCount>>
    /\ UNCHANGED <<transferor, successor, hookVars, metadataVars>>

\* revokeRole by a constitutional holder, or renounceRole by the holder.
RevokeRole(caller, x) ==
    /\ caller \in constitutional \/ caller = x
    /\ \/ RevokeConstitutional(x) /\ UNCHANGED operational
       \/ /\ operational' = operational \ {x}
          /\ UNCHANGED <<constitutional, constitutionalHolderCount,
                         transferor, successor>>
    /\ UNCHANGED <<hookVars, metadataVars>>

\* A new proposal replaces a pending one.
ProposeConstitutionalTransfer(caller, x) ==
    /\ caller \in constitutional
    /\ x # caller
    /\ transferor' = caller
    /\ successor' = x
    /\ UNCHANGED <<constitutional, operational, constitutionalHolderCount,
                   hookVars, metadataVars>>

CancelConstitutionalTransfer(caller) ==
    /\ caller \in constitutional
    /\ transferor # NoAccount
    /\ transferor' = NoAccount
    /\ successor' = NoAccount
    /\ UNCHANGED <<constitutional, operational, constitutionalHolderCount,
                   hookVars, metadataVars>>

\* Grant first, then revoke: the successor may already be a holder.
AcceptConstitutionalTransfer(caller) ==
    /\ caller = successor
    /\ transferor \in constitutional
    /\ transferor' = NoAccount
    /\ successor' = NoAccount
    /\ constitutional' = (constitutional \cup {caller}) \ {transferor}
    /\ constitutionalHolderCount' =
          constitutionalHolderCount - IF caller \in constitutional THEN 1 ELSE 0
    /\ UNCHANGED <<operational, hookVars, metadataVars>>

-----------------------------------------------------------------------------
(* Hooks and metadata, constitutional.                                     *)

AddHook(caller, h) ==
    /\ caller \in constitutional
    /\ hookIndex[h] = 0
    /\ hooks' = [hooks EXCEPT ![nextHookIndex] = h]
    /\ hookIndex' = [hookIndex EXCEPT ![h] = nextHookIndex]
    /\ nextHookIndex' = nextHookIndex + 1
    /\ UNCHANGED <<roleVars, metadataVars>>

\* Faulty variant: the moved hook keeps its old index.
RemoveHookStaleIndex(caller, h) ==
    LET last == nextHookIndex - 1
    IN  /\ caller \in constitutional
        /\ hookIndex[h] # 0
        /\ hooks' = [hooks EXCEPT ![hookIndex[h]] = hooks[last],
                                  ![last] = NoHook]
        /\ hookIndex' = [hookIndex EXCEPT ![h] = 0]
        /\ nextHookIndex' = last
        /\ UNCHANGED <<roleVars, metadataVars>>

\* The last hook moves into the removed slot.
RemoveHook(caller, h) ==
    LET last == nextHookIndex - 1
        moved == hooks[last]
    IN  /\ caller \in constitutional
        /\ hookIndex[h] # 0
        /\ hooks' = [hooks EXCEPT ![hookIndex[h]] = moved, ![last] = NoHook]
        /\ hookIndex' = [hookIndex EXCEPT ![moved] = hookIndex[h], ![h] = 0]
        /\ nextHookIndex' = last
        /\ UNCHANGED <<roleVars, metadataVars>>

SetMetadataURI(caller, d) ==
    /\ caller \in constitutional
    /\ d # metadata
    /\ metadataRevision < MaxRevision
    /\ metadata' = d
    /\ metadataRevision' = metadataRevision + 1
    /\ UNCHANGED <<roleVars, hookVars>>

-----------------------------------------------------------------------------
GovernanceNext ==
    \E caller \in Accounts :
        \/ \E x \in Accounts : GrantRole(caller, x)
        \/ \E x \in Accounts : RevokeRole(caller, x)
        \/ \E x \in Accounts : ProposeConstitutionalTransfer(caller, x)
        \/ CancelConstitutionalTransfer(caller)
        \/ AcceptConstitutionalTransfer(caller)
        \/ \E h \in Hooks : AddHook(caller, h)
        \/ \E h \in Hooks : RemoveHook(caller, h)
        \/ \E d \in Documents : SetMetadataURI(caller, d)

GovernanceSpec == GovernanceInit /\ [][GovernanceNext]_governanceVars

-----------------------------------------------------------------------------
\* The order in which _notifyHooks calls the hooks of an accepted root.
NotificationOrder == [i \in 1..(nextHookIndex - 1) |-> hooks[i]]

\* The instance never loses its last constitutional authority, whichever mix
\* of grants, revocations, renunciations and handoffs ran: the counter that
\* guards the last holder is the number of holders.
AuthorityNeverLost ==
    /\ constitutional # {}
    /\ constitutionalHolderCount = Cardinality(constitutional)

\* A pending handoff is always one its proposer can still make: the proposer
\* holds the role (ConstitutionalTransferorLostRole never fires, and a
\* revoked holder cannot hand on authority it proposed while it had it).
HandoffOnlyByHolder ==
    /\ transferor = NoAccount <=> successor = NoAccount
    /\ transferor # NoAccount => transferor \in constitutional
    /\ transferor # NoAccount => successor # transferor

\* An accepted root reaches each installed hook exactly once: the slots below
\* nextHookIndex hold the installed hooks without gap or repetition, at the
\* index the mapping records.
HooksNotifiedOnce ==
    /\ \A i \in DOMAIN NotificationOrder :
          /\ NotificationOrder[i] \in Hooks
          /\ hookIndex[NotificationOrder[i]] = i
    /\ \A h \in Hooks : hookIndex[h] # 0 => hooks[hookIndex[h]] = h
    /\ \A h \in Hooks : hookIndex[h] < nextHookIndex
=============================================================================
