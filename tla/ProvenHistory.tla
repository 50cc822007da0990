---------------------------- MODULE ProvenHistory ----------------------------
(***************************************************************************)
(* What a snapshot promises the contracts that read it: two append-only    *)
(* lists.  issued holds what each checkpoint froze; accepted holds the     *)
(* proofs that landed, in ascending order of checkpoint, each the output   *)
(* of some program on exactly what its checkpoint froze, with the payee    *)
(* the proof committed.  MerkleSnapshot implements it; ProvingVault is     *)
(* written against it.                                                     *)
(***************************************************************************)
EXTENDS Naturals, Sequences

CONSTANTS
    Frozen,         \* what a checkpoint may freeze
    Programs,       \* the programs a proof may be of
    Payees,         \* the payees a proof may commit
    Output(_, _)    \* what a program returns on what a checkpoint froze

VARIABLES issued, accepted

historyVars == <<issued, accepted>>

Init == issued = <<>> /\ accepted = <<>>

\* trigger(): never the same thing twice in a row.
Freeze(s) ==
    /\ issued # <<>> => issued[Len(issued)] # s
    /\ issued' = Append(issued, s)
    /\ UNCHANGED accepted

\* submitProof(): checkpoints may be skipped, never revisited.
Accept(id, program, payee) ==
    /\ id < Len(issued)
    /\ accepted # <<>> => id > accepted[Len(accepted)].checkpointId
    /\ accepted' = Append(accepted,
                          [checkpointId |-> id,
                           root |-> Output(program, issued[id + 1]),
                           recipient |-> payee])
    /\ UNCHANGED issued

\* Some checkpoint was issued; naming it by its place in issued' keeps Frozen
\* from being enumerated.
Issue ==
    /\ Len(issued') = Len(issued) + 1
    /\ issued'[Len(issued')] \in Frozen
    /\ Freeze(issued'[Len(issued')])

Next ==
    \/ Issue
    \/ \E id \in 0..(Len(issued) - 1), program \in Programs, payee \in Payees :
          Accept(id, program, payee)

Spec == Init /\ [][Next]_historyVars
=============================================================================
