------------------------------ MODULE SafeOwners ------------------------------
(***************************************************************************)
(* The owners of a Safe, and SignerSyncZkModule._syncOwners, which rotates *)
(* them to a proven selection by a series of calls to the Safe.            *)
(*                                                                         *)
(* The Safe keeps its owners in a linked list that starts at a sentinel; a *)
(* removal or a swap must name the owner's predecessor in that list, and   *)
(* the threshold must lie between one and the number of owners after every *)
(* single call.  The module keeps a copy of the list in memory and changes *)
(* it along with the Safe; where the two part, a call reverts and with it  *)
(* the whole rotation.  Addresses are numbers; the sentinel is the least.  *)
(***************************************************************************)
EXTENDS Integers, Sequences, SequencesExt

CONSTANT SafeAddress        \* the Safe's own address, which it takes for no owner

Sentinel == 0

\* The members of a list that are outside a set, in the list's order.
Without(list, set) ==
    LET kept[i \in 0..Len(list)] ==
            IF i = 0 THEN <<>>
            ELSE IF list[i] \in set THEN kept[i - 1]
            ELSE Append(kept[i - 1], list[i])
    IN  kept[Len(list)]

\* The Safe after a call that reverted.
Reverted == [owners |-> <<>>, threshold |-> 0]

(***************************************************************************)
(* The Safe's own calls (OwnerManager, which is not part of the            *)
(* repository).                                                            *)
(***************************************************************************)
Precedes(list, prev, o) ==
    \E i \in DOMAIN list :
        list[i] = o /\ prev = (IF i = 1 THEN Sentinel ELSE list[i - 1])

AddOwnerWithThreshold(s, o, th) ==
    IF /\ s # Reverted /\ th \in 1..(Len(s.owners) + 1)
       /\ o \notin ToSet(s.owners) /\ o # SafeAddress
    THEN [owners |-> <<o>> \o s.owners, threshold |-> th]
    ELSE Reverted

RemoveOwner(s, prev, o, th) ==
    IF Precedes(s.owners, prev, o) /\ th \in 1..(Len(s.owners) - 1)
    THEN [owners |-> Without(s.owners, {o}), threshold |-> th]
    ELSE Reverted

SwapOwner(s, prev, old, new) ==
    IF /\ Precedes(s.owners, prev, old)
       /\ new \notin ToSet(s.owners) /\ new # SafeAddress
    THEN [s EXCEPT !.owners = ReplaceAll(@, old, new)]
    ELSE Reverted

ChangeThreshold(s, th) ==
    IF th \in 1..Len(s.owners) THEN [s EXCEPT !.threshold = th] ELSE Reverted

(***************************************************************************)
(* The module's copy of the list.                                          *)
(***************************************************************************)
\* The sentinel for the first owner; for an owner who is not in the list
\* _prevOwner reverts, which a predecessor that no call accepts stands for.
PrevOwner(list, o) ==
    IF o \notin ToSet(list) THEN -1
    ELSE LET i == CHOOSE j \in DOMAIN list : list[j] = o
         IN  IF i = 1 THEN Sentinel ELSE list[i - 1]

\* Faulty variant: the copy is left as it was before the swap.
StaleCopy(list, old, new) == list
ReplaceInPlace(list, old, new) == ReplaceAll(list, old, new)

(***************************************************************************)
(* One call of each loop.  `threshold' is curThreshold.                    *)
(***************************************************************************)
SwapStep(st, old, new) ==
    [safe |-> SwapOwner(st.safe, PrevOwner(st.list, old), old, new),
     list |-> ReplaceInPlace(st.list, old, new),
     threshold |-> st.threshold]

AddStep(st, new) ==
    [safe |-> AddOwnerWithThreshold(st.safe, new, st.threshold),
     list |-> <<new>> \o st.list,
     threshold |-> st.threshold]

\* The threshold follows the number of owners down, but never below one.
Clamped(th, count) == IF th <= count THEN th ELSE IF count < 1 THEN 1 ELSE count

RemoveStep(st, old) ==
    LET th == Clamped(st.threshold, Len(st.list) - 1)
    IN  [safe |-> RemoveOwner(st.safe, PrevOwner(st.list, old), old, th),
         list |-> Without(st.list, {old}),
         threshold |-> th]

\* The loops share their index: while both lists last an owner is swapped,
\* and what is left of the longer one is added or removed.
RotationCall(st, toRemove, toAdd, k) ==
    IF k > Len(toRemove) THEN AddStep(st, toAdd[k])
    ELSE IF k > Len(toAdd) THEN RemoveStep(st, toRemove[k])
    ELSE SwapStep(st, toRemove[k], toAdd[k])

Rotation(s, toRemove, toAdd) ==
    LET calls == IF Len(toRemove) < Len(toAdd) THEN Len(toAdd) ELSE Len(toRemove)
        after[k \in 0..calls] ==
            IF k = 0
            THEN [safe |-> s, list |-> s.owners, threshold |-> s.threshold]
            ELSE RotationCall(after[k - 1], toRemove, toAdd, k)
    IN  after[calls]

SyncOwners(s, desired, target) ==
    LET toRemove == Without(s.owners, ToSet(desired))
        toAdd == Without(desired, ToSet(s.owners))
        rotated == Rotation(s, toRemove, toAdd).safe
    IN  IF rotated.threshold \in {0, target} THEN rotated
        ELSE ChangeThreshold(rotated, target)

=============================================================================
