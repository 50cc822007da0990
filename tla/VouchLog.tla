------------------------------ MODULE VouchLog ------------------------------
(***************************************************************************)
(* What the strict off-chain lane promises of one owner's vouches: an      *)
(* append-only log of attestations and revocations, whose every version    *)
(* anybody can download, and of which a block reorganisation takes back    *)
(* no more than the part that is not final.                                *)
(***************************************************************************)
EXTENDS Integers, Sequences

VARIABLES
    log,         \* the entries, [kind, uid]
    settled,     \* the part of it that is final
    version,     \* the payload that carries the log
    published    \* the payloads that can be downloaded

logVars == <<log, settled, version, published>>

Extends(longer, shorter) ==
    /\ Len(shorter) <= Len(longer)
    /\ \A i \in 1..Len(shorter) : longer[i] = shorter[i]

\* An attestation enters once; a revocation is of one that is in force.
LegalEntry(entries, i) ==
    IF entries[i].kind = "attest"
    THEN \A j \in 1..(i - 1) : entries[j] # entries[i]
    ELSE /\ \E j \in 1..(i - 1) : entries[j] = [kind |-> "attest",
                                                uid |-> entries[i].uid]
         /\ \A j \in 1..(i - 1) : entries[j] # entries[i]

Legal(entries) == \A i \in 1..Len(entries) : LegalEntry(entries, i)

Init ==
    /\ log = <<>> /\ settled = <<>>
    /\ version = <<>> /\ published = {}

\* The owner's next version adds to the log, and is there to be downloaded.
Extend ==
    /\ Extends(log', log) /\ Len(log') > Len(log)
    /\ Legal(log')
    /\ version' \in published
    /\ UNCHANGED <<settled, published>>

\* A reorganisation takes back entries that were not final.
Retract ==
    /\ Extends(log, log') /\ Extends(log', settled)
    /\ UNCHANGED <<settled, published>>

Settle ==
    /\ Extends(settled', settled) /\ Extends(log, settled')
    /\ UNCHANGED <<log, version, published>>

Publish ==
    /\ published \subseteq published'
    /\ UNCHANGED <<log, settled, version>>

Next == Extend \/ Retract \/ Settle \/ Publish

Spec == Init /\ [][Next]_logVars
=============================================================================
