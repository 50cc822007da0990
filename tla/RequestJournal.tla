---------------------------- MODULE RequestJournal ----------------------------
(***************************************************************************)
(* crates/operator-core/src/journal.rs: the operator's append-only file of *)
(* what it asked for, paid for and learnt, one line per event, and what a  *)
(* reader concludes by replaying it.                                       *)
(*                                                                         *)
(* The process replays the file when it opens it and then keeps its own    *)
(* copy.  The two differ after an append that reached the disk but was     *)
(* reported as failed: `missed' holds the lines the process has not got.   *)
(* A crash in the middle of an append may leave a torn last line, with     *)
(* which open() refuses to start until somebody removes it.  Hashes, texts *)
(* and times are left out of a line.                                       *)
(***************************************************************************)
EXTENDS Integers, Sequences, FiniteSets

CONSTANTS
    Keys,           \* checkpoints of one instance on one chain
    ProofCost,      \* cents an Intent is booked with
    GasCost         \* cents a submission is booked with

VARIABLES
    file,           \* the lines on disk
    torn,           \* whether an incomplete line follows them
    missed,         \* lines on disk the running process does not know of
    aged            \* lines that are older than the budget window

journalVars == <<file, torn, missed, aged>>

(***************************************************************************)
(* The lines.  `tx' and `block' are those of a submission and its receipt. *)
(* The reader knows "Superseded"; the daemon never gets to write it.       *)
(***************************************************************************)
Types == {"Intent", "Requested", "ResolvedSome", "ResolvedNone", "Published",
          "SubmitPending", "SubmitReorged", "SubmitGas", "SubmitFailure",
          "Landed", "Superseded", "Abandoned"}
Record == [type : Types, key : Keys, tx : Nat, block : Nat]
Line(t, k) == [type |-> t, key |-> k, tx |-> 0, block |-> 0]
TxLine(t, k, tx, b) == [type |-> t, key |-> k, tx |-> tx, block |-> b]

Settlements == {"Landed", "Superseded"}
Resolutions == {"ResolvedSome", "ResolvedNone"}

\* What the process knows, and what the next one to open the file will know.
Known == (DOMAIN file) \ missed
OnDisk == DOMAIN file

Of(k, T, L) == {i \in L : file[i].key = k /\ file[i].type \in T}
LaterIn(i, S) == \E j \in S : j > i

JournalTypeOK ==
    /\ file \in Seq(Record) /\ missed \subseteq DOMAIN file
    /\ torn \in BOOLEAN /\ aged \in Nat

(***************************************************************************)
(* status(): the last line that decides wins, except that an abandonment   *)
(* is overridden by nothing but a settlement.                              *)
(***************************************************************************)
AbandonedBefore(k, L, i) ==
    \E j \in Of(k, {"Abandoned"}, L) :
        /\ j < i
        /\ ~\E m \in Of(k, Settlements, L) : j < m /\ m < i

Deciding(k, L) ==
    Of(k, Settlements \cup {"Abandoned"}, L)
    \cup {i \in Of(k, {"Intent", "Requested"} \cup Resolutions, L) :
              ~AbandonedBefore(k, L, i)}

LastDecides(k, L, T) ==
    \E i \in Deciding(k, L) :
        /\ file[i].type \in T
        /\ \A j \in Deciding(k, L) : j > i => file[j].type \in T

OutcomeUnknown(k, L) == LastDecides(k, L, {"Intent"})
InFlight(k, L) == LastDecides(k, L, {"Requested", "ResolvedSome"})
Settled(k, L) == LastDecides(k, L, Settlements)
Abandoned(k, L) == LastDecides(k, L, {"Abandoned"})

\* Faulty variant: an intent without an answer is taken for no request.
MayRequestUnrecorded(k, L) ==
    ~InFlight(k, L) /\ ~Settled(k, L) /\ ~Abandoned(k, L)

\* may_request(): everything decided so far was cleared by a human.
MayRequest(k, L) ==
    \A i \in Deciding(k, L) :
        file[i].type # "ResolvedNone" =>
            \E j \in Deciding(k, L) : j > i /\ file[j].type = "ResolvedNone"

(***************************************************************************)
(* The other questions asked of the journal.                               *)
(***************************************************************************)
\* pending_submissions(): receipts whose finality is still to be awaited.
PendingSubmission(k, L) ==
    {i \in Of(k, {"SubmitPending"}, L) :
        /\ ~LaterIn(i, Of(k, Settlements \cup {"SubmitPending", "Abandoned",
                                               "ResolvedNone"}, L))
        /\ ~\E j \in Of(k, {"SubmitReorged"}, L) :
                j > i /\ file[j].tx = file[i].tx}

\* submit_failures(): strikes since a human last cleared them.
SubmitFailures(k, L) ==
    Cardinality({i \in Of(k, {"SubmitGas", "SubmitFailure"}, L) :
        ~\E j \in Of(k, Resolutions, L) :
            j > i /\ ~\E a \in Of(k, {"Abandoned"}, L) : a < j})

\* publication_satisfied(): the score file is where readers look for it.
PublicationSatisfied(k, L) == Of(k, {"Published"}, L) # {}

\* spend(): what the window holds of proofs and gas.
Spend(L) ==
    LET recent(T) == Cardinality({i \in L : i > aged /\ file[i].type \in T})
    IN  ProofCost * recent({"Intent"})
        + GasCost * recent({"SubmitGas", "SubmitPending"})

(***************************************************************************)
(* Operations.  An append reaches the disk and the process, or it fails    *)
(* with or without its line on disk, or a crash interrupts it.             *)
(***************************************************************************)
JournalInit == file = <<>> /\ torn = FALSE /\ missed = {} /\ aged = 0

AppendRecord(r) ==
    /\ file' = Append(file, r)
    /\ UNCHANGED <<torn, missed, aged>>

AppendFails(r) ==
    /\ \/ UNCHANGED <<file, missed>>
       \/ /\ file' = Append(file, r)
          /\ missed' = missed \cup {Len(file) + 1}
    /\ UNCHANGED <<torn, aged>>

AppendCrashes(r) ==
    /\ \/ UNCHANGED <<file, torn>>
       \/ file' = Append(file, r) /\ UNCHANGED torn
       \/ torn' = TRUE /\ UNCHANGED file
    /\ UNCHANGED <<missed, aged>>

\* Faulty variant: the last line may be torn, so it is skipped.
OpenSkippingLast ==
    /\ ~torn
    /\ missed' = {i \in DOMAIN file : i = Len(file)}
    /\ UNCHANGED <<file, torn, aged>>

\* open(): every line is read; a torn one is an error, not a skip.
Open ==
    /\ ~torn
    /\ missed' = {}
    /\ UNCHANGED <<file, torn, aged>>

\* A human removes a torn line.
RemoveTornLine ==
    /\ torn
    /\ torn' = FALSE
    /\ UNCHANGED <<file, missed, aged>>

\* The oldest line in the budget window leaves it.
WindowMoves ==
    /\ aged < Len(file)
    /\ aged' = aged + 1
    /\ UNCHANGED <<file, torn, missed>>
=============================================================================
